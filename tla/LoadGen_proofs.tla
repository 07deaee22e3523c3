---------------------------- MODULE LoadGen_proofs ----------------------------
(***************************************************************************)
(* Proofs about the load generator, for every number of workers, requests  *)
(* and arrivals: what is in flight while it measures.  A request is in     *)
(* flight under an id below next_id, and one that measures under an index  *)
(* below measured_count; the counters only grow.                           *)
(***************************************************************************)
EXTENDS LoadGen, FiniteSetTheorems, TLAPS

Places == {"ready", "picking", "requesting", "left"}

Slot == [at : Places, index : Int, id : Int]

Sending(w) == slots[w].at = "requesting"
Claiming(w) == slots[w].at \in {"picking", "requesting"}

LoadType ==
    /\ args \in ArgSets
    /\ nextId \in Nat /\ measuredCount \in Nat
    /\ slots \in [DOMAIN slots -> Slot]
    /\ spawned \subseteq [index : Int, id : Int]
    /\ phase \in {"checking", "refused"} => slots = <<>> /\ spawned = {}
    /\ IF Closed THEN DOMAIN slots \subseteq Workers /\ spawned = {} ELSE DOMAIN slots = {}

\* No id is in flight twice.
IdsInv ==
    /\ \A w \in DOMAIN slots : Sending(w) => slots[w].id < nextId
    /\ \A t \in spawned : t.id < nextId
    /\ \A v, w \in DOMAIN slots : Sending(v) /\ Sending(w) /\ slots[v].id = slots[w].id => v = w
    /\ \A t, u \in spawned : t.id = u.id => t = u

\* In the window every request has an index, and no index is out twice.
IndexInv ==
    phase = "measuring" =>
        /\ \A w \in DOMAIN slots : Claiming(w) => slots[w].index \in 0 .. measuredCount - 1
        /\ \A t \in spawned : t.index \in 0 .. measuredCount - 1
        /\ \A v, w \in DOMAIN slots :
              Claiming(v) /\ Claiming(w) /\ slots[v].index = slots[w].index => v = w
        /\ \A t, u \in spawned : t.index = u.index => t = u

LoadInv == LoadType /\ IdsInv /\ IndexInv

-----------------------------------------------------------------------------
(* The workers                                                             *)

\* One slot changes, in its place and perhaps its index or id.
SlotMoves(w, p, index, id) ==
    /\ w \in DOMAIN slots
    /\ DOMAIN slots' = DOMAIN slots
    /\ slots'[w] = [at |-> p, index |-> index, id |-> id]
    /\ \A v \in DOMAIN slots : v # w => slots'[v] = slots[v]

LEMMA SlotFacts ==
    ASSUME LoadInv, NEW w \in DOMAIN slots
    PROVE  /\ slots[w] \in Slot
           /\ slots[w].at \in Places /\ slots[w].index \in Int /\ slots[w].id \in Int
           /\ slots[w] = [at |-> slots[w].at, index |-> slots[w].index, id |-> slots[w].id]
  BY DEF LoadInv, LoadType, Slot

LEMMA GoMoves ==
    ASSUME LoadInv, NEW w \in DOMAIN slots, NEW p \in Places, Go(w, p)
    PROVE  SlotMoves(w, p, slots[w].index, slots[w].id)
  <1>1. slots' = [slots EXCEPT ![w].at = p] /\ slots \in [DOMAIN slots -> Slot]
    BY DEF Go, LoadInv, LoadType
  <1>2. slots'[w] = [slots[w] EXCEPT !.at = p]
    BY <1>1
  <1> QED
    BY <1>1, <1>2, SlotFacts DEF SlotMoves, Slot

\* The type and the ids, when one slot changes and sends nothing new.
LEMMA MoveKeeps ==
    ASSUME LoadInv, NEW w \in DOMAIN slots, NEW p \in Places, NEW index \in Int, NEW id \in Int,
           SlotMoves(w, p, index, id), UNCHANGED <<args, phase, spawned>>,
           slots' = [v \in DOMAIN slots' |-> slots'[v]],
           measuredCount' \in Nat, nextId' \in Nat, nextId <= nextId',
           phase \notin {"checking", "refused"},
           p = "requesting" => id = nextId /\ nextId < nextId'
    PROVE  LoadType' /\ IdsInv'
  <1>1. LoadType'
    <2>1. \A v \in DOMAIN slots' : slots'[v] \in Slot
      BY SlotFacts DEF SlotMoves, Slot
    <2>2. slots' \in [DOMAIN slots' -> Slot]
      BY <2>1
    <2>3. Closed' = Closed /\ Workers' = Workers
      BY DEF Closed, Workers
    <2> QED
      BY <2>2, <2>3 DEF LoadInv, LoadType, SlotMoves
  <1>2. \A v \in DOMAIN slots : Sending(v)' => v = w \/ Sending(v)
    BY DEF Sending, SlotMoves
  <1>3. \A v \in DOMAIN slots : v # w /\ Sending(v) => slots'[v] = slots[v] /\ slots[v].id < nextId
    BY DEF LoadInv, IdsInv, SlotMoves
  <1>4. Sending(w)' => slots'[w].id = nextId /\ nextId < nextId'
    BY DEF Sending, SlotMoves
  <1>5. \A v \in DOMAIN slots' : Sending(v)' => slots'[v].id < nextId'
    <2>1. ASSUME NEW v \in DOMAIN slots, Sending(v)' PROVE slots'[v].id < nextId'
      <3>1. CASE v = w
        BY <1>4, <2>1, <3>1
      <3>2. CASE v # w
        BY <1>2, <1>3, <2>1, <3>2, SlotFacts DEF LoadInv, LoadType
      <3> QED
        BY <3>1, <3>2
    <2> QED
      BY <2>1 DEF SlotMoves
  <1>6. \A u, v \in DOMAIN slots' :
            Sending(u)' /\ Sending(v)' /\ slots'[u].id = slots'[v].id => u = v
    <2>1. ASSUME NEW v \in DOMAIN slots, v # w, Sending(w)', Sending(v)'
          PROVE  slots'[v].id # slots'[w].id
      BY <1>2, <1>3, <1>4, <2>1 DEF LoadInv, LoadType
    <2>2. ASSUME NEW u \in DOMAIN slots, NEW v \in DOMAIN slots, u # w, v # w,
                 Sending(u)', Sending(v)', slots'[u].id = slots'[v].id
          PROVE  u = v
      BY <1>2, <1>3, <2>2 DEF LoadInv, IdsInv
    <2> QED
      BY <2>1, <2>2 DEF SlotMoves
  <1>7. \A t \in spawned' : t.id < nextId'
    BY DEF LoadInv, LoadType, IdsInv
  <1> QED
    BY <1>1, <1>5, <1>6, <1>7 DEF LoadInv, IdsInv

\* The indices, when the slot keeps its index, takes the next, or claims none.
LEMMA MoveKeepsIndices ==
    ASSUME LoadInv, NEW w \in DOMAIN slots, NEW p \in Places, NEW index \in Int, NEW id \in Int,
           SlotMoves(w, p, index, id), UNCHANGED <<phase, spawned>>,
           measuredCount' \in Nat, measuredCount <= measuredCount',
           p \in {"picking", "requesting"} =>
               \/ Claiming(w) /\ index = slots[w].index
               \/ index = measuredCount /\ measuredCount < measuredCount'
    PROVE  IndexInv'
  <1> SUFFICES ASSUME phase = "measuring" PROVE IndexInv'
    BY DEF IndexInv
  <1>1. measuredCount \in Nat /\ measuredCount' \in Nat
    BY DEF LoadInv, LoadType
  <1>2. \A v \in DOMAIN slots : v # w => slots'[v] = slots[v] /\ (Claiming(v)' <=> Claiming(v))
    BY DEF Claiming, SlotMoves
  <1>3. Claiming(w)' => \/ Claiming(w) /\ slots'[w].index = slots[w].index
                        \/ slots'[w].index = measuredCount /\ measuredCount < measuredCount'
    BY DEF Claiming, SlotMoves
  <1>4. \A v \in DOMAIN slots : Claiming(v) => slots[v].index \in 0 .. measuredCount - 1
    BY DEF LoadInv, IndexInv
  <1>5. ASSUME NEW v \in DOMAIN slots, Claiming(v)'
        PROVE  slots'[v].index \in 0 .. measuredCount' - 1
    <2>1. CASE v = w
      BY <1>1, <1>3, <1>4, <1>5, <2>1
    <2>2. CASE v # w
      BY <1>1, <1>2, <1>4, <1>5, <2>2
    <2> QED
      BY <2>1, <2>2
  <1>6. ASSUME NEW u \in DOMAIN slots, NEW v \in DOMAIN slots, Claiming(u)', Claiming(v)',
               slots'[u].index = slots'[v].index
        PROVE  u = v
    <2>1. \A x \in DOMAIN slots : x # w /\ Claiming(x)' => slots'[x].index # slots'[w].index
                                                          \/ ~Claiming(w)'
      <3>1. ASSUME NEW x \in DOMAIN slots, x # w, Claiming(x)', Claiming(w)'
            PROVE  slots'[x].index # slots'[w].index
        <4>1. /\ Claiming(x) /\ slots'[x].index = slots[x].index
              /\ slots[x].index \in 0 .. measuredCount - 1
          BY <1>2, <1>4, <3>1
        <4>2. CASE Claiming(w) /\ slots'[w].index = slots[w].index
          BY <3>1, <4>1, <4>2 DEF LoadInv, IndexInv
        <4>3. CASE slots'[w].index = measuredCount
          BY <1>1, <4>1, <4>3
        <4> QED
          BY <1>3, <3>1, <4>2, <4>3
      <3> QED
        BY <3>1
    <2>2. CASE u # w /\ v # w
      BY <1>2, <1>6, <2>2 DEF LoadInv, IndexInv
    <2> QED
      BY <1>6, <2>1, <2>2
  <1>7. \A t \in spawned' : t.index \in 0 .. measuredCount' - 1
    BY <1>1 DEF LoadInv, IndexInv
  <1>8. \A t, u \in spawned' : t.index = u.index => t = u
    BY DEF LoadInv, IndexInv
  <1> QED
    BY <1>5, <1>6, <1>7, <1>8 DEF IndexInv, SlotMoves

LEMMA WorkerKeeps ==
    ASSUME LoadInv, NEW w \in AnyWorker, WorkerStep(w)
    PROVE  LoadInv'
  <1>1. w \in DOMAIN slots
    BY DEF WorkerStep, Look, Claim, Pick, Answered, At
  <1>2. nextId \in Nat /\ measuredCount \in Nat /\ slots \in [DOMAIN slots -> Slot]
    BY DEF LoadInv, LoadType
  <1>3. slots[w].at \in Places /\ slots[w].index \in Int /\ slots[w].id \in Int
    BY <1>1, SlotFacts
  <1>4. phase \notin {"checking", "refused"}
    <2>1. slots # <<>>
      BY <1>1
    <2> QED
      BY <2>1 DEF LoadInv, LoadType
  <1>5. ASSUME NEW p \in Places \ {"requesting", "picking"}, Go(w, p),
               UNCHANGED <<args, phase, spawned, nextId>>,
               measuredCount' \in {measuredCount, measuredCount + 1}
        PROVE  LoadInv'
    <2>1. SlotMoves(w, p, slots[w].index, slots[w].id)
      BY <1>1, <1>5, GoMoves
    <2>2. slots' = [v \in DOMAIN slots' |-> slots'[v]]
      BY <1>2, <1>5 DEF Go
    <2>3. measuredCount' \in Nat /\ measuredCount <= measuredCount'
      BY <1>2, <1>5
    <2>4. LoadType' /\ IdsInv'
      BY <1>1, <1>2, <1>3, <1>4, <1>5, <2>1, <2>2, <2>3, MoveKeeps
    <2>5. IndexInv'
      BY <1>1, <1>3, <1>5, <2>1, <2>3, MoveKeepsIndices
    <2> QED
      BY <2>4, <2>5 DEF LoadInv
  <1>6. CASE Look(w)
    <2>1. CASE Go(w, "left")
      BY <1>5, <1>6, <2>1 DEF Look, Places
    <2>2. CASE Go(w, "picking")
      <3>1. SlotMoves(w, "picking", slots[w].index, slots[w].id)
        BY <1>1, <2>2, GoMoves DEF Places
      <3>2. slots' = [v \in DOMAIN slots' |-> slots'[v]]
        BY <1>2, <2>2 DEF Go
      <3>3. UNCHANGED <<args, phase, spawned, nextId, measuredCount>> /\ phase # "measuring"
        BY <1>6 DEF Look, Warming
      <3>4. LoadType' /\ IdsInv'
        BY <1>1, <1>2, <1>3, <1>4, <3>1, <3>2, <3>3, MoveKeeps DEF Places
      <3>5. IndexInv'
        BY <3>3 DEF IndexInv
      <3> QED
        BY <3>4, <3>5 DEF LoadInv
    <2> QED
      BY <1>6, <2>1, <2>2 DEF Look
  <1>7. CASE Claim(w)
    <2>1. /\ measuredCount' = measuredCount + 1
          /\ UNCHANGED <<args, phase, spawned, nextId>>
      BY <1>7 DEF Claim
    <2>2. CASE Go(w, "left")
      BY <1>5, <2>1, <2>2 DEF Places
    <2>3. CASE slots' = [slots EXCEPT ![w] = [@ EXCEPT !.at = "picking", !.index = measuredCount]]
      <3>1. slots'[w] = [at |-> "picking", index |-> measuredCount, id |-> slots[w].id]
        BY <1>1, <1>2, <2>3, SlotFacts DEF Slot
      <3>2. SlotMoves(w, "picking", measuredCount, slots[w].id)
        BY <1>1, <1>2, <2>3, <3>1 DEF SlotMoves
      <3>3. slots' = [v \in DOMAIN slots' |-> slots'[v]]
        BY <1>2, <2>3
      <3>4. measuredCount' \in Nat /\ measuredCount < measuredCount' /\ measuredCount <= measuredCount'
        BY <1>2, <2>1
      <3>5. LoadType' /\ IdsInv'
        BY <1>1, <1>2, <1>3, <1>4, <2>1, <3>2, <3>3, <3>4, MoveKeeps DEF Places
      <3>6. IndexInv'
        BY <1>1, <1>2, <1>3, <2>1, <3>2, <3>4, MoveKeepsIndices DEF Places
      <3> QED
        BY <3>5, <3>6 DEF LoadInv
    <2> QED
      BY <1>7, <2>2, <2>3 DEF Claim
  <1>8. CASE Pick(w)
    <2>1. /\ slots[w].at = "picking" /\ nextId' = nextId + 1
          /\ slots' = [slots EXCEPT ![w] = [@ EXCEPT !.at = "requesting", !.id = nextId]]
          /\ UNCHANGED <<args, phase, spawned, measuredCount>>
      BY <1>8 DEF Pick, At
    <2>2. slots'[w] = [at |-> "requesting", index |-> slots[w].index, id |-> nextId]
      BY <1>1, <1>2, <2>1, SlotFacts DEF Slot
    <2>3. SlotMoves(w, "requesting", slots[w].index, nextId)
      BY <1>1, <1>2, <2>1, <2>2 DEF SlotMoves
    <2>4. slots' = [v \in DOMAIN slots' |-> slots'[v]]
      BY <1>2, <2>1
    <2>5. /\ nextId' \in Nat /\ nextId < nextId' /\ nextId <= nextId' /\ nextId \in Int
          /\ measuredCount' \in Nat /\ "requesting" \in Places
      BY <1>2, <2>1 DEF Places
    <2>6. LoadType' /\ IdsInv'
      <3> HIDE DEF SlotMoves
      <3> QED
        BY <1>1, <1>3, <1>4, <2>1, <2>3, <2>4, <2>5, MoveKeeps
    <2>7. IndexInv'
      BY <1>1, <1>2, <1>3, <2>1, <2>3, MoveKeepsIndices DEF Places, Claiming
    <2> QED
      BY <2>6, <2>7 DEF LoadInv
  <1>9. CASE \E o \in Outcomes : Answered(w, o)
    <2>1. Go(w, "ready") /\ UNCHANGED <<args, phase, spawned, nextId, measuredCount>>
      BY <1>9 DEF Answered
    <2> QED
      BY <1>5, <2>1 DEF Places
  <1> QED
    BY <1>6, <1>7, <1>8, <1>9 DEF WorkerStep

-----------------------------------------------------------------------------
(* The tasks of poisson mode                                               *)

LEMMA SpawnKeeps ==
    ASSUME LoadInv, ~Closed, NEW index \in Int, Spawn(index), phase \notin {"checking", "refused"},
           measuredCount' \in Nat, measuredCount <= measuredCount',
           phase = "measuring" => index = measuredCount /\ measuredCount < measuredCount'
    PROVE  LoadInv'
  <1> DEFINE task == [index |-> index, id |-> nextId]
  <1>1. /\ spawned' = spawned \cup {task} /\ nextId' = nextId + 1
        /\ UNCHANGED <<args, phase, slots>>
    BY DEF Spawn
  <1>2. task.index = index /\ task.id = nextId /\ task \in [index : Int, id : Int]
    BY DEF LoadInv, LoadType
  <1>3. nextId \in Nat /\ measuredCount \in Nat /\ DOMAIN slots = {}
    BY DEF LoadInv, LoadType
  <1>4. \A t \in spawned : t.id \in Int /\ t.id < nextId /\ t.index \in Int
    BY DEF LoadInv, LoadType, IdsInv
  <1> HIDE DEF task
  <1>5. LoadType'
    BY <1>1, <1>2, <1>3 DEF LoadInv, LoadType, Closed, Workers
  <1>6. IdsInv'
    BY <1>1, <1>2, <1>3, <1>4 DEF LoadInv, IdsInv
  <1>7. IndexInv'
    <2>1. SUFFICES ASSUME phase = "measuring" PROVE IndexInv'
      BY <1>1 DEF IndexInv
    <2>2. \A t \in spawned : t.index \in 0 .. measuredCount - 1
      BY <2>1 DEF LoadInv, IndexInv
    <2>3. \A t \in spawned' : t.index \in 0 .. measuredCount' - 1
      BY <1>1, <1>2, <1>3, <2>1, <2>2
    <2>4. \A t, u \in spawned' : t.index = u.index => t = u
      BY <1>1, <1>2, <1>3, <2>1, <2>2 DEF LoadInv, IndexInv
    <2> QED
      BY <1>1, <1>3, <2>3, <2>4 DEF IndexInv
  <1> QED
    BY <1>5, <1>6, <1>7 DEF LoadInv

LEMMA TaskKeeps ==
    ASSUME LoadInv, TaskStep
    PROVE  LoadInv'
  <1>1. PICK t \in spawned : spawned' = spawned \ {t}
    BY DEF TaskStep, TaskAnswered
  <1>2. UNCHANGED <<args, phase, slots, nextId, measuredCount>>
    BY DEF TaskStep, TaskAnswered
  <1> QED
    BY <1>1, <1>2 DEF LoadInv, LoadType, IdsInv, IndexInv, Closed, Workers, Sending, Claiming

-----------------------------------------------------------------------------
(* main()                                                                  *)

\* The workers are spawned anew, and there are no tasks.
LEMMA FreshKeeps ==
    ASSUME LoadInv, spawned = {}, phase' \notin {"checking", "refused"},
           slots' = (IF Closed THEN AllAt("ready") ELSE <<>>),
           UNCHANGED <<args, spawned, nextId, measuredCount>>
    PROVE  LoadInv'
  <1>1. \A w \in DOMAIN slots' : slots'[w] = [at |-> "ready", index |-> None, id |-> None]
    BY DEF AllAt
  <1>2. slots' \in [DOMAIN slots' -> Slot]
    <2>1. [at |-> "ready", index |-> None, id |-> None] \in Slot
      BY DEF Slot, Places, None
    <2> QED
      BY <2>1 DEF AllAt
  <1>3. Closed' = Closed /\ Workers' = Workers
    BY DEF Closed, Workers
  <1>4. LoadType'
    BY <1>2, <1>3 DEF LoadInv, LoadType, AllAt
  <1>5. \A w \in DOMAIN slots' : ~Sending(w)' /\ ~Claiming(w)'
    BY <1>1 DEF Sending, Claiming
  <1> QED
    BY <1>4, <1>5 DEF LoadInv, IdsInv, IndexInv

\* main() goes on, and what is in flight stays.
LEMMA PhaseKeeps ==
    ASSUME LoadInv, phase' # "measuring",
           phase' \in {"checking", "refused"} => phase \in {"checking", "refused"},
           UNCHANGED <<args, slots, spawned, nextId, measuredCount>>
    PROVE  LoadInv'
  BY DEF LoadInv, LoadType, IdsInv, IndexInv, Closed, Workers, Sending

LEMMA MainKeeps ==
    ASSUME LoadInv, Main \/ ArriveWarmup
    PROVE  LoadInv'
  <1>1. CASE RefuseArgs \/ EndWarmup \/ JoinMeasured \/ Report
    <2>1. UNCHANGED <<args, slots, spawned, nextId, measuredCount>>
      BY <1>1 DEF RefuseArgs, EndWarmup, JoinMeasured, Report
    <2>2. /\ phase' # "measuring"
          /\ phase' \in {"checking", "refused"} => phase \in {"checking", "refused"}
      BY <1>1 DEF RefuseArgs, EndWarmup, JoinMeasured, Report
    <2> QED
      BY <2>1, <2>2, PhaseKeeps
  <1>2. CASE AcceptArgs
    BY <1>2, FreshKeeps DEF AcceptArgs, LoadInv, LoadType
  <1>3. CASE JoinWarmup
    BY <1>3, FreshKeeps DEF JoinWarmup
  <1>4. CASE Arrive
    <2>1. /\ measuredCount \in Nat /\ ~Closed /\ phase = "measuring" /\ Spawn(measuredCount)
          /\ measuredCount' = measuredCount + 1
      BY <1>4 DEF Arrive, LoadInv, LoadType
    <2>2. measuredCount' \in Nat /\ measuredCount < measuredCount' /\ measuredCount <= measuredCount'
          /\ measuredCount \in Int
      BY <2>1
    <2> QED
      BY <2>1, <2>2, SpawnKeeps
  <1>5. CASE ArriveWarmup
    <2>1. measuredCount \in Nat /\ measuredCount <= measuredCount /\ None \in Int
      BY DEF LoadInv, LoadType, None
    <2> QED
      BY <1>5, <2>1, SpawnKeeps DEF ArriveWarmup
  <1> QED
    BY <1>1, <1>2, <1>3, <1>4, <1>5 DEF Main

-----------------------------------------------------------------------------
(* The theorem                                                             *)

LEMMA InitLoad == Init => LoadInv
  BY DEF Init, LoadInv, LoadType, IdsInv, IndexInv

LEMMA LoadStep == LoadInv /\ [Next]_vars => LoadInv'
  <1> SUFFICES ASSUME LoadInv, [Next]_vars PROVE LoadInv'
    OBVIOUS
  <1>1. CASE UNCHANGED vars
    BY <1>1 DEF vars, LoadInv, LoadType, IdsInv, IndexInv, Closed, Workers, Sending, Claiming
  <1> QED
    BY <1>1, WorkerKeeps, TaskKeeps, MainKeeps DEF Next

\* Each worker of a closed loop has at most one request in flight.
LEMMA InFlightBounded ==
    ASSUME LoadInv, Closed
    PROVE  Cardinality(InFlight) <= args.concurrency
  <1> DEFINE senders == {w \in DOMAIN slots : slots[w].at = "requesting"}
             sent == {[index |-> slots[w].index, id |-> slots[w].id] : w \in senders}
             f == [w \in senders |-> [index |-> slots[w].index, id |-> slots[w].id]]
  <1>1. InFlight = sent
    BY DEF InFlight, LoadInv, LoadType
  <1>2. args.concurrency \in Nat
    BY LoadGenAssumption DEF LoadInv, LoadType
  <1>3. IsFiniteSet(Workers) /\ Cardinality(Workers) = args.concurrency
    <2> DEFINE n == args.concurrency
    <2> HIDE DEF n
    <2>1. n \in Nat
      BY <1>2 DEF n
    <2>2. IsFiniteSet(1 .. n) /\ Cardinality(1 .. n) = IF 1 > n THEN 0 ELSE n - 1 + 1
      BY <2>1, FS_Interval
    <2> QED
      BY <2>1, <2>2 DEF Workers, n
  <1>4. senders \in SUBSET Workers
    BY DEF LoadInv, LoadType
  <1>5. f \in Surjection(senders, sent)
    BY DEF Surjection
  <1> HIDE DEF senders, sent, f
  <1>6. IsFiniteSet(senders) /\ Cardinality(senders) <= Cardinality(Workers)
    BY <1>3, <1>4, FS_Subset
  <1>7. IsFiniteSet(sent) /\ Cardinality(sent) <= Cardinality(senders)
    BY <1>5, <1>6, FS_Surjection
  <1>8. Cardinality(sent) \in Nat /\ Cardinality(senders) \in Nat
    BY <1>6, <1>7, FS_CardinalityType
  <1> QED
    BY <1>1, <1>2, <1>3, <1>6, <1>7, <1>8

\* The window measures its own requests only, each under an index and an id
\* of its own, and a closed loop keeps to its slots; for every command line,
\* however the workers and tasks of src/bin/loadgen.rs interleave.
THEOREM WindowIsIsolated == Spec => []WindowIsolated
  <1>1. LoadInv => WindowIsolated
    <2> SUFFICES ASSUME LoadInv, phase = "measuring" PROVE WindowIsolated
      BY DEF WindowIsolated
    <2> DEFINE Sent(w) == [index |-> slots[w].index, id |-> slots[w].id]
    <2>1. ASSUME NEW t \in InFlight
          PROVE  t \in spawned \/ \E w \in DOMAIN slots : Sending(w) /\ t = Sent(w)
      BY DEF InFlight, Sending
    <2>2. \A w \in DOMAIN slots : Sent(w).index = slots[w].index /\ Sent(w).id = slots[w].id
      OBVIOUS
    <2>3. \A w \in DOMAIN slots : Sending(w) => Claiming(w)
      BY DEF Sending, Claiming
    <2> HIDE DEF Sent
    <2>4. measuredCount \in Nat
      BY DEF LoadInv, LoadType
    <2>5. ASSUME NEW t \in InFlight PROVE t.index # None
      <3>1. t.index \in 0 .. measuredCount - 1
        BY <2>1, <2>2, <2>3 DEF LoadInv, IndexInv
      <3> QED
        BY <2>4, <3>1 DEF None
    <2>6. ASSUME NEW t \in InFlight, NEW u \in InFlight, t.index = u.index \/ t.id = u.id
          PROVE  t = u
      <3>1. CASE Closed
        <4>1. PICK v \in DOMAIN slots : Sending(v) /\ t = Sent(v)
          BY <2>1, <3>1 DEF LoadInv, LoadType
        <4>2. PICK w \in DOMAIN slots : Sending(w) /\ u = Sent(w)
          BY <2>1, <3>1 DEF LoadInv, LoadType
        <4>3. v = w
          BY <2>2, <2>3, <2>6, <4>1, <4>2 DEF LoadInv, IdsInv, IndexInv
        <4> QED
          BY <4>1, <4>2, <4>3
      <3>2. CASE ~Closed
        <4>1. t \in spawned /\ u \in spawned
          BY <2>1, <3>2 DEF LoadInv, LoadType
        <4> QED
          BY <2>6, <4>1 DEF LoadInv, IdsInv, IndexInv
      <3> QED
        BY <3>1, <3>2
    <2> QED
      BY <2>5, <2>6, InFlightBounded DEF WindowIsolated
  <1> QED
    BY <1>1, InitLoad, LoadStep, PTL DEF Spec

=============================================================================
