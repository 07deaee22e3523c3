---------------------------- MODULE Server_proofs ----------------------------
(***************************************************************************)
(* Proofs about the server, for every set of clients, queue, token and     *)
(* stall limit.  ServerInv follows a candidate from its handler through    *)
(* the queue into the engine and back: what the handler does moves it      *)
(* along Moved, what the engine loop does leaves the handlers alone.       *)
(***************************************************************************)
EXTENDS Server, FiniteSetTheorems, FunctionTheorems, SequenceTheorems, TLAPS

Phases == {"new", "active", "streaming", "answered", "malformed", "failed", "broken", "left"}
Stages == {"unsent", "sending", "awaiting", "listening", "ok", "failed", "gone"}
Events == {"chunk", "ok", "failed"}
Loops == {"top", "draining", "cancelling", "dispatching", "counting", "stopped"}

Engaged == waiting \cup running
Handling == {h \in Clients : phase[h] = "active"}

\* The candidates of a stream are submitted in their order.
InOrder ==
    \A c, d \in Candidates :
        /\ Streams(Client(c)) /\ Client(d) = Client(c) /\ d[2] = c[2] + 1
        /\ at[c] \in {"unsent", "sending", "awaiting"}
        => at[d] = "unsent"

HandlerInv ==
    /\ body \in Bodies
    /\ phase \in [Clients -> Phases]
    /\ at \in [Candidates -> Stages]
    /\ closing \in BOOLEAN /\ errors \in Nat
    /\ inflight = Cardinality(Handling)
    /\ \A c \in Candidates : phase[Client(c)] = "new" => at[c] = "unsent"
    /\ InOrder

\* A candidate is submitted once, and listens only when admitted.
ReceiptInv ==
    /\ receipt \in [Candidates -> {"none", "admitted", "refused"}]
    /\ \A c \in Candidates :
          /\ at[c] \in {"unsent", "sending"} => receipt[c] = "none"
          /\ at[c] = "listening" => receipt[c] = "admitted"

QueueInv ==
    /\ queue \in Seq(Candidates) /\ Len(queue) <= Capacity
    /\ \A i \in 1 .. Len(queue) :
          receipt[queue[i]] = "none" /\ at[queue[i]] \notin {"unsent", "sending"}
    /\ \A i, j \in 1 .. Len(queue) : queue[i] = queue[j] => i = j

EngineType ==
    /\ waiters \subseteq Candidates
    /\ waiting \subseteq Candidates /\ running \subseteq Candidates
    /\ undrained \subseteq Candidates
    /\ tokens \in [Candidates -> 0 .. MaxTokens] /\ deaf \in [Candidates -> 0 .. MaxTokens]
    /\ loop \in Loops
    /\ disconnected \subseteq Candidates
    /\ DOMAIN completed \subseteq Candidates
    /\ progressed \in BOOLEAN /\ idleSteps \in 0 .. StallLimit - 1
    /\ snapshot \in Nat

\* Which of its senders the loop holds, by where it is in a pass.
WaitersInv ==
    /\ loop \notin {"cancelling", "dispatching"} =>
          waiters = Engaged /\ DOMAIN completed = {} /\ disconnected = {}
    /\ loop \in {"cancelling", "dispatching"} =>
          /\ Engaged \subseteq waiters /\ waiters \subseteq Engaged \cup DOMAIN completed
          /\ Engaged \cap DOMAIN completed = {}
    /\ loop = "cancelling" => disconnected \subseteq waiters
    /\ loop # "cancelling" => disconnected = {}
    /\ waiting \cap running = {} /\ undrained \cap Engaged = {}

\* What was never admitted has left no trace in the engine; nobody listens to
\* the disconnected, and what a request says to nobody is its last word.
TraceInv ==
    /\ \A c \in Candidates : receipt[c] # "admitted" =>
          /\ c \notin waiters \cup Engaged \cup undrained \cup DOMAIN completed
          /\ tokens[c] = 0 /\ deaf[c] = 0
    /\ \A c \in Engaged : tokens[c] < MaxTokens
    /\ \A c \in disconnected : ~Listening(c)
    /\ \A c \in Candidates :
          /\ deaf[c] <= tokens[c]
          /\ ~Buffered => /\ deaf[c] <= 1
                          /\ deaf[c] = 1 => c \notin Engaged \/ c \in disconnected

EngineInv == EngineType /\ WaitersInv /\ TraceInv

Told(c) == channel[c] # <<>> /\ channel[c][Len(channel[c])] \in {"ok", "failed"}

\* Whoever was admitted and has not heard the end has a sender or the end in
\* its channel.
ChannelInv ==
    /\ channel \in [Candidates -> Seq(Events)]
    /\ \A c \in Candidates :
          receipt[c] = "admitted" /\ at[c] \in {"awaiting", "listening"} =>
              c \in waiters \/ Told(c)

ServerInv == HandlerInv /\ ReceiptInv /\ QueueInv /\ EngineInv /\ ChannelInv

engineLoopVars == <<receipt, waiters, engineVars, loop, passVars>>

-----------------------------------------------------------------------------
(* Facts                                                                   *)

LEMMA CandidateFacts ==
    /\ \A c \in Candidates : Client(c) \in Clients /\ c[2] \in 1 .. MaxCandidates
    /\ \A h : Of(h) \subseteq Candidates
  BY DEF Candidates, Client, Of

LEMMA FiniteCandidates == IsFiniteSet(Candidates)
  <1>1. IsFiniteSet(1 .. MaxCandidates)
    BY FS_Interval, ServerAssumption
  <1> QED
    BY <1>1, FS_Product, ServerAssumption DEF Candidates

LEMMA HandlingFacts ==
    /\ IsFiniteSet(Handling)
    /\ Cardinality(Handling) \in Nat
  <1>1. IsFiniteSet(Handling)
    BY FS_Subset, ServerAssumption DEF Handling
  <1> QED
    BY <1>1, FS_CardinalityType

\* A client starts to be handled.
LEMMA HandlingStarts ==
    ASSUME HandlerInv, NEW h \in Clients, phase[h] # "active",
           phase' = [phase EXCEPT ![h] = "active"]
    PROVE  Cardinality(Handling') = inflight + 1
  <1>1. Handling' = Handling \cup {h} /\ h \notin Handling
    BY DEF Handling, HandlerInv
  <1> QED
    BY <1>1, HandlingFacts, FS_AddElement DEF HandlerInv

\* A client is no longer handled.
LEMMA HandlingEnds ==
    ASSUME HandlerInv, NEW h \in Clients, NEW end \in Phases \ {"active"},
           phase' = [phase EXCEPT ![h] = end]
    PROVE  Cardinality(Handling') = IF phase[h] = "active" THEN inflight - 1 ELSE inflight
  <1>1. CASE phase[h] = "active"
    <2>1. Handling' = Handling \ {h} /\ h \in Handling
      BY <1>1 DEF Handling, HandlerInv
    <2> QED
      BY <1>1, <2>1, HandlingFacts, FS_RemoveElement DEF HandlerInv
  <1>2. CASE phase[h] # "active"
    <2>1. Handling' = Handling
      BY <1>2 DEF Handling, HandlerInv
    <2> QED
      BY <1>2, <2>1 DEF HandlerInv
  <1> QED
    BY <1>1, <1>2

-----------------------------------------------------------------------------
(* The steps of the handlers                                               *)

\* How a handler may move a candidate.
Moved(c) ==
    \/ at'[c] = at[c]
    \/ at[c] = "unsent" /\ at'[c] = "sending"
    \/ at[c] = "sending" /\ at'[c] \in {"awaiting", "gone"}
    \/ at[c] = "awaiting" /\ at'[c] \in {"failed", "gone"}
    \/ at[c] = "awaiting" /\ receipt[c] = "admitted" /\ at'[c] = "listening"
    \/ at[c] = "listening" /\ at'[c] \in {"ok", "failed", "gone"}

AllMoved == \A c \in Candidates : Moved(c)

LEMMA HandlerKeepsReceipts ==
    ASSUME HandlerInv, ReceiptInv, AllMoved, receipt' = receipt
    PROVE  ReceiptInv'
  <1>1. ASSUME NEW c \in Candidates
        PROVE  /\ at'[c] \in {"unsent", "sending"} => receipt[c] = "none"
               /\ at'[c] = "listening" => receipt[c] = "admitted"
    BY DEF AllMoved, Moved, ReceiptInv
  <1> QED
    BY <1>1 DEF ReceiptInv

LEMMA HandlerKeepsQueue ==
    ASSUME QueueInv, AllMoved, receipt' = receipt, queue' = queue
    PROVE  QueueInv'
  <1>1. ASSUME NEW i \in 1 .. Len(queue)
        PROVE  receipt[queue[i]] = "none" /\ at'[queue[i]] \notin {"unsent", "sending"}
    <2>1. queue[i] \in Candidates
      BY DEF QueueInv
    <2> QED
      BY <2>1 DEF QueueInv, AllMoved, Moved
  <1> QED
    BY <1>1 DEF QueueInv

LEMMA HandlerKeepsEngine ==
    ASSUME EngineInv, ReceiptInv, AllMoved, UNCHANGED engineLoopVars
    PROVE  EngineInv'
  <1>1. EngineType' /\ WaitersInv'
    BY DEF EngineInv, EngineType, WaitersInv, engineLoopVars, engineVars, passVars, Engaged
  <1>2. ASSUME NEW c \in disconnected PROVE ~Listening(c)'
    <2>1. c \in Candidates
      BY DEF EngineInv, EngineType
    <2>2. receipt[c] = "admitted" /\ ~Listening(c)
      BY <2>1 DEF EngineInv, WaitersInv, TraceInv
    <2> QED
      BY <2>1, <2>2 DEF AllMoved, Moved, Listening, ReceiptInv
  <1>3. TraceInv'
    BY <1>2 DEF EngineInv, TraceInv, engineLoopVars, engineVars, passVars, Engaged
  <1> QED
    BY <1>1, <1>3 DEF EngineInv

LEMMA HandlerKeepsChannels ==
    ASSUME ChannelInv, ReceiptInv, AllMoved, UNCHANGED engineLoopVars, channel' = channel
    PROVE  ChannelInv'
  <1>1. ASSUME NEW c \in Candidates, receipt[c] = "admitted", at'[c] \in {"awaiting", "listening"}
        PROVE  c \in waiters \/ Told(c)
    BY <1>1 DEF AllMoved, Moved, ReceiptInv, ChannelInv
  <1> QED
    BY <1>1 DEF ChannelInv, engineLoopVars, Told

LEMMA HandlerKeepsAll ==
    ASSUME ServerInv, HandlerInv', AllMoved, UNCHANGED engineLoopVars,
           queue' = queue, channel' = channel
    PROVE  ServerInv'
  BY HandlerKeepsReceipts, HandlerKeepsQueue, HandlerKeepsEngine, HandlerKeepsChannels
  DEF ServerInv, engineLoopVars

\* Where at stays, nothing has moved.
LEMMA StayedMoved ==
    ASSUME at' = at
    PROVE  AllMoved
  BY DEF AllMoved, Moved

LEMMA ArriveStep ==
    ASSUME ServerInv, NEW h \in Clients, Arrive(h)
    PROVE  ServerInv'
  <1>1. /\ phase[h] = "new" /\ h \in DOMAIN body
        /\ phase' = [phase EXCEPT ![h] = "active"]
        /\ at' = [c \in Candidates |->
                     IF c \in Of(h) /\ (Streams(h) => c[2] = 1) THEN "sending" ELSE at[c]]
        /\ UNCHANGED <<body, closing, errors>> /\ inflight' = inflight + 1
    BY DEF Arrive
  <1>2. \A c \in Of(h) : c \in Candidates /\ Client(c) = h /\ at[c] = "unsent"
    BY <1>1 DEF Of, ServerInv, HandlerInv
  <1>3. AllMoved
    BY <1>1, <1>2 DEF AllMoved, Moved
  <1>4. InOrder'
    <2>1. ASSUME NEW c \in Candidates, NEW d \in Candidates,
                 Streams(Client(c)), Client(d) = Client(c), d[2] = c[2] + 1,
                 at'[c] \in {"unsent", "sending", "awaiting"}
          PROVE  at'[d] = "unsent"
      <3>1. c[2] \in 1 .. MaxCandidates /\ d[2] # 1
        BY <2>1, CandidateFacts, ServerAssumption
      <3>2. at[c] \in {"unsent", "sending", "awaiting"}
        BY <1>1, <1>2, <2>1
      <3>3. at[d] = "unsent"
        BY <2>1, <3>2 DEF ServerInv, HandlerInv, InOrder
      <3>4. d \in Of(h) => Streams(h)
        BY <1>2, <2>1
      <3> QED
        BY <1>1, <3>1, <3>3, <3>4
    <2> QED
      BY <1>1, <2>1 DEF InOrder, Streams
  <1>5. ASSUME NEW c \in Candidates, phase'[Client(c)] = "new" PROVE at'[c] = "unsent"
    <2>1. Client(c) # h /\ phase[Client(c)] = "new"
      BY <1>1, <1>5, CandidateFacts DEF ServerInv, HandlerInv
    <2>2. c \notin Of(h)
      BY <1>2, <2>1
    <2> QED
      BY <1>1, <2>1, <2>2 DEF ServerInv, HandlerInv
  <1>6. phase' \in [Clients -> Phases] /\ at' \in [Candidates -> Stages]
    BY <1>1 DEF ServerInv, HandlerInv, Phases, Stages
  <1>7. inflight' = Cardinality(Handling')
    BY <1>1, HandlingStarts DEF ServerInv
  <1>8. HandlerInv'
    BY <1>1, <1>4, <1>5, <1>6, <1>7 DEF ServerInv, HandlerInv
  <1> QED
    BY <1>3, <1>8, HandlerKeepsAll DEF Arrive, engineLoopVars

\* What ends the handling of h, and leaves its candidates where they are.
LEMMA EndingKeepsHandlers ==
    ASSUME HandlerInv, NEW h \in Clients, NEW end \in Phases \ {"new", "active"},
           phase' = [phase EXCEPT ![h] = end],
           inflight' = IF phase[h] = "active" THEN inflight - 1 ELSE inflight,
           errors' \in Nat, UNCHANGED <<body, at, closing>>
    PROVE  HandlerInv'
  <1>1. inflight' = Cardinality(Handling')
    BY HandlingEnds
  <1>2. phase' \in [Clients -> Phases]
    BY DEF HandlerInv
  <1>3. \A c \in Candidates : phase'[Client(c)] = "new" => phase[Client(c)] = "new"
    BY CandidateFacts DEF HandlerInv
  <1> QED
    BY <1>1, <1>2, <1>3 DEF HandlerInv, InOrder, Streams

LEMMA RejectBodyStep ==
    ASSUME ServerInv, NEW h \in Clients, RejectBody(h)
    PROVE  ServerInv'
  <1>1. HandlerInv'
    BY EndingKeepsHandlers DEF RejectBody, ServerInv, HandlerInv, Phases
  <1> QED
    BY <1>1, StayedMoved, HandlerKeepsAll DEF RejectBody, engineLoopVars

LEMMA RejectParamsStep ==
    ASSUME ServerInv, NEW h \in Clients, RejectParams(h)
    PROVE  ServerInv'
  <1>1. errors' \in Nat
    BY DEF RejectParams, ServerInv, HandlerInv
  <1>2. HandlerInv'
    BY <1>1, EndingKeepsHandlers DEF RejectParams, ServerInv, Phases
  <1> QED
    BY <1>2, StayedMoved, HandlerKeepsAll DEF RejectParams, engineLoopVars

\* Answer, Refuse, Break and Leave.
LEMMA EndWithStep ==
    ASSUME ServerInv, NEW h \in Clients, NEW end \in {"answered", "failed", "broken", "left"},
           EndWith(h, end), errors' \in Nat,
           UNCHANGED <<body, at, closing, queue, channel>>, UNCHANGED engineLoopVars
    PROVE  ServerInv'
  <1>1. end \in Phases \ {"new", "active"}
    BY DEF Phases
  <1>2. HandlerInv'
    BY <1>1, EndingKeepsHandlers DEF EndWith, InHandler, ServerInv
  <1> QED
    BY <1>2, StayedMoved, HandlerKeepsAll

LEMMA EndingSteps ==
    ASSUME ServerInv, NEW h \in Clients, Answer(h) \/ Refuse(h) \/ Break(h) \/ Leave(h)
    PROVE  ServerInv'
  <1>1. errors' \in Nat
    BY DEF Answer, Refuse, Break, Leave, ServerInv, HandlerInv
  <1>2. CASE Answer(h)
    BY <1>1, <1>2, EndWithStep DEF Answer, engineLoopVars
  <1>3. CASE Refuse(h)
    BY <1>1, <1>3, EndWithStep DEF Refuse, engineLoopVars
  <1>4. CASE Break(h)
    BY <1>1, <1>4, EndWithStep DEF Break, engineLoopVars
  <1>5. CASE Leave(h)
    BY <1>1, <1>5, EndWithStep DEF Leave, engineLoopVars
  <1> QED
    BY <1>2, <1>3, <1>4, <1>5

LEMMA CloseStep ==
    ASSUME ServerInv, Close
    PROVE  ServerInv'
  <1>1. HandlerInv'
    BY DEF Close, ServerInv, HandlerInv, InOrder, Streams, Handling
  <1> QED
    BY <1>1, StayedMoved, HandlerKeepsAll DEF Close, engineLoopVars

LEMMA EnqueueStep ==
    ASSUME ServerInv, NEW c \in Candidates, Enqueue(c)
    PROVE  ServerInv'
  <1>1. /\ at[c] = "sending" /\ phase[Client(c)] = "active" /\ Len(queue) < Capacity
        /\ queue' = Append(queue, c) /\ at' = [at EXCEPT ![c] = "awaiting"]
        /\ receipt' = receipt /\ channel' = channel
        /\ UNCHANGED <<body, phase, closing, inflight, errors>> /\ UNCHANGED engineLoopVars
    BY DEF Enqueue, engineLoopVars
  <1>2. AllMoved
    BY <1>1 DEF AllMoved, Moved, ServerInv, HandlerInv
  <1>3. HandlerInv'
    <2>1. at' \in [Candidates -> Stages]
      BY <1>1 DEF ServerInv, HandlerInv, Stages
    <2>2. InOrder'
      <3>1. ASSUME NEW a \in Candidates, NEW d \in Candidates,
                   Streams(Client(a)), Client(d) = Client(a), d[2] = a[2] + 1,
                   at'[a] \in {"unsent", "sending", "awaiting"}
            PROVE  at'[d] = "unsent"
        <4>1. at[a] \in {"unsent", "sending", "awaiting"}
          BY <1>1, <3>1 DEF ServerInv, HandlerInv
        <4>2. at[d] = "unsent"
          BY <3>1, <4>1 DEF ServerInv, HandlerInv, InOrder
        <4> QED
          BY <1>1, <4>2 DEF ServerInv, HandlerInv
      <3> QED
        BY <1>1, <3>1 DEF InOrder, Streams
    <2>3. inflight' = Cardinality(Handling')
      BY <1>1 DEF ServerInv, HandlerInv, Handling
    <2>4. ASSUME NEW d \in Candidates, phase'[Client(d)] = "new" PROVE at'[d] = "unsent"
      BY <1>1, <2>4 DEF ServerInv, HandlerInv
    <2> QED
      BY <1>1, <2>1, <2>2, <2>3, <2>4 DEF ServerInv, HandlerInv
  <1>4. QueueInv'
    <2>1. queue \in Seq(Candidates) /\ Len(queue) \in Nat
      BY DEF ServerInv, QueueInv
    <2>2. /\ queue' \in Seq(Candidates) /\ Len(queue') = Len(queue) + 1
          /\ \A i \in 1 .. Len(queue) : queue'[i] = queue[i]
          /\ queue'[Len(queue) + 1] = c
      BY <1>1, <2>1, AppendProperties
    <2>3. receipt[c] = "none" /\ at'[c] = "awaiting"
      BY <1>1 DEF ServerInv, ReceiptInv, HandlerInv
    <2>4. \A i \in 1 .. Len(queue) :
             /\ queue[i] # c /\ queue[i] \in Candidates
             /\ receipt[queue[i]] = "none" /\ at[queue[i]] \notin {"unsent", "sending"}
      BY <1>1, <2>1 DEF ServerInv, QueueInv
    <2>5. \A i \in 1 .. Len(queue) : at'[queue[i]] = at[queue[i]]
      BY <1>1, <2>4 DEF ServerInv, HandlerInv
    <2>6. ASSUME NEW i \in 1 .. Len(queue')
          PROVE  receipt'[queue'[i]] = "none" /\ at'[queue'[i]] \notin {"unsent", "sending"}
      <3>1. CASE i = Len(queue) + 1
        BY <1>1, <2>2, <2>3, <3>1
      <3>2. CASE i \in 1 .. Len(queue)
        BY <1>1, <2>2, <2>4, <2>5, <3>2
      <3> QED
        BY <2>1, <2>2, <3>1, <3>2
    <2>7. ASSUME NEW i \in 1 .. Len(queue'), NEW j \in 1 .. Len(queue'), queue'[i] = queue'[j]
          PROVE  i = j
      <3>1. \A k \in 1 .. Len(queue') : k \in 1 .. Len(queue) \/ k = Len(queue) + 1
        BY <2>1, <2>2
      <3>2. CASE i \in 1 .. Len(queue) /\ j \in 1 .. Len(queue)
        BY <2>2, <2>7, <3>2 DEF ServerInv, QueueInv
      <3> QED
        BY <2>2, <2>4, <2>7, <3>1, <3>2
    <2>8. Len(queue') <= Capacity
      BY <1>1, <2>1, <2>2, ServerAssumption
    <2> QED
      BY <2>2, <2>6, <2>7, <2>8 DEF QueueInv
  <1> QED
    BY <1>1, <1>2, <1>3, <1>4, HandlerKeepsReceipts, HandlerKeepsEngine, HandlerKeepsChannels
    DEF ServerInv

\* A candidate that is submitted, told of its submission, told of its end or
\* given up, while its handler goes on.
LEMMA OnwardKeepsHandlers ==
    ASSUME HandlerInv, NEW c \in Candidates, at[c] # "unsent",
           NEW stage \in {"listening", "ok", "failed", "gone"},
           at' = [at EXCEPT ![c] = stage],
           UNCHANGED <<body, phase, closing, inflight, errors>>
    PROVE  HandlerInv'
  <1>1. at' \in [Candidates -> Stages]
    BY DEF HandlerInv, Stages
  <1>2. ASSUME NEW d \in Candidates PROVE
               /\ at'[d] \in {"unsent", "sending", "awaiting"} => at'[d] = at[d]
               /\ at[d] = "unsent" => at'[d] = "unsent"
    BY DEF HandlerInv
  <1>3. InOrder' 
    <2>1. ASSUME NEW a \in Candidates, NEW d \in Candidates,
                 Streams(Client(a)), Client(d) = Client(a), d[2] = a[2] + 1,
                 at'[a] \in {"unsent", "sending", "awaiting"}
          PROVE  at'[d] = "unsent"
      <3>1. at[a] \in {"unsent", "sending", "awaiting"}
        BY <1>2, <2>1
      <3> QED
        BY <1>2, <2>1, <3>1 DEF HandlerInv, InOrder
    <2> QED
      BY <2>1 DEF InOrder, Streams
  <1>4. \A d \in Candidates : phase'[Client(d)] = "new" => at'[d] = "unsent"
    BY <1>2 DEF HandlerInv
  <1>5. inflight' = Cardinality(Handling')
    BY DEF HandlerInv, Handling
  <1> QED
    BY <1>1, <1>3, <1>4, <1>5 DEF HandlerInv

LEMMA DropStep ==
    ASSUME ServerInv, NEW c \in Candidates, Drop(c)
    PROVE  ServerInv'
  <1>1. Listening(c) /\ at' = [at EXCEPT ![c] = "gone"]
    BY DEF Drop
  <1>2. HandlerInv'
    BY <1>1, OnwardKeepsHandlers DEF Drop, Listening, ServerInv
  <1>3. AllMoved
    BY <1>1 DEF AllMoved, Moved, Listening, ServerInv, HandlerInv
  <1> QED
    BY <1>2, <1>3, HandlerKeepsAll DEF Drop, engineLoopVars

LEMMA TakeReceiptStep ==
    ASSUME ServerInv, NEW c \in Candidates, TakeReceipt(c)
    PROVE  ServerInv'
  <1> DEFINE h == Client(c)
             next == <<h, c[2] + 1>>
  <1>1. /\ at[c] = "awaiting" /\ phase[h] = "active" /\ h \in Clients
        /\ UNCHANGED <<body, closing, errors, queue, channel>> /\ UNCHANGED engineLoopVars
    BY CandidateFacts DEF TakeReceipt, engineLoopVars
  <1>2. CASE receipt[c] = "refused" /\ at' = [at EXCEPT ![c] = "failed"]
             /\ UNCHANGED <<phase, inflight>>
    <2>1. HandlerInv'
      BY <1>1, <1>2, OnwardKeepsHandlers DEF ServerInv
    <2>2. AllMoved
      BY <1>1, <1>2 DEF AllMoved, Moved, ServerInv, HandlerInv
    <2> QED
      BY <1>1, <2>1, <2>2, HandlerKeepsAll
  <1>3. CASE receipt[c] = "admitted" /\ Streams(h) /\ next \in Of(h)
             /\ at' = [[at EXCEPT ![c] = "listening"] EXCEPT ![next] = "sending"]
             /\ UNCHANGED <<phase, inflight>>
    <2>1. next \in Candidates /\ Client(next) = h /\ next[2] = c[2] + 1 /\ next # c
      BY <1>3, CandidateFacts DEF Client, Of
    <2>2. at[next] = "unsent"
      BY <1>1, <1>3, <2>1 DEF ServerInv, HandlerInv, InOrder
    <2> HIDE DEF h, next
    <2>3. \A d \in Candidates :
             at'[d] = IF d = next THEN "sending" ELSE IF d = c THEN "listening" ELSE at[d]
      BY <1>3, <2>1 DEF ServerInv, HandlerInv
    <2>4. AllMoved
      BY <1>1, <1>3, <2>1, <2>2, <2>3 DEF AllMoved, Moved
    <2>5. at' \in [Candidates -> Stages]
      BY <1>3, <2>1 DEF ServerInv, HandlerInv, Stages
    <2>6. InOrder'
      <3>1. ASSUME NEW a \in Candidates, NEW d \in Candidates,
                   Streams(Client(a)), Client(d) = Client(a), d[2] = a[2] + 1,
                   at'[a] \in {"unsent", "sending", "awaiting"}
            PROVE  at'[d] = "unsent"
        <4>1. at[a] \in {"unsent", "sending", "awaiting"}
          BY <2>2, <2>3, <3>1
        <4>2. at[d] = "unsent" /\ d # c
          BY <1>1, <3>1, <4>1 DEF ServerInv, HandlerInv, InOrder
        <4>3. d # next
          <5>1. SUFFICES ASSUME d = next PROVE FALSE
            OBVIOUS
          <5>2. a[2] \in 1 .. MaxCandidates /\ c[2] \in 1 .. MaxCandidates
            BY CandidateFacts
          <5>3. Client(a) = Client(c) /\ a[2] = c[2]
            BY <2>1, <3>1, <5>1, <5>2, ServerAssumption DEF h
          <5>4. a = c
            BY <5>3 DEF Candidates, Client
          <5> QED
            BY <2>1, <2>3, <3>1, <5>4
        <4> QED
          BY <2>3, <4>2, <4>3
      <3> QED
        BY <1>1, <3>1 DEF InOrder, Streams
    <2>7. ASSUME NEW d \in Candidates, phase'[Client(d)] = "new" PROVE at'[d] = "unsent"
      <3>1. d # c /\ d # next /\ phase[Client(d)] = "new"
        BY <1>1, <1>3, <2>1, <2>7 DEF h
      <3> QED
        BY <2>3, <3>1 DEF ServerInv, HandlerInv
    <2>8. inflight' = Cardinality(Handling')
      BY <1>3 DEF ServerInv, HandlerInv, Handling
    <2>9. HandlerInv'
      BY <1>1, <1>3, <2>5, <2>6, <2>7, <2>8 DEF ServerInv, HandlerInv
    <2> QED
      BY <1>1, <2>4, <2>9, HandlerKeepsAll
  <1>4. CASE receipt[c] = "admitted" /\ at' = [at EXCEPT ![c] = "listening"]
             /\ phase' = [phase EXCEPT ![h] = "streaming"] /\ inflight' = inflight - 1
    <2>1. AllMoved
      BY <1>1, <1>4 DEF AllMoved, Moved, ServerInv, HandlerInv
    <2>2. phase' \in [Clients -> Phases] /\ at' \in [Candidates -> Stages]
      BY <1>1, <1>4 DEF ServerInv, HandlerInv, Phases, Stages
    <2>3. inflight' = Cardinality(Handling')
      BY <1>1, <1>4, HandlingEnds DEF ServerInv, Phases
    <2>4. \A d \in Candidates : 
             /\ at'[d] \in {"unsent", "sending", "awaiting"} => at'[d] = at[d]
             /\ at[d] = "unsent" => at'[d] = "unsent"
      BY <1>1, <1>4 DEF ServerInv, HandlerInv
    <2>5. InOrder'
      <3>1. ASSUME NEW a \in Candidates, NEW d \in Candidates,
                   Streams(Client(a)), Client(d) = Client(a), d[2] = a[2] + 1,
                   at'[a] \in {"unsent", "sending", "awaiting"}
            PROVE  at'[d] = "unsent"
        <4>1. at[a] \in {"unsent", "sending", "awaiting"}
          BY <2>4, <3>1
        <4> QED
          BY <2>4, <3>1, <4>1 DEF ServerInv, HandlerInv, InOrder
      <3> QED
        BY <1>1, <3>1 DEF InOrder, Streams
    <2>6. ASSUME NEW d \in Candidates, phase'[Client(d)] = "new" PROVE at'[d] = "unsent"
      <3>1. phase[Client(d)] = "new"
        BY <1>4, <2>6, CandidateFacts DEF ServerInv, HandlerInv
      <3> QED
        BY <2>4, <3>1 DEF ServerInv, HandlerInv
    <2>7. HandlerInv'
      BY <1>1, <2>2, <2>3, <2>5, <2>6 DEF ServerInv, HandlerInv
    <2> QED
      BY <1>1, <2>1, <2>7, HandlerKeepsAll
  <1>5. CASE receipt[c] = "admitted" /\ at' = [at EXCEPT ![c] = "listening"]
             /\ UNCHANGED <<phase, inflight>>
    <2>1. HandlerInv'
      BY <1>1, <1>5, OnwardKeepsHandlers DEF ServerInv
    <2>2. AllMoved
      BY <1>1, <1>5 DEF AllMoved, Moved, ServerInv, HandlerInv
    <2> QED
      BY <1>1, <2>1, <2>2, HandlerKeepsAll
  <1> QED
    BY <1>2, <1>3, <1>4, <1>5 DEF TakeReceipt

LEMMA LastOfTail ==
    ASSUME NEW S, NEW s \in Seq(S), s # <<>>, Tail(s) # <<>>
    PROVE  Tail(s)[Len(Tail(s))] = s[Len(s)]
  <1>1. /\ Tail(s) \in Seq(S) /\ Len(Tail(s)) = Len(s) - 1
        /\ \A i \in 1 .. Len(Tail(s)) : Tail(s)[i] = s[i + 1]
    BY HeadTailProperties
  <1>2. Len(Tail(s)) \in Nat \ {0} /\ Len(s) \in Nat
    BY <1>1, EmptySeq, LenProperties
  <1> DEFINE k == Len(Tail(s))
  <1>3. k \in 1 .. k /\ k + 1 = Len(s)
    BY <1>1, <1>2
  <1>4. Tail(s)[k] = s[k + 1]
    BY <1>1, <1>3
  <1> HIDE DEF k
  <1>5. Tail(s)[k] = s[Len(s)]
    BY <1>3, <1>4
  <1> QED
    BY <1>5 DEF k

LEMMA EmptyTail ==
    ASSUME NEW S, NEW s \in Seq(S), s # <<>>, Tail(s) = <<>>
    PROVE  s[Len(s)] = Head(s)
  <1>1. Len(Tail(s)) = Len(s) - 1 /\ Len(s) \in Nat /\ Len(Tail(s)) = 0
    BY HeadTailProperties, LenProperties, EmptySeq
  <1>2. Len(s) = 1
    BY <1>1
  <1> QED
    BY <1>2

\* The next event: what is told last is taken last.
LEMMA TakeStep ==
    ASSUME ServerInv, NEW c \in Candidates, Take(c)
    PROVE  ServerInv'
  <1>1. /\ at[c] = "listening" /\ channel[c] # <<>>
        /\ channel' = [channel EXCEPT ![c] = Tail(channel[c])]
        /\ at' = IF Head(channel[c]) = "chunk" THEN at
                 ELSE [at EXCEPT ![c] = Head(channel[c])]
        /\ UNCHANGED <<body, phase, closing, inflight, errors, queue>> /\ UNCHANGED engineLoopVars
    BY DEF Take, engineLoopVars
  <1>2. /\ channel \in [Candidates -> Seq(Events)] /\ channel[c] \in Seq(Events)
        /\ at \in [Candidates -> Stages]
    BY DEF ServerInv, ChannelInv, HandlerInv
  <1>3. /\ Head(channel[c]) \in Events /\ Tail(channel[c]) \in Seq(Events)
        /\ Len(Tail(channel[c])) = Len(channel[c]) - 1
        /\ \A i \in 1 .. Len(Tail(channel[c])) : Tail(channel[c])[i] = channel[c][i + 1]
    BY <1>1, <1>2, HeadTailProperties
  <1>4. channel' \in [Candidates -> Seq(Events)]
    BY <1>1, <1>2, <1>3
  <1>5. CASE Head(channel[c]) = "chunk"
    <2>1. HandlerInv'
      BY <1>1, <1>5 DEF ServerInv, HandlerInv, InOrder, Streams, Handling
    <2>2. AllMoved
      BY <1>1, <1>5, StayedMoved
    <2>3. Told(c) => Told(c)'
      <3>1. SUFFICES ASSUME Told(c) PROVE Told(c)'
        OBVIOUS
      <3>2. channel'[c] = Tail(channel[c])
        BY <1>1, <1>2
      <3>3. Tail(channel[c]) # <<>>
        BY <1>1, <1>2, <1>5, <3>1, EmptyTail DEF Told
      <3>4. Tail(channel[c])[Len(Tail(channel[c]))] = channel[c][Len(channel[c])]
        BY <1>1, <1>2, <3>3, LastOfTail
      <3> QED
        BY <3>1, <3>2, <3>3, <3>4 DEF Told
    <2>4. \A d \in Candidates : Told(d) => Told(d)'
      BY <1>1, <1>2, <2>3 DEF Told
    <2>5. ChannelInv'
      BY <1>1, <1>4, <1>5, <2>4 DEF ServerInv, ChannelInv, engineLoopVars
    <2> QED
      BY <1>1, <2>1, <2>2, <2>5, HandlerKeepsReceipts, HandlerKeepsQueue, HandlerKeepsEngine
      DEF ServerInv, engineLoopVars
  <1>6. CASE Head(channel[c]) # "chunk"
    <2>1. Head(channel[c]) \in {"ok", "failed"}
      BY <1>3, <1>6 DEF Events
    <2>2. HandlerInv'
      BY <1>1, <1>6, <2>1, OnwardKeepsHandlers DEF ServerInv
    <2>3. AllMoved
      BY <1>1, <1>2, <1>6, <2>1 DEF AllMoved, Moved
    <2>4. \A d \in Candidates :
             IF d = c THEN at'[d] \notin {"awaiting", "listening"}
             ELSE at'[d] = at[d] /\ channel'[d] = channel[d]
      BY <1>1, <1>2, <1>6, <2>1
    <2>5. ChannelInv'
      BY <1>1, <1>4, <2>4 DEF ServerInv, ChannelInv, engineLoopVars, Told
    <2> QED
      BY <1>1, <2>2, <2>3, <2>5, HandlerKeepsReceipts, HandlerKeepsQueue, HandlerKeepsEngine
      DEF ServerInv, engineLoopVars
  <1> QED
    BY <1>5, <1>6

LEMMA HandleStep ==
    ASSUME ServerInv, NEW h \in Clients, Handle(h)
    PROVE  ServerInv'
  <1>1. CASE Answer(h) \/ Refuse(h) \/ Break(h)
    BY <1>1, EndingSteps
  <1>2. CASE \E c \in Of(h) : Enqueue(c) \/ TakeReceipt(c) \/ Consume(c) \/ Drop(c)
    <2>1. PICK c \in Of(h) : Enqueue(c) \/ TakeReceipt(c) \/ Consume(c) \/ Drop(c)
      BY <1>2
    <2>2. c \in Candidates
      BY CandidateFacts
    <2>3. Consume(c) => Take(c)
      BY DEF Consume, ConsumeGenerated, ConsumeStreamed, ConsumeMerged
    <2> QED
      BY <2>1, <2>2, <2>3, EnqueueStep, TakeReceiptStep, TakeStep, DropStep
  <1> QED
    BY <1>1, <1>2 DEF Handle

-----------------------------------------------------------------------------
(* The steps of the engine loop                                            *)

LEMMA LoopKeepsHandlers ==
    ASSUME HandlerInv, UNCHANGED <<body, handlerVars>>
    PROVE  HandlerInv'
  BY DEF handlerVars, HandlerInv, InOrder, Streams, Handling

\* A step of the engine loop that admits nothing.
LEMMA LoopKeepsAll ==
    ASSUME ServerInv, UNCHANGED <<body, handlerVars>>, queue' = queue, receipt' = receipt,
           EngineInv', ChannelInv'
    PROVE  ServerInv'
  <1>1. HandlerInv'
    BY LoopKeepsHandlers DEF ServerInv
  <1>2. ReceiptInv' /\ QueueInv'
    BY DEF ServerInv, ReceiptInv, QueueInv, handlerVars
  <1> QED
    BY <1>1, <1>2 DEF ServerInv

\* What was told stays told when no event follows.
LEMMA QuietKeepsChannels ==
    ASSUME ChannelInv, receipt' = receipt, at' = at, channel' = channel, waiters' = waiters
    PROVE  ChannelInv'
  BY DEF ChannelInv, Told

\* What the dispatch of results does for the channels.
LEMMA DispatchedFacts ==
    ASSUME ChannelInv, at \in [Candidates -> Stages], NEW result,
           receipt' = receipt, at' = at, channel' = Dispatched(result),
           waiters' = waiters \ DOMAIN result
    PROVE  ChannelInv'
  <1>1. channel' = [c \in Candidates |->
                       IF c \in waiters \cap DOMAIN result /\ Listening(c)
                       THEN Append(channel[c], IF result[c] THEN "ok" ELSE "failed")
                       ELSE channel[c]]
    BY DEF Dispatched
  <1>2. ASSUME NEW c \in Candidates
        PROVE  /\ channel'[c] \in Seq(Events)
               /\ receipt'[c] = "admitted" /\ at'[c] \in {"awaiting", "listening"}
                      => c \in waiters' \/ Told(c)'
    <2>1. channel[c] \in Seq(Events)
      BY DEF ChannelInv
    <2>2. CASE c \in waiters \cap DOMAIN result /\ Listening(c)
      <3> DEFINE e == IF result[c] THEN "ok" ELSE "failed"
      <3>1. e \in {"ok", "failed"} /\ e \in Events
        BY DEF Events
      <3>2. channel'[c] = Append(channel[c], e)
        BY <1>1, <2>2
      <3> HIDE DEF e
      <3>3. /\ Append(channel[c], e) \in Seq(Events)
            /\ Len(Append(channel[c], e)) = Len(channel[c]) + 1 /\ Len(channel[c]) \in Nat
            /\ Append(channel[c], e)[Len(channel[c]) + 1] = e
        BY <2>1, <3>1, AppendProperties, LenProperties
      <3>4. Append(channel[c], e) # <<>>
        BY <3>3, EmptySeq
      <3>5. Told(c)'
        BY <3>1, <3>2, <3>3, <3>4 DEF Told
      <3> QED
        BY <3>2, <3>3, <3>5
    <2>3. CASE ~(c \in waiters \cap DOMAIN result /\ Listening(c))
      <3>1. channel'[c] = channel[c]
        BY <1>1, <2>3
      <3> QED
        BY <2>1, <2>3, <3>1 DEF ChannelInv, Listening, Told
    <2> QED
      BY <2>2, <2>3
  <1>3. channel' \in [Candidates -> Seq(Events)]
    BY <1>1, <1>2
  <1> QED
    BY <1>2, <1>3 DEF ChannelInv

LEMMA ReceiveStep ==
    ASSUME ServerInv, loop \in {"top", "draining"}, Receive
    PROVE  ServerInv'
  <1> DEFINE c == Head(queue)
  <1>1. PICK accepted \in BOOLEAN : Admit(c, accepted)
    BY DEF Receive
  <1>2. /\ queue # <<>> /\ queue' = Tail(queue) /\ loop' = "draining"
        /\ UNCHANGED <<body, handlerVars>> /\ UNCHANGED passVars
        /\ UNCHANGED <<channel, running, undrained, tokens, deaf>>
    BY DEF Receive
  <1>3. /\ queue \in Seq(Candidates) /\ Len(queue) \in Nat \ {0} /\ Len(queue) <= Capacity
        /\ c = queue[1] /\ c \in Candidates
        /\ Tail(queue) \in Seq(Candidates) /\ Len(Tail(queue)) = Len(queue) - 1
        /\ \A i \in 1 .. Len(Tail(queue)) : Tail(queue)[i] = queue[i + 1]
    BY <1>2, EmptySeq, HeadTailProperties DEF ServerInv, QueueInv
  <1> HIDE DEF c
  <1>4. receipt[c] = "none" /\ at[c] \notin {"unsent", "sending", "listening"}
    BY <1>3 DEF ServerInv, QueueInv, ReceiptInv
  <1>5. /\ receipt' = [receipt EXCEPT ![c] = IF accepted THEN "admitted" ELSE "refused"]
        /\ waiting' = IF accepted THEN waiting \cup {c} ELSE waiting
        /\ waiters' = IF accepted THEN waiters \cup {c} ELSE waiters
    BY <1>1 DEF Admit
  <1>6. at' = at
    BY <1>2 DEF handlerVars
  <1>7. HandlerInv'
    BY <1>2, LoopKeepsHandlers DEF ServerInv
  <1>8. /\ receipt' \in [Candidates -> {"none", "admitted", "refused"}]
        /\ \A d \in Candidates : d # c => receipt'[d] = receipt[d]
        /\ receipt'[c] = IF accepted THEN "admitted" ELSE "refused"
    BY <1>3, <1>5 DEF ServerInv, ReceiptInv
  <1>9. ReceiptInv'
    BY <1>4, <1>6, <1>8 DEF ServerInv, ReceiptInv
  <1>10. QueueInv'
    <2>1. ASSUME NEW i \in 1 .. Len(queue')
          PROVE  i + 1 \in 1 .. Len(queue) /\ queue'[i] = queue[i + 1] /\ queue[i + 1] # c
      <3>1. i + 1 \in 1 .. Len(queue) /\ i + 1 # 1 /\ 1 \in 1 .. Len(queue)
        BY <1>2, <1>3
      <3> QED
        BY <1>2, <1>3, <3>1 DEF ServerInv, QueueInv
    <2>2. ASSUME NEW i \in 1 .. Len(queue')
          PROVE  receipt'[queue'[i]] = "none" /\ at'[queue'[i]] \notin {"unsent", "sending"}
      <3>1. queue[i + 1] \in Candidates /\ receipt[queue[i + 1]] = "none"
            /\ at[queue[i + 1]] \notin {"unsent", "sending"}
        BY <1>3, <2>1 DEF ServerInv, QueueInv
      <3> QED
        BY <1>6, <1>8, <2>1, <3>1
    <2>3. ASSUME NEW i \in 1 .. Len(queue'), NEW j \in 1 .. Len(queue'), queue'[i] = queue'[j]
          PROVE  i = j
      <3>1. i + 1 = j + 1
        BY <2>1, <2>3 DEF ServerInv, QueueInv
      <3> QED
        BY <3>1
    <2>4. queue' \in Seq(Candidates) /\ Len(queue') <= Capacity
      BY <1>2, <1>3, ServerAssumption
    <2> QED
      BY <2>2, <2>3, <2>4 DEF QueueInv
  <1>11. /\ c \notin waiters \cup Engaged \cup undrained /\ tokens[c] = 0 /\ deaf[c] = 0
         /\ waiters = Engaged /\ DOMAIN completed = {} /\ disconnected = {}
    BY <1>3, <1>4 DEF ServerInv, EngineInv, WaitersInv, TraceInv
  <1>12. Engaged' = IF accepted THEN Engaged \cup {c} ELSE Engaged
    BY <1>2, <1>5 DEF Engaged
  <1>13. EngineType'
    BY <1>2, <1>3, <1>5 DEF ServerInv, EngineInv, EngineType, passVars, Loops
  <1>14. WaitersInv'
    BY <1>2, <1>5, <1>11, <1>12 DEF ServerInv, EngineInv, WaitersInv, passVars, Engaged
  <1>15. TraceInv'
    <2>1. \A d \in Candidates : receipt'[d] # "admitted" =>
             /\ d \notin waiters' \cup Engaged' \cup undrained' \cup (DOMAIN completed)'
             /\ tokens'[d] = 0 /\ deaf'[d] = 0
      BY <1>2, <1>5, <1>8, <1>11, <1>12 DEF ServerInv, EngineInv, TraceInv, passVars
    <2>2. \A d \in Engaged' : tokens'[d] < MaxTokens
      BY <1>2, <1>11, <1>12, ServerAssumption DEF ServerInv, EngineInv, TraceInv
    <2>3. disconnected' = {}
      BY <1>2, <1>11 DEF passVars
    <2>4. ASSUME NEW d \in Candidates
          PROVE  /\ deaf'[d] <= tokens'[d]
                 /\ ~Buffered => /\ deaf'[d] <= 1
                                 /\ deaf'[d] = 1 => d \notin Engaged' \/ d \in disconnected'
      BY <1>2, <1>11, <1>12 DEF ServerInv, EngineInv, TraceInv
    <2> QED
      BY <2>1, <2>2, <2>3, <2>4 DEF TraceInv
  <1>16. ChannelInv'
    BY <1>2, <1>4, <1>5, <1>6, <1>8 DEF ServerInv, ChannelInv, Told
  <1> QED
    BY <1>7, <1>9, <1>10, <1>13, <1>14, <1>15, <1>16 DEF ServerInv, EngineInv

LEMMA StartPassStep ==
    ASSUME ServerInv, StartPass
    PROVE  ServerInv'
  <1>1. /\ loop = "top" /\ loop' = "draining" /\ UNCHANGED <<body, handlerVars>>
        /\ UNCHANGED <<queue, receipt, channel, waiters, engineVars, passVars>>
    BY DEF StartPass
  <1>2. EngineInv'
    BY <1>1 DEF ServerInv, EngineInv, EngineType, WaitersInv, TraceInv, Engaged, Loops, engineVars,
                passVars, handlerVars, Listening
  <1>3. ChannelInv'
    BY <1>1, QuietKeepsChannels DEF ServerInv, handlerVars
  <1> QED
    BY <1>1, <1>2, <1>3, LoopKeepsAll

LEMMA StopStep ==
    ASSUME ServerInv, Stop
    PROVE  ServerInv'
  <1>1. /\ loop = "top" /\ loop' = "stopped" /\ UNCHANGED <<body, handlerVars>>
        /\ Engaged = {} /\ waiters' = {}
        /\ UNCHANGED <<queue, receipt, channel, engineVars, passVars>>
    BY DEF Stop, HasPendingWork, Engaged
  <1>2. waiters' = waiters
    BY <1>1 DEF ServerInv, EngineInv, WaitersInv
  <1>3. EngineInv'
    BY <1>1, <1>2 DEF ServerInv, EngineInv, EngineType, WaitersInv, TraceInv, Engaged, Loops,
                      engineVars, passVars, handlerVars, Listening
  <1>4. ChannelInv'
    BY <1>1, <1>2, QuietKeepsChannels DEF ServerInv, handlerVars
  <1> QED
    BY <1>1, <1>3, <1>4, LoopKeepsAll

LEMMA StepStep ==
    ASSUME ServerInv, NEW started \in SUBSET waiting, NEW rejected \in SUBSET (waiting \ started),
           Step(started, rejected)
    PROVE  ServerInv'
  <1> DEFINE batch == running \cup started
  <1>1. PICK fate \in [batch -> {"ok", "okChunk", "failed", "silent", "chunk"}] :
        /\ \A c \in batch : fate[c] \in Fates(tokens[c] + 1)
        /\ LET ended == {c \in batch : fate[c] \in {"ok", "okChunk", "failed"}}
               spoken == {c \in batch : fate[c] \in {"chunk", "okChunk"}}
               sent == {c \in spoken \cap waiters : Listening(c)}
           IN  /\ waiting' = waiting \ (started \cup rejected)
               /\ running' = batch \ ended
               /\ undrained' = {}
               /\ tokens' = [c \in Candidates |-> IF c \in batch THEN tokens[c] + 1 ELSE tokens[c]]
               /\ deaf' = [c \in Candidates |->
                              IF c \in (IF Buffered THEN batch ELSE spoken) /\ ~Listening(c)
                              THEN deaf[c] + 1 ELSE deaf[c]]
               /\ channel' = [c \in Candidates |->
                                 IF c \in sent THEN Append(channel[c], "chunk") ELSE channel[c]]
               /\ disconnected' = (spoken \cap waiters) \ sent
               /\ completed' = [c \in ended \cup rejected \cup undrained |->
                                   c \in ended /\ fate[c] # "failed"]
               /\ progressed' = (spoken # {} \/ DOMAIN completed' # {})
    BY DEF Step
  <1> DEFINE ended == {c \in batch : fate[c] \in {"ok", "okChunk", "failed"}}
             spoken == {c \in batch : fate[c] \in {"chunk", "okChunk"}}
             sent == {c \in spoken \cap waiters : Listening(c)}
  <1>2. /\ waiting' = waiting \ (started \cup rejected)
        /\ running' = batch \ ended
        /\ undrained' = {}
        /\ tokens' = [c \in Candidates |-> IF c \in batch THEN tokens[c] + 1 ELSE tokens[c]]
        /\ deaf' = [c \in Candidates |->
                       IF c \in (IF Buffered THEN batch ELSE spoken) /\ ~Listening(c)
                       THEN deaf[c] + 1 ELSE deaf[c]]
        /\ channel' = [c \in Candidates |->
                          IF c \in sent THEN Append(channel[c], "chunk") ELSE channel[c]]
        /\ disconnected' = (spoken \cap waiters) \ sent
        /\ DOMAIN completed' = ended \cup rejected \cup undrained
        /\ progressed' \in BOOLEAN
    BY <1>1
  <1>3. /\ loop = "draining" /\ loop' = "cancelling" /\ at' = at
        /\ UNCHANGED <<body, handlerVars>>
        /\ UNCHANGED <<queue, receipt, waiters, idleSteps, snapshot>>
    BY DEF Step, handlerVars
  <1>4. /\ waiters = Engaged /\ DOMAIN completed = {} /\ disconnected = {}
        /\ waiting \cap running = {} /\ undrained \cap Engaged = {}
        /\ waiting \subseteq Candidates /\ running \subseteq Candidates
        /\ undrained \subseteq Candidates
        /\ tokens \in [Candidates -> 0 .. MaxTokens] /\ deaf \in [Candidates -> 0 .. MaxTokens]
    BY <1>3 DEF ServerInv, EngineInv, EngineType, WaitersInv
  <1>5. /\ batch \subseteq Engaged /\ ended \subseteq batch /\ spoken \subseteq batch
        /\ batch \subseteq Candidates
    BY <1>4 DEF Engaged
  <1>6. /\ Engaged' = (waiting \ (started \cup rejected)) \cup (batch \ ended)
        /\ Engaged' \subseteq Engaged
    BY <1>2, <1>4 DEF Engaged
  <1>7. \A c \in batch : tokens[c] \in Nat /\ tokens[c] + 1 \in 0 .. MaxTokens
    BY <1>4, <1>5, ServerAssumption DEF ServerInv, EngineInv, TraceInv
  <1>8. \A c \in batch \ ended : tokens[c] + 1 < MaxTokens
    <2>1. SUFFICES ASSUME NEW c \in batch, c \notin ended PROVE tokens[c] + 1 < MaxTokens
      OBVIOUS
    <2>2. fate[c] \in Fates(tokens[c] + 1) /\ fate[c] \notin {"ok", "okChunk", "failed"}
      BY <1>1, <2>1
    <2>3. ~(tokens[c] + 1 >= MaxTokens)
      BY <2>2 DEF Fates
    <2> QED
      BY <1>7, <2>3, ServerAssumption
  <1>9. \A c \in Candidates : tokens'[c] = IF c \in batch THEN tokens[c] + 1 ELSE tokens[c]
    BY <1>2
  <1>10. \A c \in Candidates :
            deaf'[c] = IF c \in (IF Buffered THEN batch ELSE spoken) /\ ~Listening(c)
                       THEN deaf[c] + 1 ELSE deaf[c]
    BY <1>2
  <1>11. \A c \in Candidates :
            channel'[c] = IF c \in sent THEN Append(channel[c], "chunk") ELSE channel[c]
    BY <1>2
  <1>12. \A c \in disconnected' : c \in spoken /\ ~Listening(c)
    BY <1>2
  <1>13. \A c \in spoken : Listening(c) \/ c \in disconnected'
    BY <1>2, <1>4, <1>5
  <1>14. disconnected' \subseteq spoken
    BY <1>2
  <1>15. waiting \ (started \cup rejected) \subseteq Engaged \ batch
    BY <1>4 DEF Engaged
  <1>16. /\ DOMAIN completed' \subseteq Candidates /\ DOMAIN completed' \cap Engaged' = {}
         /\ Engaged \subseteq Engaged' \cup DOMAIN completed'
         /\ waiting' \cap running' = {}
         /\ DOMAIN completed' \subseteq Engaged \cup undrained
    BY <1>2, <1>4, <1>5 DEF Engaged
  <1>17. tokens' \in [Candidates -> 0 .. MaxTokens]
    BY <1>2, <1>4, <1>7
  <1>18. ASSUME NEW c \in Candidates
         PROVE  /\ deaf'[c] \in Nat /\ deaf'[c] <= tokens'[c]
                /\ ~Buffered => /\ deaf'[c] <= 1
                                /\ deaf'[c] = 1 => c \notin Engaged' \/ c \in disconnected'
    <2>1. deaf[c] \in Nat /\ tokens[c] \in Nat /\ deaf[c] <= tokens[c]
      BY <1>4, ServerAssumption DEF ServerInv, EngineInv, TraceInv
    <2>2. ~Buffered => deaf[c] <= 1 /\ (deaf[c] = 1 => c \notin Engaged)
      BY <1>4 DEF ServerInv, EngineInv, TraceInv
    <2>3. CASE c \in (IF Buffered THEN batch ELSE spoken) /\ ~Listening(c)
      <3>1. c \in batch /\ c \in Engaged /\ deaf'[c] = deaf[c] + 1 /\ tokens'[c] = tokens[c] + 1
        BY <1>5, <1>9, <1>10, <2>3
      <3>2. ~Buffered => deaf[c] = 0 /\ c \in disconnected'
        BY <1>13, <2>1, <2>2, <2>3, <3>1
      <3> QED
        BY <2>1, <3>1, <3>2
    <2>4. CASE ~(c \in (IF Buffered THEN batch ELSE spoken) /\ ~Listening(c))
      <3>1. deaf'[c] = deaf[c] /\ tokens'[c] \in {tokens[c], tokens[c] + 1}
        BY <1>9, <1>10, <2>4
      <3> QED
        BY <1>6, <2>1, <2>2, <3>1
    <2> QED
      BY <2>3, <2>4
  <1>19. \A c \in sent : c \in waiters /\ c \in Candidates
    BY <1>5
  <1> HIDE DEF batch, ended, spoken, sent
  <1>20. deaf' \in [Candidates -> 0 .. MaxTokens]
    <2>1. \A c \in Candidates : deaf'[c] \in 0 .. MaxTokens
      BY <1>17, <1>18, ServerAssumption
    <2> QED
      BY <1>2, <2>1
  <1>21. EngineType'
    BY <1>2, <1>3, <1>4, <1>5, <1>14, <1>16, <1>17, <1>20
    DEF ServerInv, EngineInv, EngineType, Loops, Engaged
  <1>22. WaitersInv'
    <2>1. undrained' \cap Engaged' = {} /\ disconnected' \subseteq waiters'
      BY <1>2, <1>3, <1>4, <1>5, <1>14
    <2> QED
      BY <1>3, <1>4, <1>6, <1>16, <2>1 DEF WaitersInv
  <1>23. TraceInv'
    <2>1. ASSUME NEW c \in Candidates, receipt'[c] # "admitted"
          PROVE  /\ c \notin waiters' \cup Engaged' \cup undrained' \cup DOMAIN completed'
                 /\ tokens'[c] = 0 /\ deaf'[c] = 0
      <3>1. /\ c \notin waiters \cup Engaged \cup undrained
            /\ tokens[c] = 0 /\ deaf[c] = 0
        BY <1>3, <2>1 DEF ServerInv, EngineInv, TraceInv
      <3>2. c \notin batch /\ c \notin spoken
        BY <1>5, <3>1
      <3> QED
        BY <1>2, <1>3, <1>6, <1>9, <1>10, <1>16, <3>1, <3>2
    <2>2. ASSUME NEW c \in Engaged' PROVE tokens'[c] < MaxTokens
      <3>1. CASE c \in batch \ ended
        BY <1>5, <1>8, <1>9, <3>1
      <3>2. CASE c \in waiting \ (started \cup rejected)
        <4>1. c \in Candidates /\ c \notin batch /\ tokens[c] < MaxTokens
          BY <1>4, <1>15, <3>2 DEF ServerInv, EngineInv, TraceInv
        <4> QED
          BY <1>9, <4>1
      <3> QED
        BY <1>6, <2>2, <3>1, <3>2
    <2>3. \A c \in disconnected' : ~Listening(c)'
      BY <1>3, <1>12 DEF Listening
    <2> QED
      BY <1>18, <2>1, <2>2, <2>3 DEF TraceInv
  <1>24. ChannelInv'
    <2>1. ASSUME NEW c \in Candidates PROVE channel'[c] \in Seq(Events)
      <3>1. channel[c] \in Seq(Events) /\ "chunk" \in Events
        BY DEF ServerInv, ChannelInv, Events
      <3>2. Append(channel[c], "chunk") \in Seq(Events)
        BY <3>1, AppendProperties
      <3> QED
        BY <1>11, <3>1, <3>2
    <2>2. channel' \in [Candidates -> Seq(Events)]
      BY <1>2, <2>1
    <2>3. ASSUME NEW c \in Candidates, receipt'[c] = "admitted",
                 at'[c] \in {"awaiting", "listening"}
          PROVE  c \in waiters' \/ Told(c)'
      BY <1>3, <1>11, <1>19, <2>3 DEF ServerInv, ChannelInv, Told
    <2> QED
      BY <2>2, <2>3 DEF ChannelInv
  <1> QED
    BY <1>3, <1>21, <1>22, <1>23, <1>24, LoopKeepsAll DEF EngineInv

LEMMA CancelStep ==
    ASSUME ServerInv, CancelDisconnected
    PROVE  ServerInv'
  <1>1. /\ loop = "cancelling" /\ loop' = "dispatching" /\ UNCHANGED <<body, handlerVars>>
        /\ waiters' = waiters \ disconnected
        /\ waiting' = waiting \ disconnected /\ running' = running \ disconnected
        /\ undrained' = undrained \cup (disconnected \cap (waiting \cup running))
        /\ disconnected' = {} /\ at' = at
        /\ UNCHANGED <<queue, receipt, channel, tokens, deaf, completed, progressed, idleSteps,
                       snapshot>>
    BY DEF CancelDisconnected, handlerVars
  <1>2. Engaged' = Engaged \ disconnected
    BY <1>1 DEF Engaged
  <1>3. EngineType'
    BY <1>1 DEF ServerInv, EngineInv, EngineType, Loops
  <1>4. WaitersInv'
    BY <1>1, <1>2 DEF ServerInv, EngineInv, WaitersInv, Engaged
  <1>5. TraceInv'
    <2>1. ASSUME NEW c \in Candidates, receipt'[c] # "admitted"
          PROVE  /\ c \notin waiters' \cup Engaged' \cup undrained' \cup DOMAIN completed'
                 /\ tokens'[c] = 0 /\ deaf'[c] = 0
      BY <1>1, <1>2, <2>1 DEF ServerInv, EngineInv, TraceInv, Engaged
    <2>2. \A c \in Engaged' : tokens'[c] < MaxTokens
      BY <1>1, <1>2 DEF ServerInv, EngineInv, TraceInv
    <2>3. ASSUME NEW c \in Candidates
          PROVE  /\ deaf'[c] <= tokens'[c]
                 /\ ~Buffered => /\ deaf'[c] <= 1
                                 /\ deaf'[c] = 1 => c \notin Engaged' \/ c \in disconnected'
      BY <1>1, <1>2 DEF ServerInv, EngineInv, TraceInv
    <2> QED
      BY <1>1, <2>1, <2>2, <2>3 DEF TraceInv
  <1>6. ASSUME NEW c \in Candidates, receipt[c] = "admitted", at[c] \in {"awaiting", "listening"}
        PROVE  c \in waiters \ disconnected \/ Told(c)
    <2>1. c \notin disconnected
      BY <1>6 DEF ServerInv, EngineInv, TraceInv, Listening
    <2> QED
      BY <1>6, <2>1 DEF ServerInv, ChannelInv
  <1>7. ChannelInv'
    BY <1>1, <1>6 DEF ServerInv, ChannelInv, Told
  <1> QED
    BY <1>1, <1>3, <1>4, <1>5, <1>7, LoopKeepsAll DEF EngineInv

LEMMA DispatchStep ==
    ASSUME ServerInv, Dispatch
    PROVE  ServerInv'
  <1>1. /\ loop = "dispatching" /\ loop' = "counting" /\ UNCHANGED <<body, handlerVars>>
        /\ channel' = Dispatched(completed) /\ waiters' = waiters \ DOMAIN completed
        /\ completed' = NoResult /\ progressed' \in BOOLEAN /\ at' = at
        /\ UNCHANGED <<queue, receipt, engineVars, disconnected, idleSteps, snapshot>>
    BY DEF Dispatch, handlerVars
  <1>2. DOMAIN completed' = {} /\ Engaged' = Engaged /\ disconnected = {}
    BY <1>1 DEF NoResult, engineVars, Engaged, ServerInv, EngineInv, WaitersInv
  <1>3. EngineType'
    BY <1>1, <1>2 DEF ServerInv, EngineInv, EngineType, Loops, engineVars
  <1>4. WaitersInv'
    BY <1>1, <1>2 DEF ServerInv, EngineInv, WaitersInv, engineVars
  <1>5. TraceInv'
    BY <1>1, <1>2 DEF ServerInv, EngineInv, TraceInv, engineVars
  <1>6. ChannelInv'
    BY <1>1, DispatchedFacts DEF ServerInv, HandlerInv
  <1> QED
    BY <1>1, <1>3, <1>4, <1>5, <1>6, LoopKeepsAll DEF EngineInv

LEMMA RefreshFacts ==
    ASSUME ServerInv
    PROVE  Cardinality(running) \in Nat
  <1>1. IsFiniteSet(running)
    BY FiniteCandidates, FS_Subset DEF ServerInv, EngineInv, EngineType
  <1> QED
    BY <1>1, FS_CardinalityType

LEMMA CountIdleStep ==
    ASSUME ServerInv, CountIdle
    PROVE  ServerInv'
  <1>1. /\ loop = "counting" /\ loop' = "top" /\ UNCHANGED <<body, handlerVars>>
        /\ progressed \/ idleSteps + 1 < StallLimit
        /\ idleSteps' = IF progressed THEN 0 ELSE idleSteps + 1
        /\ snapshot' = Cardinality(running) /\ progressed' = FALSE
        /\ UNCHANGED <<queue, receipt, channel, waiters, engineVars, disconnected, completed>>
    BY DEF CountIdle, Refresh
  <1>2. idleSteps' \in 0 .. StallLimit - 1
    BY <1>1, ServerAssumption DEF ServerInv, EngineInv, EngineType
  <1>3. EngineType'
    BY <1>1, <1>2, RefreshFacts DEF ServerInv, EngineInv, EngineType, Loops, engineVars
  <1>4. WaitersInv' /\ TraceInv'
    BY <1>1 DEF ServerInv, EngineInv, WaitersInv, TraceInv, engineVars, handlerVars, Engaged,
                Listening
  <1>5. ChannelInv'
    BY <1>1, QuietKeepsChannels DEF ServerInv, handlerVars
  <1> QED
    BY <1>1, <1>3, <1>4, <1>5, LoopKeepsAll DEF EngineInv

LEMMA StallStep ==
    ASSUME ServerInv, Stall
    PROVE  ServerInv'
  <1> DEFINE stalled == [c \in waiting \cup undrained |-> FALSE]
  <1>1. /\ loop = "counting" /\ loop' = "top" /\ UNCHANGED <<body, handlerVars>>
        /\ channel' = Dispatched(stalled) /\ waiters' = waiters \ DOMAIN stalled
        /\ waiting' = {} /\ undrained' = {} /\ idleSteps' = 0
        /\ snapshot' = Cardinality(running) /\ progressed' = FALSE /\ at' = at
        /\ UNCHANGED <<queue, receipt, running, tokens, deaf, disconnected, completed>>
    BY DEF Stall, Refresh, handlerVars
  <1>2. DOMAIN stalled = waiting \cup undrained
    OBVIOUS
  <1> HIDE DEF stalled
  <1>3. /\ Engaged' = running /\ waiters = Engaged /\ disconnected = {} /\ DOMAIN completed = {}
        /\ waiting \cap running = {} /\ undrained \cap Engaged = {}
    BY <1>1 DEF Engaged, ServerInv, EngineInv, WaitersInv
  <1>4. waiters' = running
    BY <1>1, <1>2, <1>3 DEF Engaged
  <1>5. EngineType'
    <2>1. idleSteps' \in 0 .. StallLimit - 1
      BY <1>1, ServerAssumption
    <2> QED
      BY <1>1, <1>4, <2>1, RefreshFacts DEF ServerInv, EngineInv, EngineType, Loops
  <1>6. WaitersInv'
    BY <1>1, <1>3, <1>4 DEF WaitersInv
  <1>7. TraceInv'
    <2>1. ASSUME NEW c \in Candidates, receipt'[c] # "admitted"
          PROVE  /\ c \notin waiters' \cup Engaged' \cup undrained' \cup DOMAIN completed'
                 /\ tokens'[c] = 0 /\ deaf'[c] = 0
      BY <1>1, <1>3, <1>4, <2>1 DEF ServerInv, EngineInv, TraceInv, Engaged
    <2>2. \A c \in Engaged' : tokens'[c] < MaxTokens
      BY <1>1, <1>3 DEF ServerInv, EngineInv, TraceInv, Engaged
    <2>3. ASSUME NEW c \in Candidates
          PROVE  /\ deaf'[c] <= tokens'[c]
                 /\ ~Buffered => /\ deaf'[c] <= 1
                                 /\ deaf'[c] = 1 => c \notin Engaged' \/ c \in disconnected'
      BY <1>1, <1>3 DEF ServerInv, EngineInv, TraceInv, Engaged
    <2> QED
      BY <1>1, <1>3, <2>1, <2>2, <2>3 DEF TraceInv
  <1>8. ChannelInv'
    BY <1>1, DispatchedFacts DEF ServerInv, HandlerInv
  <1> QED
    BY <1>1, <1>5, <1>6, <1>7, <1>8, LoopKeepsAll DEF EngineInv

-----------------------------------------------------------------------------
(* The theorems                                                            *)

LEMMA InitInv ==
    ASSUME Init
    PROVE  ServerInv
  <1>1. HandlerInv
    <2>1. Handling = {}
      BY DEF Handling, Init
    <2>2. inflight = Cardinality(Handling)
      BY <2>1, FS_EmptySet DEF Init
    <2>3. phase \in [Clients -> Phases] /\ at \in [Candidates -> Stages]
      BY DEF Init, Phases, Stages
    <2>4. InOrder /\ \A c \in Candidates : at[c] = "unsent"
      BY DEF Init, InOrder
    <2> QED
      BY <2>2, <2>3, <2>4 DEF Init, HandlerInv
  <1>2. ReceiptInv
    BY DEF Init, ReceiptInv
  <1>3. QueueInv
    <2>1. queue \in Seq(Candidates) /\ Len(queue) = 0
      BY EmptySeq DEF Init
    <2> QED
      BY <2>1, ServerAssumption DEF QueueInv
  <1>4. DOMAIN completed = {} /\ Engaged = {}
    BY DEF Init, NoResult, Engaged
  <1>5. EngineType
    <2>1. 0 \in 0 .. MaxTokens /\ 0 \in 0 .. StallLimit - 1
      BY ServerAssumption
    <2> QED
      BY <1>4, <2>1 DEF Init, EngineType, Loops
  <1>6. WaitersInv
    BY <1>4 DEF Init, WaitersInv
  <1>7. TraceInv
    BY <1>4 DEF Init, TraceInv
  <1>8. ChannelInv
    <2>1. channel \in [Candidates -> Seq(Events)]
      BY EmptySeq DEF Init
    <2> QED
      BY <2>1 DEF Init, ChannelInv
  <1> QED
    BY <1>1, <1>2, <1>3, <1>5, <1>6, <1>7, <1>8 DEF ServerInv, EngineInv

LEMMA StutterStep ==
    ASSUME ServerInv, UNCHANGED vars
    PROVE  ServerInv'
  <1>1. /\ UNCHANGED <<body, handlerVars>> /\ UNCHANGED engineLoopVars
        /\ queue' = queue /\ channel' = channel /\ at' = at
    BY DEF vars, engineLoopVars, handlerVars
  <1>2. HandlerInv'
    BY <1>1, LoopKeepsHandlers DEF ServerInv
  <1> QED
    BY <1>1, <1>2, StayedMoved, HandlerKeepsAll

LEMMA NextStep ==
    ASSUME ServerInv, [Next]_vars
    PROVE  ServerInv'
  <1>1. CASE EngineLoop
    <2>1. CASE ReceiveIdle \/ TryReceive
      BY <2>1, ReceiveStep DEF ReceiveIdle, TryReceive
    <2>2. CASE StartPass
      BY <2>2, StartPassStep
    <2>3. CASE Stop
      BY <2>3, StopStep
    <2>4. CASE \E started \in SUBSET waiting : \E rejected \in SUBSET (waiting \ started) :
                  Step(started, rejected)
      BY <2>4, StepStep
    <2>5. CASE CancelDisconnected
      BY <2>5, CancelStep
    <2>6. CASE Dispatch
      BY <2>6, DispatchStep
    <2>7. CASE CountIdle
      BY <2>7, CountIdleStep
    <2>8. CASE Stall
      BY <2>8, StallStep
    <2> QED
      BY <1>1, <2>1, <2>2, <2>3, <2>4, <2>5, <2>6, <2>7, <2>8 DEF EngineLoop
  <1>2. CASE \E h \in Clients :
                Handle(h) \/ Arrive(h) \/ RejectBody(h) \/ RejectParams(h) \/ Leave(h)
    BY <1>2, HandleStep, ArriveStep, RejectBodyStep, RejectParamsStep, EndingSteps
  <1>3. CASE Close
    BY <1>3, CloseStep
  <1>4. CASE UNCHANGED vars
    BY <1>4, StutterStep
  <1> QED
    BY <1>1, <1>2, <1>3, <1>4 DEF Next

LEMMA ServerInvariant == Spec => []ServerInv
  BY InitInv, NextStep, PTL DEF Spec

\* The types of the handlers', the channels' and the engine loop's state, among
\* them the bound on the queue: it is never longer than its capacity; and the
\* gauge of requests in flight never falls below zero.
THEOREM ServerTypes == Spec => []TypeOK
  <1>1. ServerInv => TypeOK
    <2>1. SUFFICES ASSUME ServerInv PROVE TypeOK
      OBVIOUS
    <2>2. inflight \in Nat
      BY <2>1, HandlingFacts DEF ServerInv, HandlerInv
    <2> QED
      BY <2>1, <2>2 DEF ServerInv, HandlerInv, ReceiptInv, QueueInv, EngineInv, EngineType,
                        ChannelInv, TypeOK, Phases, Stages, Events, Loops
  <1> QED
    BY <1>1, ServerInvariant, PTL

\* Between passes the engine loop holds a sender for exactly the requests in
\* the engine, however they end: well, refused, cancelled or stalled.
THEOREM WaitersExact == Spec => []RoutesExact
  <1>1. ServerInv => RoutesExact
    BY DEF ServerInv, EngineInv, WaitersInv, RoutesExact, Engaged
  <1> QED
    BY <1>1, ServerInvariant, PTL

\* No handler sees its channel closed before the end of its request has arrived.
THEOREM EndsAreTold == Spec => []NeverCutOff
  <1>1. ServerInv => NeverCutOff
    BY DEF ServerInv, ReceiptInv, ChannelInv, Told, NeverCutOff
  <1> QED
    BY <1>1, ServerInvariant, PTL

\* A decoder that emits text at once lets the engine notice a client that has
\* left by the first chunk nobody takes: no request speaks twice to nobody.
THEOREM DirectStopsForTheDeaf ==
    ASSUME ~Buffered
    PROVE  Spec => []StopsForTheDeaf
  <1>1. ServerInv => StopsForTheDeaf
    BY DEF ServerInv, EngineInv, TraceInv, StopsForTheDeaf
  <1> QED
    BY <1>1, ServerInvariant, PTL

=============================================================================
