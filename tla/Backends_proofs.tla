---------------------------- MODULE Backends_proofs ----------------------------
(***************************************************************************)
(* Proofs about the backends under the real scheduler, for every           *)
(* configuration and every set of requests.  A backend hears of a sequence *)
(* from batches and from the drain only, so each invariant relates what it *)
(* has kept to what the scheduler has done since: the reference executor's *)
(* tables and blocks (FollowInv), whose values its blocks hold (CleanInv), *)
(* and the slots and capacities of the tiny-llm adapter (TinyInv,          *)
(* DrainedInv).  All need the soundness of the batches.                    *)
(***************************************************************************)
EXTENDS Backends, Scheduler_proofs

FollowInv ==
    /\ NothingLeaks
    /\ \A s \in DOMAIN tables \cap Active : Range(tables[s]) \subseteq Range(pageTables[s])

CpuInv == SoundInv /\ FollowInv

\* Until the drain nobody disappears: who leaves the active sequences is among
\* the completed, who joins them was waiting, and tables only grow.
Grows ==
    /\ Active \cup IdsOf(completed) \subseteq Active' \cup IdsOf(completed')
    /\ \A s \in Active' \ pending :
          s \in Active /\ Range(pageTables[s]) \subseteq Range(pageTables'[s])

-----------------------------------------------------------------------------
(* The scheduler between two drains                                        *)

LEMMA QuietGrows ==
    ASSUME UNCHANGED <<kvVars, prefill, decode>>, completed \subseteq completed'
    PROVE  Grows
  BY DEF Grows, kvVars, Active, IdsOf

LEMMA RetireGrows ==
    ASSUME Inv, NEW s \in Active, NEW outcome \in Outcomes, Retire(s, outcome)
    PROVE  Grows
  <1>1. Active' = Active \ {s} /\ \A t \in Active' : pageTables'[t] = pageTables[t]
    BY RetireCore DEF Inv
  <1>2. IdsOf(completed') = IdsOf(completed) \cup {s}
    BY IdsOfOne DEF Retire
  <1> QED
    BY <1>1, <1>2 DEF Grows

LEMMA FailSequenceGrows ==
    ASSUME Inv, NEW s, NEW outcome \in Outcomes, FailSequence(s, outcome)
    PROVE  Grows
  <1>1. CASE s \in Active /\ Retire(s, outcome)
    BY <1>1, RetireGrows
  <1>2. CASE s \in pending /\ Drop({s}, outcome)
    BY <1>2, QuietGrows DEF Drop
  <1>3. CASE s \notin Active \cup pending /\ UNCHANGED <<kvVars, requestVars>>
    BY <1>3, QuietGrows DEF requestVars
  <1> QED
    BY <1>1, <1>2, <1>3 DEF FailSequence

LEMMA DecodeGrowGrows ==
    ASSUME Inv, NEW s \in SeqIds, DecodeGrow(s)
    PROVE  Grows
  <1>1. s \in Active /\ Active' = Active /\ completed' = completed /\ AllocateBlock(s)
    BY DecodeAtFacts DEF DecodeGrow, Active
  <1>2. /\ Live = Active /\ pageTables \in [Live -> Seq(Blocks)]
        /\ freeList \in Seq(Blocks) /\ freeList # <<>>
    BY <1>1 DEF Inv, CoreInv, TablesMatchActive, KVInv, KVTypeOK, AllocateBlock, CanAllocate,
                NumFreeBlocks
  <1>3. ASSUME NEW t \in Active PROVE Range(pageTables[t]) \subseteq Range(pageTables'[t])
    <2>1. CASE t # s
      BY <1>1, <1>2, <2>1 DEF AllocateBlock
    <2>2. CASE t = s
      <3> DEFINE table == pageTables[s]
                 b == Head(freeList)
      <3>1. pageTables'[s] = Append(table, b)
        BY <1>1, <1>2 DEF AllocateBlock
      <3>2. table \in Seq(Blocks) /\ b \in Blocks
        BY <1>1, <1>2
      <3> HIDE DEF table, b
      <3>3. Range(table) \subseteq Range(Append(table, b))
        BY <3>2, AppendProperties DEF Range
      <3> QED
        BY <2>2, <3>1, <3>3 DEF table
    <2> QED
      BY <2>1, <2>2
  <1> QED
    BY <1>1, <1>3 DEF Grows

LEMMA StartPrefillGrows ==
    ASSUME Inv, NEW s \in SeqIds, StartPrefill(s)
    PROVE  Grows
  <1>1. s \in pending
    BY PendingAtFacts DEF StartPrefill
  <1>2. Active' = Active \cup {s} /\ completed' = completed
    BY <1>1, StartCore DEF Inv, StartPrefill
  <1>3. \A t \in Active : pageTables'[t] = pageTables[t]
    <2>1. Live = Active /\ s \notin Active
      BY <1>1 DEF Inv, CoreInv, TablesMatchActive, ExactlyOnePlace
    <2> QED
      BY <2>1 DEF StartPrefill, AllocateSequence, Live
  <1> QED
    BY <1>1, <1>2, <1>3 DEF Grows

\* A prefill that is resumed is never too large, so it stays.
LEMMA PassGrows ==
    ASSUME Inv, NEW s \in SeqIds,
           \/ BeginSchedule \/ EndDecode \/ EndPrefill \/ EndSchedule
           \/ DecodeInPlace(s) \/ ResumePrefill(s) \/ DeferPending(s) \/ RejectPending(s)
    PROVE  Grows
  <1>1. UNCHANGED <<kvVars, prefill, decode>> /\ completed \subseteq completed'
    <2>1. CASE ResumePrefill(s)
      <3>1. ~TooLarge(s)
        BY <2>1 DEF ResumePrefill, First, Inv, LoopInv, PrefillFits
      <3> QED
        BY <2>1, <3>1 DEF ResumePrefill, requestVars
    <2>2. CASE ~ResumePrefill(s)
      BY <2>2 DEF BeginSchedule, EndDecode, EndPrefill, EndSchedule, DecodeInPlace, DeferPending,
                  RejectPending, Drop, requestVars
    <2> QED
      BY <2>1, <2>2
  <1> QED
    BY <1>1, QuietGrows

LEMMA ScheduleGrows ==
    ASSUME Inv, Schedule
    PROVE  Grows
  <1>1. ASSUME NEW s \in SeqIds, DecodeOutOfBlocks(s) PROVE Grows
    BY <1>1, DecodeAtFacts, RetireGrows DEF DecodeOutOfBlocks, Outcomes
  <1>2. CASE BeginSchedule \/ EndDecode \/ EndPrefill \/ EndSchedule
    BY <1>2, QuietGrows DEF BeginSchedule, EndDecode, EndPrefill, EndSchedule, requestVars
  <1> QED
    BY <1>1, <1>2, DecodeGrowGrows, StartPrefillGrows, PassGrows DEF Schedule

LEMMA CompletionGrows ==
    ASSUME Inv, NEW s, FailNext(s) \/ CompleteNext(s) \/ CompleteByStopSequence(s)
    PROVE  Grows
  <1>1. CASE FailNext(s)
    BY <1>1, FailSequenceGrows DEF FailNext, Outcomes
  <1>2. CASE CompleteNext(s)
    BY <1>2, RetireGrows DEF CompleteNext, Inv, FinishInv, Outcomes
  <1>3. CASE CompleteByStopSequence(s)
    BY <1>3, RetireGrows DEF CompleteByStopSequence, Outcomes
  <1> QED
    BY <1>1, <1>2, <1>3

LEMMA SchedulerStepGrows ==
    ASSUME Inv, SchedulerStep
    PROVE  Grows
  <1>1. CASE EndUpdate
    BY <1>1, QuietGrows DEF EndUpdate, requestVars
  <1> QED
    BY <1>1, ScheduleGrows, CompletionGrows DEF SchedulerStep

LEMMA ClientCallGrows ==
    ASSUME Inv, ClientCall
    PROVE  Grows
  <1>1. ASSUME NEW r, AddRequest(r) PROVE Grows
    BY <1>1, QuietGrows DEF AddRequest
  <1>2. ASSUME NEW s, FailByRequestId(s) PROVE Grows
    BY <1>2, FailSequenceGrows, RetireGrows DEF FailByRequestId, Outcomes
  <1>3. CASE FailPendingRequests
    BY <1>3, QuietGrows DEF FailPendingRequests, Drop
  <1> QED
    BY <1>1, <1>2, <1>3 DEF ClientCall

\* The outputs move sequences from the prefills to the decodes.
LEMMA ExecutionGrows ==
    ASSUME Inv, NEW output, UpdateSequences(output) \/ ExecutionError
    PROVE  Grows
  <1>1. Active' = Active /\ UNCHANGED <<kvVars, completed>>
    BY DEF UpdateSequences, ExecutionError, requestVars, Active
  <1> QED
    BY <1>1 DEF Grows, kvVars

-----------------------------------------------------------------------------
(* The executor                                                            *)

\* A position of the context is in one of the blocks that hold the context.
LEMMA BlockOfPosition ==
    ASSUME NEW p \in Nat, NEW n \in Nat, p < n
    PROVE  p \div BlockSize + 1 \in 1 .. BlocksForTokens(n)
  <1> DEFINE q == p \div BlockSize
             m == n + BlockSize - 1
             k == m \div BlockSize
  <1>1. BlockSize \in Nat \ {0} /\ m \in Nat
    BY KVAssumption
  <1>2. q \in Nat /\ q * BlockSize <= p
    BY <1>1
  <1>3. k \in Nat /\ m < (k + 1) * BlockSize
    BY <1>1
  <1>4. (k + 1) * BlockSize = k * BlockSize + BlockSize
    BY <1>1, <1>3
  <1>5. q * BlockSize < k * BlockSize
    <2> DEFINE x == q * BlockSize
               y == k * BlockSize
    <2>1. x \in Nat /\ y \in Nat /\ x <= p /\ m < y + BlockSize /\ m = n + BlockSize - 1
      BY <1>1, <1>2, <1>3, <1>4
    <2> HIDE DEF x, y, m
    <2>2. x < y
      BY <1>1, <2>1
    <2> QED
      BY <2>2 DEF x, y
  <1> HIDE DEF q, k, m
  <1>6. q < k
    BY <1>1, <1>2, <1>3, <1>5
  <1>7. BlocksForTokens(n) = k
    BY DEF BlocksForTokens, k, m
  <1> QED
    BY <1>2, <1>3, <1>6, <1>7 DEF q

\* An entry writes to blocks of its sequence only.
LEMMA WritesToOwnBlocks ==
    ASSUME SoundInv, NEW e \in batch, Current(e)
    PROVE  WritesTo(e) \subseteq Range(pageTables[e.id])
  <1>1. /\ ContextLen(e.id) \in Nat \ {0} /\ pageTables[e.id] \in Seq(Blocks)
        /\ Len(pageTables[e.id]) \in Nat /\ Prompt(e.id) \in Nat /\ e.id \in SeqIds
        /\ e.id \in decode <=> e.id \notin prefill
    BY ActiveSizes DEF Current, SoundInv
  <1>2. /\ e.context = ContextLen(e.id) /\ e.blocks = pageTables[e.id]
        /\ Len(e.blocks) >= BlocksForTokens(e.context)
        /\ e.isPrefill <=> e.id \in prefill
    BY DEF Current
  <1>3. ASSUME NEW p \in Positions(e) PROVE p \in Nat /\ p < e.context
    <2>1. CASE e.isPrefill
      <3>1. generated[e.id] = 0
        BY <1>1, <1>2, <2>1 DEF SoundInv, SizeInv
      <3>2. e.context = Prompt(e.id)
        BY <1>1, <1>2, <3>1 DEF ContextLen
      <3> QED
        BY <1>1, <1>3, <2>1, <3>2 DEF Positions
    <2>2. CASE ~e.isPrefill
      BY <1>1, <1>2, <1>3, <2>2 DEF Positions
    <2> QED
      BY <2>1, <2>2
  <1>4. ASSUME NEW p \in Positions(e) PROVE BlockAt(e, p) \in Range(pageTables[e.id])
    <2> DEFINE i == p \div BlockSize + 1
               n == e.context
    <2>1. n \in Nat /\ i \in 1 .. BlocksForTokens(n) /\ BlocksForTokens(n) \in Nat
      BY <1>1, <1>2, <1>3, BlockOfPosition, OneMoreToken
    <2> HIDE DEF i
    <2>2. i \in 1 .. Len(pageTables[e.id])
      BY <1>1, <1>2, <2>1
    <2>3. i \in DOMAIN pageTables[e.id]
      BY <1>1, <2>2
    <2>4. BlockAt(e, p) = pageTables[e.id][i]
      BY <1>2 DEF BlockAt, i
    <2> QED
      BY <2>3, <2>4 DEF Range
  <1> QED
    BY <1>4 DEF WritesTo

\* The whole batch, or what of it an error has let through.
LEMMA RecordKeeps ==
    ASSUME CpuInv, pc = "executing", Grows, NEW entries, entries \subseteq batch,
           Write(entries), Record(entries)
    PROVE  FollowInv'
  <1> DEFINE ids == {e.id : e \in entries}
             written == UNION {WritesTo(e) : e \in entries}
  <1>1. ASSUME NEW e \in entries
        PROVE  Current(e) /\ WritesTo(e) \subseteq Range(pageTables[e.id])
    BY WritesToOwnBlocks DEF CpuInv, SoundInv, BatchInv, InPass
  <1>2. DOMAIN tables' = DOMAIN tables \cup ids /\ DOMAIN cache' = DOMAIN cache \cup written
    BY DEF Record, Write
  <1>3. ASSUME NEW s \in ids PROVE s \in Active /\ tables'[s] = pageTables[s]
    <2>1. PICK e \in entries : e.id = s
      OBVIOUS
    <2>2. s \in Active
      BY <1>1, <2>1 DEF Current
    <2> DEFINE f == CHOOSE f \in entries : f.id = s
    <2>3. f \in entries /\ f.id = s
      BY <2>1
    <2>4. tables'[s] = f.blocks
      BY DEF Record
    <2> HIDE DEF f
    <2>5. f.blocks = pageTables[s]
      BY <1>1, <2>3 DEF Current
    <2> QED
      BY <2>2, <2>4, <2>5
  <1>4. ASSUME NEW s \in DOMAIN tables \ ids PROVE tables'[s] = tables[s]
    BY DEF Record
  <1>5. ASSUME NEW s \in DOMAIN tables PROVE Range(tables[s]) \subseteq Range(tables'[s])
    BY <1>3, <1>4 DEF CpuInv, FollowInv
  <1>6. written \subseteq UNION {Range(tables'[s]) : s \in ids}
    <2>1. ASSUME NEW e \in entries
          PROVE  e.id \in ids /\ WritesTo(e) \subseteq Range(tables'[e.id])
      BY <1>1, <1>3
    <2> QED
      BY <2>1
  <1> HIDE DEF ids, written
  <1>7. DOMAIN tables' \subseteq Active \cup IdsOf(completed)
    BY <1>2, <1>3 DEF CpuInv, FollowInv, NothingLeaks
  <1>8. NothingLeaks'
    <2>1. DOMAIN tables' \subseteq Active' \cup IdsOf(completed')
      BY <1>7 DEF Grows
    <2>2. ASSUME NEW b \in DOMAIN cache' PROVE \E s \in DOMAIN tables' : b \in Range(tables'[s])
      <3>1. CASE b \in DOMAIN cache
        <4>1. PICK s \in DOMAIN tables : b \in Range(tables[s])
          BY <3>1 DEF CpuInv, FollowInv, NothingLeaks
        <4> QED
          BY <1>2, <1>5, <4>1
      <3>2. CASE b \in written
        BY <1>2, <1>6, <3>2
      <3> QED
        BY <1>2, <3>1, <3>2
    <2> QED
      BY <2>1, <2>2 DEF NothingLeaks
  <1>9. ASSUME NEW s \in DOMAIN tables' \cap Active'
        PROVE  Range(tables'[s]) \subseteq Range(pageTables'[s])
    <2>1. s \notin pending
      BY <1>7 DEF CpuInv, SoundInv, Inv, CoreInv, ExactlyOnePlace, Terminal, IdsOf
    <2>2. s \in Active /\ Range(pageTables[s]) \subseteq Range(pageTables'[s])
      BY <2>1 DEF Grows
    <2>3. Range(tables'[s]) \subseteq Range(pageTables[s])
      BY <1>2, <1>3, <1>4, <2>2 DEF CpuInv, FollowInv
    <2> QED
      BY <2>2, <2>3
  <1> QED
    BY <1>8, <1>9 DEF FollowInv

\* What the scheduler does while the executor sleeps.
LEMMA GrowsKeeps ==
    ASSUME CpuInv, Grows, UNCHANGED cpuVars
    PROVE  FollowInv'
  <1>1. NothingLeaks'
    BY DEF CpuInv, FollowInv, NothingLeaks, Grows, cpuVars
  <1>2. ASSUME NEW s \in DOMAIN tables \cap Active'
        PROVE  Range(tables[s]) \subseteq Range(pageTables'[s])
    <2>1. s \notin pending
      BY DEF CpuInv, FollowInv, NothingLeaks, SoundInv, Inv, CoreInv, ExactlyOnePlace, Terminal,
             IdsOf
    <2> QED
      BY <2>1 DEF CpuInv, FollowInv, Grows
  <1> QED
    BY <1>1, <1>2 DEF FollowInv, cpuVars

\* The drain takes the tables of the completed, and the blocks they name.
LEMMA DrainKeeps ==
    ASSUME CpuInv, CpuDrain
    PROVE  FollowInv'
  <1> DEFINE ids == IdsOf(completed)
             gone == UNION {Range(tables[s]) : s \in ids \cap DOMAIN tables}
  <1>1. Active' = Active /\ pageTables' = pageTables
    BY DEF CpuDrain, TakeCompleted, Active, kvVars
  <1>2. tables' = [s \in DOMAIN tables \ ids |-> tables[s]]
        /\ cache' = [b \in DOMAIN cache \ gone |-> cache[b]]
    BY DEF CpuDrain, CpuSequencesFinished, Restrict
  <1> HIDE DEF ids
  <1>3. DOMAIN tables' \subseteq Active'
    BY <1>1, <1>2 DEF CpuInv, FollowInv, NothingLeaks, ids
  <1>4. ASSUME NEW b \in DOMAIN cache' PROVE \E s \in DOMAIN tables' : b \in Range(tables'[s])
    <2>1. PICK s \in DOMAIN tables : b \in Range(tables[s])
      BY <1>2 DEF CpuInv, FollowInv, NothingLeaks
    <2>2. s \notin ids
      BY <1>2, <2>1
    <2> QED
      BY <1>2, <2>1, <2>2
  <1>5. \A s \in DOMAIN tables' \cap Active' : Range(tables'[s]) \subseteq Range(pageTables'[s])
    BY <1>1, <1>2 DEF CpuInv, FollowInv
  <1> QED
    BY <1>3, <1>4, <1>5 DEF FollowInv, NothingLeaks

-----------------------------------------------------------------------------
(* The theorem                                                             *)

LEMMA InitCpu == Init /\ CpuInit => CpuInv
  <1> SUFFICES ASSUME Init, CpuInit PROVE CpuInv
    OBVIOUS
  <1>1. DOMAIN cache = {} /\ DOMAIN tables = {}
    BY DEF CpuInit
  <1>2. FollowInv
    BY <1>1 DEF FollowInv, NothingLeaks
  <1> QED
    BY <1>2, InitSound DEF CpuInv

\* To the scheduler, the executor is an execution like any other.
LEMMA CpuNextIsNext == CpuNext => Next
  BY DEF CpuNext, SchedulerStep, ClientCall, CpuExecute, CpuExecuteFails, CpuDrain, Next, Step,
         Call, Update

LEMMA CpuStep ==
    ASSUME CpuInv, [CpuNext]_cpuSpecVars
    PROVE  CpuInv'
  <1>1. SoundInv'
    BY ExecutorAssumption, CpuNextIsNext, SoundStep DEF CpuInv, cpuSpecVars
  <1> SUFFICES FollowInv'
    BY <1>1 DEF CpuInv
  <1>2. Inv
    BY DEF CpuInv, SoundInv
  <1>3. CASE (SchedulerStep \/ ClientCall) /\ UNCHANGED cpuVars
    BY <1>2, <1>3, SchedulerStepGrows, ClientCallGrows, GrowsKeeps
  <1>4. CASE CpuExecute
    <2>1. pc = "executing"
      BY <1>4 DEF CpuExecute, UpdateSequences
    <2>2. Grows
      BY <1>2, <1>4, ExecutionGrows DEF CpuExecute
    <2> QED
      BY <1>4, <2>1, <2>2, RecordKeeps DEF CpuExecute
  <1>5. ASSUME NEW e \in batch, CpuExecuteFails(e) PROVE FollowInv'
    <2> DEFINE reached == {f \in batch : f.isPrefill \/ ~Before(e.id, f.id)}
    <2>1. pc = "executing" /\ Write(reached) /\ Record(reached) /\ ExecutionError
      BY <1>5 DEF CpuExecuteFails, ExecutionError
    <2>2. Grows
      BY <1>2, <2>1, ExecutionGrows
    <2> QED
      BY <2>1, <2>2, RecordKeeps
  <1>6. CASE CpuDrain
    BY <1>6, DrainKeeps
  <1>7. CASE UNCHANGED cpuSpecVars
    <2>1. Grows
      BY <1>7, QuietGrows DEF cpuSpecVars, vars, requestVars
    <2> QED
      BY <1>7, <2>1, GrowsKeeps DEF cpuSpecVars
  <1> QED
    BY <1>3, <1>4, <1>5, <1>6, <1>7 DEF CpuNext

\* The reference executor keeps a table only for a sequence that is active or
\* about to be drained, and a block only if such a table names it, however the
\* executions fail and the clients cancel.
THEOREM CpuLeaksNothing == CpuSpec => []NothingLeaks
  <1>1. CpuInv => NothingLeaks
    BY DEF CpuInv, FollowInv
  <1>2. CpuInv /\ [CpuNext]_cpuSpecVars => CpuInv'
    BY CpuStep
  <1> QED
    BY <1>1, <1>2, InitCpu, PTL DEF CpuSpec

-----------------------------------------------------------------------------
(* The sequences between two executions                                    *)

\* Between two executions a sequence stays as it is, but for new blocks.
Steady ==
    /\ decode' \subseteq decode
    /\ \A s \in Active' \ pending :
          /\ s \in Active /\ request'[s] = request[s] /\ generated'[s] = generated[s]
          /\ \A i \in 1 .. Len(pageTables[s]) : pageTables'[s][i] = pageTables[s][i]

LEMMA QuietSteady ==
    ASSUME UNCHANGED <<kvVars, prefill, decode, request, generated>>
    PROVE  Steady
  BY DEF Steady, kvVars, Active

LEMMA RetireSteady ==
    ASSUME Inv, NEW s \in Active, NEW outcome \in Outcomes, Retire(s, outcome)
    PROVE  Steady
  <1>1. /\ decode' = decode \ {s}
        /\ \A t \in Active' : t \in Active \ {s} /\ pageTables'[t] = pageTables[t]
    BY RetireCore DEF Inv
  <1>2. \A t \in Active' : request'[t] = request[t] /\ generated'[t] = generated[t]
    BY <1>1, PlacesTyped DEF Retire, Inv, CoreInv, CoreType
  <1> QED
    BY <1>1, <1>2 DEF Steady

LEMMA FailSequenceSteady ==
    ASSUME Inv, NEW s, NEW outcome \in Outcomes, FailSequence(s, outcome)
    PROVE  Steady
  <1>1. CASE s \in Active /\ Retire(s, outcome)
    BY <1>1, RetireSteady
  <1>2. CASE s \in pending /\ Drop({s}, outcome)
    BY <1>2, QuietSteady DEF Drop
  <1>3. CASE s \notin Active \cup pending /\ UNCHANGED <<kvVars, requestVars>>
    BY <1>3, QuietSteady DEF requestVars
  <1> QED
    BY <1>1, <1>2, <1>3 DEF FailSequence

LEMMA DecodeGrowSteady ==
    ASSUME Inv, NEW s \in SeqIds, DecodeGrow(s)
    PROVE  Steady
  <1>1. /\ s \in Active /\ AllocateBlock(s)
        /\ UNCHANGED <<prefill, decode, request, generated>>
    BY DecodeAtFacts DEF DecodeGrow, Active
  <1>2. /\ Live = Active /\ pageTables \in [Live -> Seq(Blocks)]
        /\ freeList \in Seq(Blocks) /\ freeList # <<>>
    BY <1>1 DEF Inv, CoreInv, TablesMatchActive, KVInv, KVTypeOK, AllocateBlock, CanAllocate,
                NumFreeBlocks
  <1>3. ASSUME NEW t \in Active, NEW i \in 1 .. Len(pageTables[t])
        PROVE  pageTables'[t][i] = pageTables[t][i]
    <2>1. CASE t # s
      BY <1>1, <1>2, <2>1 DEF AllocateBlock
    <2>2. CASE t = s
      <3> DEFINE table == pageTables[s]
                 b == Head(freeList)
      <3>1. pageTables'[s] = Append(table, b)
        BY <1>1, <1>2 DEF AllocateBlock
      <3>2. table \in Seq(Blocks) /\ b \in Blocks /\ i \in 1 .. Len(table)
        BY <1>1, <1>2, <2>2
      <3> HIDE DEF table, b
      <3>3. Append(table, b)[i] = table[i]
        BY <3>2, AppendProperties
      <3> QED
        BY <2>2, <3>1, <3>3 DEF table
    <2> QED
      BY <2>1, <2>2
  <1> QED
    BY <1>1, <1>3 DEF Steady, Active

LEMMA StartPrefillSteady ==
    ASSUME Inv, NEW s \in SeqIds, StartPrefill(s)
    PROVE  Steady
  <1>1. s \in pending /\ UNCHANGED <<decode, request, generated>>
    BY PendingAtFacts DEF StartPrefill
  <1>2. Active' = Active \cup {s}
    BY <1>1, StartCore DEF Inv, StartPrefill
  <1>3. \A t \in Active : pageTables'[t] = pageTables[t]
    <2>1. Live = Active /\ s \notin Active
      BY <1>1 DEF Inv, CoreInv, TablesMatchActive, ExactlyOnePlace
    <2> QED
      BY <2>1 DEF StartPrefill, AllocateSequence, Live
  <1> QED
    BY <1>1, <1>2, <1>3 DEF Steady

LEMMA ScheduleSteady ==
    ASSUME Inv, Schedule
    PROVE  Steady
  <1>1. ASSUME NEW s \in SeqIds, DecodeOutOfBlocks(s) PROVE Steady
    BY <1>1, DecodeAtFacts, RetireSteady DEF DecodeOutOfBlocks, Outcomes
  <1>2. CASE BeginSchedule \/ EndDecode \/ EndPrefill \/ EndSchedule
    BY <1>2, QuietSteady DEF BeginSchedule, EndDecode, EndPrefill, EndSchedule, requestVars
  <1>3. ASSUME NEW s \in SeqIds, ResumePrefill(s) PROVE Steady
    <2>1. ~TooLarge(s)
      BY <1>3 DEF ResumePrefill, First, Inv, LoopInv, PrefillFits
    <2> QED
      BY <1>3, <2>1, QuietSteady DEF ResumePrefill, requestVars
  <1>4. ASSUME NEW s \in SeqIds, DecodeInPlace(s) \/ DeferPending(s) \/ RejectPending(s)
        PROVE  Steady
    BY <1>4, QuietSteady DEF DecodeInPlace, DeferPending, RejectPending, Drop, requestVars
  <1> QED
    BY <1>1, <1>2, <1>3, <1>4, DecodeGrowSteady, StartPrefillSteady DEF Schedule

LEMMA SchedulerStepSteady ==
    ASSUME Inv, SchedulerStep
    PROVE  Steady
  <1>1. CASE EndUpdate
    BY <1>1, QuietSteady DEF EndUpdate, requestVars
  <1>2. ASSUME NEW s, FailNext(s) PROVE Steady
    BY <1>2, FailSequenceSteady DEF FailNext, Outcomes
  <1>3. ASSUME NEW s, CompleteNext(s) PROVE Steady
    BY <1>3, RetireSteady DEF CompleteNext, Inv, FinishInv, Outcomes
  <1>4. ASSUME NEW s, CompleteByStopSequence(s) PROVE Steady
    BY <1>4, RetireSteady DEF CompleteByStopSequence, Outcomes
  <1> QED
    BY <1>1, <1>2, <1>3, <1>4, ScheduleSteady DEF SchedulerStep

LEMMA ClientCallSteady ==
    ASSUME Inv, ClientCall
    PROVE  Steady
  <1>1. ASSUME NEW r \in Requests, AddRequest(r) PROVE Steady
    <2>1. UNCHANGED <<kvVars, prefill, decode, generated>> /\ request' = Append(request, r)
      BY <1>1 DEF AddRequest
    <2>2. \A s \in Active : request'[s] = request[s]
      <3>1. request \in Seq(Requests) /\ Active \subseteq DOMAIN request
        BY DEF Inv, CoreInv, CoreType, ExactlyOnePlace, Submitted
      <3> QED
        BY <2>1, <3>1, AppendProperties
    <2> QED
      BY <2>1, <2>2 DEF Steady, Active, kvVars
  <1>2. ASSUME NEW s, FailByRequestId(s) PROVE Steady
    BY <1>2, FailSequenceSteady, RetireSteady DEF FailByRequestId, Outcomes
  <1>3. CASE FailPendingRequests
    BY <1>3, QuietSteady DEF FailPendingRequests, Drop
  <1> QED
    BY <1>1, <1>2, <1>3 DEF ClientCall

-----------------------------------------------------------------------------
(* Nobody reads what another one wrote                                     *)

BlockOf(s, p) == pageTables[s][p \div BlockSize + 1]

\* The context of a decoding sequence, up to the token it feeds next, holds
\* nothing of another sequence.
CleanInv ==
    \A s \in decode : \A p \in 0 .. ContextLen(s) - 2 :
        BlockOf(s, p) \in DOMAIN cache => cache[BlockOf(s, p)][p % BlockSize] \in {s, Nobody}

ReadInv == SoundInv /\ CleanInv

\* A position of the context lies in a block of the sequence.
LEMMA BlockOfContext ==
    ASSUME NEW s, NEW n \in Nat, NEW p \in 0 .. n - 1,
           pageTables[s] \in Seq(Blocks), Len(pageTables[s]) >= BlocksForTokens(n)
    PROVE  /\ p \div BlockSize + 1 \in 1 .. Len(pageTables[s])
           /\ BlockOf(s, p) \in Range(pageTables[s])
  <1> DEFINE i == p \div BlockSize + 1
             table == pageTables[s]
  <1> HIDE DEF i, table
  <1>0. p \in Nat /\ p < n
    OBVIOUS
  <1>1. i \in 1 .. BlocksForTokens(n) /\ BlocksForTokens(n) \in Nat
    BY <1>0, BlockOfPosition, BlocksForTokensType DEF i
  <1>2. table \in Seq(Blocks) /\ Len(table) \in Nat /\ DOMAIN table = 1 .. Len(table)
    BY LenProperties DEF table
  <1>3. i \in 1 .. Len(table)
    BY <1>1, <1>2 DEF table
  <1>4. BlockOf(s, p) = table[i]
    BY DEF BlockOf, i, table
  <1> QED
    BY <1>2, <1>3, <1>4 DEF Range, i, table

\* In a block of an active sequence only that sequence writes.
LEMMA SlotOfOwner ==
    ASSUME SoundInv, pc = "executing", NEW entries, entries \subseteq batch, Write(entries),
           NEW s \in Active, NEW b \in Range(pageTables[s]), b \in DOMAIN cache',
           NEW o \in 0 .. BlockSize - 1
    PROVE  /\ cache'[b][o] \in {s, IF b \in DOMAIN cache THEN cache[b][o] ELSE Nobody}
           /\ (\E e \in entries : /\ e.id = s
                                 /\ \E p \in Positions(e) : /\ BlockAt(e, p) = b
                                                            /\ p % BlockSize = o)
              => cache'[b][o] = s
  <1> DEFINE Writers == {e \in entries : \E p \in Positions(e) : /\ BlockAt(e, p) = b
                                                               /\ p % BlockSize = o}
  <1>1. ASSUME NEW e \in Writers PROVE e.id = s
    <2>1. Current(e) /\ WritesTo(e) \subseteq Range(pageTables[e.id])
      BY WritesToOwnBlocks DEF SoundInv, BatchInv, InPass
    <2>2. b \in Range(pageTables[e.id])
      BY <2>1 DEF WritesTo
    <2>3. e.id \in Live /\ s \in Live
      BY <2>1 DEF Current, SoundInv, Inv, CoreInv, TablesMatchActive
    <2> QED
      BY <2>2, <2>3 DEF SoundInv, Inv, CoreInv, KVInv, OwnedOnce
  <1>2. cache'[b][o] = IF Writers # {} THEN (CHOOSE e \in Writers : TRUE).id
                       ELSE IF b \in DOMAIN cache THEN cache[b][o] ELSE Nobody
    BY DEF Write
  <1>3. Writers # {} => cache'[b][o] = s
    BY <1>1, <1>2
  <1> QED
    BY <1>2, <1>3

\* What a sequence attends to lies in its blocks, and is what it feeds now or
\* an earlier part of its context.
LEMMA AttendedPosition ==
    ASSUME SoundInv, pc = "executing", NEW e \in batch, NEW p \in Attended(e)
    PROVE  /\ e.id \in Active /\ BlockAt(e, p) = BlockOf(e.id, p)
           /\ BlockOf(e.id, p) \in Range(pageTables[e.id]) /\ p % BlockSize \in 0 .. BlockSize - 1
           /\ p \in Positions(e) \/ (e.id \in decode /\ p \in 0 .. ContextLen(e.id) - 2)
  <1> DEFINE s == e.id
             n == e.context
             b == BlockAt(e, p)
             o == p % BlockSize
  <1>1. Current(e)
    BY DEF SoundInv, BatchInv, InPass
  <1>2. /\ s \in Active /\ n = ContextLen(s) /\ e.blocks = pageTables[s]
        /\ Len(pageTables[s]) >= BlocksForTokens(n)
        /\ e.isPrefill <=> s \in prefill
    BY <1>1 DEF Current
  <1>3. /\ n \in Nat /\ pageTables[s] \in Seq(Blocks) /\ Prompt(s) \in Nat /\ s \in SeqIds
        /\ s \in decode <=> s \notin prefill
    BY <1>2, ActiveSizes DEF SoundInv
  <1>4. b = BlockOf(s, p)
    BY <1>2 DEF BlockAt, BlockOf
  <1>5. p \in 0 .. n - 1 /\ (p \in Positions(e) \/ (s \in decode /\ p \in 0 .. n - 2))
    <2>1. CASE e.isPrefill
      <3>1. generated[s] = 0
        BY <1>2, <1>3, <2>1 DEF SoundInv, SizeInv
      <3>2. n = Prompt(s)
        BY <1>2, <1>3, <3>1 DEF ContextLen
      <3> QED
        BY <2>1, <3>2 DEF Attended, Positions
    <2>2. CASE ~e.isPrefill
      <3>1. p \in 0 .. n - 1 /\ Positions(e) = {n - 1} /\ s \in decode
        BY <1>2, <1>3, <2>2 DEF Attended, Positions
      <3> QED
        BY <1>3, <3>1
    <2> QED
      BY <2>1, <2>2
  <1>6. b \in Range(pageTables[s])
    BY <1>2, <1>3, <1>4, <1>5, BlockOfContext
  <1>7. o \in 0 .. BlockSize - 1
    BY <1>5, KVAssumption
  <1> QED
    BY <1>2, <1>4, <1>5, <1>6, <1>7

\* A sequence in the batch finds nothing foreign once it has written.
LEMMA AttendedIsClean ==
    ASSUME ReadInv, pc = "executing", NEW entries, entries \subseteq batch, Write(entries),
           NEW e \in entries, NEW p \in Attended(e)
    PROVE  /\ BlockAt(e, p) = BlockOf(e.id, p)
           /\ BlockAt(e, p) \in DOMAIN cache' =>
                 cache'[BlockAt(e, p)][p % BlockSize] \in {e.id, Nobody}
  <1> DEFINE s == e.id
             b == BlockAt(e, p)
             o == p % BlockSize
  <1>1. /\ s \in Active /\ b = BlockOf(s, p)
        /\ b \in Range(pageTables[s]) /\ o \in 0 .. BlockSize - 1
        /\ p \in Positions(e) \/ (s \in decode /\ p \in 0 .. ContextLen(s) - 2)
    BY AttendedPosition DEF ReadInv
  <1>2. ASSUME b \in DOMAIN cache' PROVE cache'[b][o] \in {s, Nobody}
    <2>1. /\ cache'[b][o] \in {s, Nobody} \/ (b \in DOMAIN cache /\ cache'[b][o] = cache[b][o])
          /\ p \in Positions(e) => cache'[b][o] = s
      BY <1>1, <1>2, SlotOfOwner DEF ReadInv
    <2>2. s \in decode /\ p \in 0 .. ContextLen(s) - 2 /\ b \in DOMAIN cache
          => cache[b][o] \in {s, Nobody}
      BY <1>1 DEF ReadInv, CleanInv
    <2> QED
      BY <1>1, <2>1, <2>2
  <1> QED
    BY <1>1, <1>2

\* The context of a decoding sequence lies in its blocks.
LEMMA ContextPosition ==
    ASSUME SoundInv, NEW s \in decode, NEW p \in 0 .. ContextLen(s) - 2
    PROVE  /\ s \in Active /\ p \div BlockSize + 1 \in 1 .. Len(pageTables[s])
           /\ BlockOf(s, p) \in Range(pageTables[s]) /\ p % BlockSize \in 0 .. BlockSize - 1
  <1>1. s \in Active
    BY DEF Active
  <1>2. /\ {ContextLen(s), ContextLen(s) - 1} \subseteq Nat /\ pageTables[s] \in Seq(Blocks)
        /\ Len(pageTables[s]) >= BlocksForTokens(ContextLen(s) - 1)
    BY <1>1, ActiveSizes DEF SoundInv, SizeInv
  <1>3. p \in 0 .. (ContextLen(s) - 1) - 1
    BY <1>2
  <1>4. p % BlockSize \in 0 .. BlockSize - 1
    BY <1>3, KVAssumption
  <1> QED
    BY <1>1, <1>2, <1>3, <1>4, BlockOfContext

LEMMA SteadyContext ==
    ASSUME SoundInv, Steady, NEW s \in decode', NEW p \in 0 .. ContextLen(s)' - 2
    PROVE  s \in decode /\ p \in 0 .. ContextLen(s) - 2 /\ BlockOf(s, p)' = BlockOf(s, p)
  <1>1. s \in decode /\ s \in Active' \ pending
    BY DEF Steady, Active, SoundInv, Inv, CoreInv, ExactlyOnePlace
  <1>2. ContextLen(s)' = ContextLen(s)
    BY <1>1 DEF Steady, ContextLen, Prompt
  <1>3. p \div BlockSize + 1 \in 1 .. Len(pageTables[s])
    BY <1>1, <1>2, ContextPosition
  <1> QED
    BY <1>1, <1>2, <1>3 DEF Steady, BlockOf

LEMMA SteadyClean ==
    ASSUME ReadInv, Steady, UNCHANGED cache
    PROVE  CleanInv'
  BY SteadyContext DEF ReadInv, CleanInv

\* What an execution leaves in the blocks of a sequence up to its old context.
LEMMA WrittenClean ==
    ASSUME ReadInv, pc = "executing", NEW entries, entries \subseteq batch, Write(entries),
           NEW s \in decode, NEW p \in 0 .. ContextLen(s) - 2,
           BlockOf(s, p) \in DOMAIN cache'
    PROVE  cache'[BlockOf(s, p)][p % BlockSize] \in {s, Nobody}
  <1> DEFINE b == BlockOf(s, p)
             o == p % BlockSize
  <1>1. cache'[b][o] \in {s, Nobody} \/ (b \in DOMAIN cache /\ cache'[b][o] = cache[b][o])
    BY ContextPosition, SlotOfOwner DEF ReadInv
  <1>2. b \in DOMAIN cache => cache[b][o] \in {s, Nobody}
    BY DEF ReadInv, CleanInv
  <1> QED
    BY <1>1, <1>2

\* The context after an execution is what the batch attended to, and that of
\* the sequences that were not in the batch.
LEMMA ExecutedContext ==
    ASSUME SoundInv, CpuExecute, NEW s \in decode', NEW p \in 0 .. ContextLen(s)' - 2
    PROVE  /\ BlockOf(s, p)' = BlockOf(s, p)
           /\ \/ \E e \in batch : e.id = s /\ p \in Attended(e)
              \/ s \in decode /\ p \in 0 .. ContextLen(s) - 2
  <1>1. PICK output \in Outputs : UpdateSequences(output)
    BY DEF CpuExecute
  <1>2. pc = "executing" /\ pageTables' = pageTables /\ request' = request
    BY <1>1 DEF UpdateSequences, kvVars
  <1>3. BlockOf(s, p)' = BlockOf(s, p)
    BY <1>2 DEF BlockOf
  <1>4. output \in [InBatch -> {"word", "eos"}]
    BY ExecutorAssumption DEF Outputs
  <1>5. s \in SeqIds /\ s \in Active /\ generated[s] \in Nat /\ Prompt(s) \in Nat
        /\ (s \in InBatch \/ s \in decode)
    <2>1. s \in Active /\ (s \in InBatch \/ s \in decode)
      BY <1>1, <1>4 DEF UpdateSequences, Active
    <2> QED
      BY <2>1, ActiveSizes DEF SoundInv
  <1>6. CASE s \in InBatch
    <2>1. PICK e \in batch : e.id = s
      BY <1>6 DEF InBatch
    <2>2. Current(e) /\ e.context = ContextLen(s)
      BY <1>2, <2>1 DEF SoundInv, BatchInv, InPass, Current
    <2>3. generated'[s] = generated[s] + 1
      BY <1>1, <1>4, <1>5, <1>6 DEF UpdateSequences
    <2>4. ContextLen(s)' = ContextLen(s) + 1 /\ ContextLen(s) \in Nat
      BY <1>2, <1>5, <2>3 DEF ContextLen, Prompt
    <2>5. p \in 0 .. e.context - 1
      BY <2>2, <2>4
    <2>6. p \in Attended(e)
      <3>1. CASE e.isPrefill
        <4>1. s \in prefill
          BY <2>1, <2>2, <3>1 DEF Current
        <4>2. generated[s] = 0
          BY <1>5, <4>1 DEF SoundInv, SizeInv, Inv, CoreInv, ExactlyOnePlace
        <4> QED
          BY <1>5, <2>1, <2>2, <2>5, <3>1, <4>2 DEF Attended, Positions, ContextLen
      <3>2. CASE ~e.isPrefill
        BY <2>5, <3>2 DEF Attended
      <3> QED
        BY <3>1, <3>2
    <2> QED
      BY <1>3, <2>1, <2>6
  <1>7. CASE s \notin InBatch
    <2>1. generated'[s] = generated[s]
      BY <1>1, <1>4, <1>5, <1>7 DEF UpdateSequences
    <2>2. ContextLen(s)' = ContextLen(s)
      BY <1>2, <2>1 DEF ContextLen, Prompt
    <2> QED
      BY <1>3, <1>5, <1>7, <2>2
  <1> QED
    BY <1>6, <1>7

LEMMA ExecutedClean ==
    ASSUME ReadInv, CpuExecute
    PROVE  CleanInv'
  <1>1. SoundInv /\ pc = "executing" /\ Write(batch)
    BY DEF ReadInv, CpuExecute, UpdateSequences
  <1> SUFFICES ASSUME NEW s \in decode', NEW p \in 0 .. ContextLen(s)' - 2,
                      BlockOf(s, p)' \in DOMAIN cache'
               PROVE  cache'[BlockOf(s, p)'][p % BlockSize] \in {s, Nobody}
    BY DEF CleanInv
  <1>2. BlockOf(s, p)' = BlockOf(s, p)
    BY <1>1, ExecutedContext
  <1>3. ASSUME NEW e \in batch, e.id = s, p \in Attended(e)
        PROVE  cache'[BlockOf(s, p)][p % BlockSize] \in {s, Nobody}
    BY <1>1, <1>2, <1>3, AttendedIsClean
  <1>4. ASSUME s \in decode, p \in 0 .. ContextLen(s) - 2
        PROVE  cache'[BlockOf(s, p)][p % BlockSize] \in {s, Nobody}
    BY <1>1, <1>2, <1>4, WrittenClean
  <1> QED
    BY <1>1, <1>2, <1>3, <1>4, ExecutedContext

LEMMA FailedClean ==
    ASSUME ReadInv, NEW e \in batch, CpuExecuteFails(e)
    PROVE  CleanInv'
  <1> DEFINE reached == {f \in batch : f.isPrefill \/ ~Before(e.id, f.id)}
  <1>1. pc = "executing" /\ Write(reached)
    BY DEF CpuExecuteFails, ExecutionError
  <1>2. UNCHANGED <<pageTables, request, decode, generated>>
    BY DEF CpuExecuteFails, ExecutionError, kvVars, requestVars
  <1> SUFFICES ASSUME NEW s \in decode, NEW p \in 0 .. ContextLen(s) - 2,
                      BlockOf(s, p) \in DOMAIN cache'
               PROVE  cache'[BlockOf(s, p)][p % BlockSize] \in {s, Nobody}
    BY <1>2 DEF CleanInv, BlockOf, ContextLen, Prompt
  <1> QED
    BY <1>1, WrittenClean

LEMMA DrainClean ==
    ASSUME ReadInv, CpuDrain
    PROVE  CleanInv'
  <1>1. UNCHANGED <<pageTables, request, decode, generated>>
    BY DEF CpuDrain, TakeCompleted, kvVars
  <1>2. \A b \in DOMAIN cache' : b \in DOMAIN cache /\ cache'[b] = cache[b]
    BY DEF CpuDrain, CpuSequencesFinished, Restrict
  <1> SUFFICES ASSUME NEW s \in decode, NEW p \in 0 .. ContextLen(s) - 2,
                      BlockOf(s, p) \in DOMAIN cache'
               PROVE  cache'[BlockOf(s, p)][p % BlockSize] \in {s, Nobody}
    BY <1>1 DEF CleanInv, BlockOf, ContextLen, Prompt
  <1> QED
    BY <1>2 DEF ReadInv, CleanInv

LEMMA ReadStep ==
    ASSUME ReadInv, [CpuNext]_cpuSpecVars
    PROVE  ReadInv'
  <1>1. SoundInv'
    BY ExecutorAssumption, CpuNextIsNext, SoundStep DEF ReadInv, cpuSpecVars
  <1> SUFFICES CleanInv'
    BY <1>1 DEF ReadInv
  <1>2. CASE (SchedulerStep \/ ClientCall) /\ UNCHANGED cpuVars
    BY <1>2, SchedulerStepSteady, ClientCallSteady, SteadyClean DEF ReadInv, SoundInv, cpuVars
  <1>3. CASE UNCHANGED cpuSpecVars
    BY <1>3, QuietSteady, SteadyClean DEF cpuSpecVars, vars, requestVars, cpuVars
  <1> QED
    BY <1>1, <1>2, <1>3, ExecutedClean, FailedClean, DrainClean DEF CpuNext

\* No request is answered from the context of another one, whatever blocks are
\* freed, handed on, or kept after a cancel or a failure.
THEOREM CpuReadsNothingForeign == CpuSpec => NoForeignRead
  <1> DEFINE Clean ==
        pc = "executing" /\ pc' = "finishing" /\ toFail' = {} =>
            \A e \in batch : \A p \in {q \in Attended(e) : BlockAt(e, q) \in DOMAIN cache'} :
                cache'[BlockAt(e, p)][p % BlockSize] \in {e.id, Nobody}
  <1>1. Init /\ CpuInit => ReadInv
    <2> SUFFICES ASSUME Init, CpuInit PROVE CleanInv
      BY InitSound DEF ReadInv
    <2> QED
      BY DEF Init, CleanInv
  <1>2. ReadInv /\ [CpuNext]_cpuSpecVars => ReadInv'
    BY ReadStep
  <1>3. ReadInv /\ [CpuNext]_cpuSpecVars => [Clean]_cpuSpecVars
    <2> SUFFICES ASSUME ReadInv, CpuNext, pc = "executing", pc' = "finishing", toFail' = {},
                        NEW e \in batch, NEW p \in Attended(e), BlockAt(e, p) \in DOMAIN cache'
                 PROVE  cache'[BlockAt(e, p)][p % BlockSize] \in {e.id, Nobody}
      OBVIOUS
    <2>1. ~SchedulerStep /\ ~ClientCall /\ ~CpuDrain
      BY DEF SchedulerStep, ClientCall, CpuDrain, TakeCompleted, Schedule, BeginSchedule, EndDecode,
             EndPrefill, EndSchedule, DecodeInPlace, DecodeGrow, DecodeOutOfBlocks, DecodeAt,
             ResumePrefill, DeferPending, RejectPending, StartPrefill, PendingAt, FailNext,
             CompleteNext, CompleteByStopSequence, EndUpdate, AddRequest, FailByRequestId,
             FailPendingRequests
    <2>2. ASSUME NEW f \in batch, CpuExecuteFails(f) PROVE FALSE
      BY <2>2 DEF CpuExecuteFails, ExecutionError, InBatch
    <2>3. CpuExecute
      BY <2>1, <2>2 DEF CpuNext
    <2> QED
      BY <2>3, AttendedIsClean DEF CpuExecute
  <1> QED
    BY <1>1, <1>2, <1>3, PTL DEF CpuSpec, NoForeignRead

-----------------------------------------------------------------------------
(* The native backend: slots and capacities                                *)

\* Slots are given to sequences of batches only, with room for the prompt and
\* the reserve.
SlotInv ==
    /\ SlotsReturned
    /\ IsFiniteSet(slots)
    /\ \A s \in slots \cap Active :
          allocated[s] \in Nat /\ allocated[s] >= Prompt(s) + DecodeReserve

\* An active sequence has tokens left to generate, or is about to be completed.
BudgetInv == \A s \in Active : generated[s] < request[s].maxTokens \/ s \in toComplete

TinyInv == SoundInv /\ SlotInv /\ BudgetInv

\* The executor may answer something.
LEMMA OutputsExist == \E output : output \in Outputs
  <1>1. [s \in InBatch |-> "word"] \in Outputs
    BY ExecutorAssumption DEF Outputs
  <1> QED
    BY <1>1

LEMMA BackendBatchType == BackendBatch \in Nat \ {0}
  BY SchedulerAssumption, TinyLlmAssumption DEF BackendBatch

LEMMA SteadyBudget ==
    ASSUME TinyInv, SoundInv', Steady, toComplete \cap Active' \subseteq toComplete'
    PROVE  BudgetInv'
  <1> SUFFICES ASSUME NEW s \in Active'
               PROVE  generated'[s] < request'[s].maxTokens \/ s \in toComplete'
    BY DEF BudgetInv
  <1>1. CASE s \in pending
    <2>1. s \notin decode'
      BY <1>1 DEF Steady, Active, TinyInv, SoundInv, Inv, CoreInv, ExactlyOnePlace
    <2>2. s \in SeqIds /\ s \in DOMAIN request' /\ request' \in Seq(Requests)
      BY DEF SoundInv, Inv, CoreInv, CoreType, ExactlyOnePlace, Submitted
    <2>3. generated'[s] = 0
      BY <2>1, <2>2 DEF SoundInv, SizeInv
    <2>4. request'[s] \in Requests
      BY <2>2, ElementOfSeq, LenProperties
    <2>5. request'[s].maxTokens \in Nat \ {0}
      BY <2>4, SchedulerAssumption
    <2> QED
      BY <2>3, <2>5
  <1>2. CASE s \notin pending
    BY <1>2 DEF Steady, TinyInv, BudgetInv
  <1> QED
    BY <1>1, <1>2

\* Only the completion of a sequence takes it from those to be completed.
LEMMA BetweenCompletions ==
    ASSUME Inv, SchedulerStep \/ ClientCall
    PROVE  toComplete \cap Active' \subseteq toComplete'
  <1>1. ASSUME NEW s, CompleteNext(s) PROVE toComplete \cap Active' \subseteq toComplete'
    <2>1. s \in Active /\ toComplete' = toComplete \ {s} /\ Retire(s, "completed")
      BY <1>1 DEF CompleteNext, Inv, FinishInv
    <2>2. Active' = Active \ {s}
      BY <2>1, RetireCore DEF Inv, Outcomes
    <2> QED
      BY <2>1, <2>2
  <1>2. CASE Schedule
    BY <1>2 DEF Schedule, BeginSchedule, EndDecode, EndPrefill, EndSchedule, DecodeInPlace,
                DecodeGrow, DecodeOutOfBlocks, DecodeAt, ResumePrefill, DeferPending,
                RejectPending, StartPrefill, PendingAt, updateVars
  <1>3. ASSUME NEW s, FailNext(s) \/ CompleteByStopSequence(s) \/ FailByRequestId(s)
        PROVE  toComplete' = toComplete
    BY <1>3 DEF FailNext, CompleteByStopSequence, FailByRequestId, updateVars
  <1>4. CASE EndUpdate \/ FailPendingRequests
    BY <1>4 DEF EndUpdate, FailPendingRequests, updateVars
  <1>5. ASSUME NEW r, AddRequest(r) PROVE toComplete' = toComplete
    BY <1>5 DEF AddRequest, updateVars
  <1> QED
    BY <1>1, <1>2, <1>3, <1>4, <1>5 DEF SchedulerStep, ClientCall

\* A token that uses up the budget completes its sequence.
LEMMA ExecutionBudget ==
    ASSUME TinyInv, NEW output \in Outputs, UpdateSequences(output) \/ ExecutionError
    PROVE  BudgetInv'
  <1>1. pc = "executing" /\ toComplete = {} /\ Active' = Active /\ request' = request
    BY DEF UpdateSequences, ExecutionError, requestVars, Active, TinyInv, SoundInv, Inv, FinishInv
  <1> SUFFICES ASSUME NEW s \in Active
               PROVE  generated'[s] < request[s].maxTokens \/ s \in toComplete'
    BY <1>1 DEF BudgetInv
  <1>2. /\ s \in SeqIds /\ generated[s] \in Nat /\ request[s].maxTokens \in Nat
        /\ generated[s] < request[s].maxTokens
    BY <1>1, ActiveSizes, RequestTyped DEF TinyInv, SoundInv, Inv, BudgetInv
  <1>3. CASE ExecutionError
    BY <1>2, <1>3 DEF ExecutionError, requestVars
  <1>4. CASE UpdateSequences(output)
    <2> DEFINE advanced == {t \in DOMAIN output \cap Active : output[t] # "missing"}
    <2>1. /\ generated'[s] = generated[s] + (IF s \in advanced THEN 1 ELSE 0)
          /\ toComplete' = {t \in advanced : Finished(t, output[t])}
      BY <1>2, <1>4 DEF UpdateSequences
    <2> HIDE DEF advanced
    <2> QED
      BY <1>2, <2>1 DEF Finished
  <1> QED
    BY <1>3, <1>4

\* What the scheduler does while the backend sleeps.
LEMMA GrowsSlots ==
    ASSUME TinyInv, Grows, Steady, UNCHANGED tinyVars
    PROVE  SlotInv'
  <1>1. SlotsReturned' /\ IsFiniteSet(slots')
    BY DEF TinyInv, SlotInv, SlotsReturned, Grows, tinyVars, BackendBatch
  <1>2. ASSUME NEW s \in slots \cap Active'
        PROVE  allocated[s] \in Nat /\ allocated[s] >= Prompt(s)' + DecodeReserve
    <2>1. s \notin pending
      BY DEF TinyInv, SlotInv, SlotsReturned, SoundInv, Inv, CoreInv, ExactlyOnePlace, Terminal,
             IdsOf
    <2> QED
      BY <2>1 DEF TinyInv, SlotInv, Steady, Grows, Prompt
  <1> QED
    BY <1>1, <1>2 DEF SlotInv, tinyVars

\* The drain takes the slots of the completed.
LEMMA DrainSlots ==
    ASSUME TinyInv, TinyDrain
    PROVE  SlotInv' /\ BudgetInv'
  <1> DEFINE ids == IdsOf(completed)
  <1>1. UNCHANGED <<prefill, decode, request, generated, toComplete>>
    BY DEF TinyDrain, TakeCompleted, updateVars
  <1>2. slots = DOMAIN allocated /\ slots \subseteq Active \cup ids
    BY DEF TinyInv, SlotInv, SlotsReturned
  <1>3. allocated' = [s \in DOMAIN allocated \ ids |-> allocated[s]] /\ slots' = slots \ ids
    BY <1>2 DEF TinyDrain, TinySequencesFinished, Restrict
  <1> HIDE DEF ids
  <1>4. IsFiniteSet(slots') /\ Cardinality(slots') <= Cardinality(slots)
    BY <1>3, FS_Subset DEF TinyInv, SlotInv
  <1>5. Cardinality(slots') <= BackendBatch
    <2>1. Cardinality(slots) \in Nat /\ Cardinality(slots') \in Nat /\ BackendBatch \in Nat
      BY <1>4, FS_CardinalityType, BackendBatchType DEF TinyInv, SlotInv
    <2> QED
      BY <1>4, <2>1 DEF TinyInv, SlotInv, SlotsReturned
  <1>6. SlotsReturned'
    BY <1>1, <1>2, <1>3, <1>5 DEF SlotsReturned, Active, BackendBatch
  <1>7. BudgetInv'
    BY <1>1 DEF TinyInv, BudgetInv, Active
  <1> QED
    BY <1>1, <1>2, <1>3, <1>4, <1>6, <1>7 DEF SlotInv, TinyInv, Active, Prompt

\* The order in which the backend visits a batch is total.
LEMMA OrderOfBatch ==
    ASSUME SoundInv, pc = "executing", NEW e \in batch, NEW f \in batch, NEW g \in batch
    PROVE  /\ e = f \/ Precedes(e, f) \/ Precedes(f, e)
           /\ ~(Precedes(e, f) /\ Precedes(f, e))
           /\ Precedes(e, f) /\ Precedes(f, g) => Precedes(e, g)
  <1>1. ASSUME NEW h \in batch
        PROVE  /\ h.id \in Nat /\ request[h.id].priority \in Int /\ h.isPrefill \in BOOLEAN
               /\ Current(h) /\ h \in Snapshots
    <2>1. Current(h) /\ h \in Snapshots
      BY DEF SoundInv, BatchInv, InPass, Inv, BatchBounded, Snapshots
    <2>2. h.id \in Submitted /\ h.id \in SeqIds
      BY <2>1, ActiveSizes DEF Current, SoundInv
    <2> QED
      BY <2>1, <2>2, RequestTyped, KVAssumption DEF SoundInv, Inv, Snapshots
  <1>2. e.id = f.id => e = f
    <2> SUFFICES ASSUME e.id = f.id PROVE e = f
      OBVIOUS
    <2>1. e.isPrefill = f.isPrefill /\ e.blocks = f.blocks /\ e.context = f.context
      BY <1>1 DEF Current
    <2> QED
      BY <1>1, <2>1 DEF Snapshots
  <1>3. e.id # f.id => Before(e.id, f.id) \/ Before(f.id, e.id)
    BY <1>1 DEF Before
  <1>4. ~(Before(e.id, f.id) /\ Before(f.id, e.id))
    BY <1>1 DEF Before
  <1>5. Before(e.id, f.id) /\ Before(f.id, g.id) => Before(e.id, g.id)
    BY <1>1 DEF Before
  <1> QED
    BY <1>1, <1>2, <1>3, <1>4, <1>5 DEF Precedes

\* Some entries of a batch have a last one.
LEMMA LastOf ==
    ASSUME SoundInv, pc = "executing", NEW N, N \subseteq batch, N # {}
    PROVE  \E g \in N : N \subseteq UpTo(g)
  <1> DEFINE After(g) == N \ UpTo(g)
             T == {After(g) : g \in N}
  <1>1. IsFiniteSet(N)
    BY FS_Subset DEF SoundInv, Inv, BatchBounded
  <1>2. FiniteSubsetsOf(N) = SUBSET N
    BY <1>1, FS_FiniteSubsetsOfFinite
  <1>3. IsWellFoundedOn(StrictSubsetOrdering(N), SUBSET N)
    BY <1>2, FS_StrictSubsetOrderingWellFounded
  <1>4. T \subseteq SUBSET N /\ T # {}
    OBVIOUS
  <1> HIDE DEF T
  <1>5. PICK x \in T : \A y \in T : <<y, x>> \notin StrictSubsetOrdering(N)
    BY <1>3, <1>4, WFMin
  <1>6. PICK g \in N : x = After(g)
    BY DEF T
  <1>7. SUFFICES ASSUME NEW h \in After(g) PROVE FALSE
    BY <1>6 DEF UpTo
  <1>8. h \in N /\ h \in UpTo(h) /\ Precedes(g, h)
    BY <1>7, OrderOfBatch DEF UpTo
  <1>9. UpTo(g) \subseteq UpTo(h)
    BY <1>8, OrderOfBatch DEF UpTo
  <1>10. After(h) \subseteq x /\ After(h) # x /\ After(h) \in T /\ After(h) \subseteq N
    BY <1>6, <1>7, <1>8, <1>9 DEF T
  <1>11. <<After(h), x>> \in StrictSubsetOrdering(N)
    BY <1>4, <1>10 DEF StrictSubsetOrdering
  <1> QED
    BY <1>5, <1>10, <1>11

\* The ids of some entries are at most as many as the entries.
LEMMA IdsCount ==
    ASSUME NEW N, IsFiniteSet(N)
    PROVE  /\ IsFiniteSet({e.id : e \in N})
           /\ Cardinality({e.id : e \in N}) <= Cardinality(N)
  <1> DEFINE ids == {e.id : e \in N}
             f == [e \in N |-> e.id]
  <1>1. f \in Surjection(N, ids)
    BY DEF Surjection
  <1> HIDE DEF ids, f
  <1>2. IsFiniteSet(ids) /\ Cardinality(ids) <= Cardinality(N)
    BY <1>1, FS_Surjection
  <1> QED
    BY <1>2 DEF ids

\* No more slots are given out than there are: the last sequence that asked
\* for one was not the first too many.
LEMMA EnoughSlots ==
    ASSUME TinyInv, pc = "executing", NEW entries, entries \subseteq batch,
           \A e \in entries : ~NoSlotFor(e)
    PROVE  LET ids == {e.id : e \in entries}
           IN  IsFiniteSet(slots \cup ids) /\ Cardinality(slots \cup ids) <= BackendBatch
  <1> DEFINE ids == {e.id : e \in entries}
             N == {e \in entries : IsNew(e)}
             new == {e.id : e \in N}
  <1>1. IsFiniteSet(slots) /\ Cardinality(slots) <= BackendBatch /\ slots = DOMAIN allocated
    BY DEF TinyInv, SlotInv, SlotsReturned
  <1>2. slots \cup ids = slots \cup new
    BY <1>1 DEF IsNew
  <1>3. IsFiniteSet(batch)
    BY DEF TinyInv, SoundInv, Inv, BatchBounded
  <1>4. IsFiniteSet(N)
    BY <1>3, FS_Subset
  <1>5. IsFiniteSet(new) /\ Cardinality(new) <= Cardinality(N)
    BY <1>4, IdsCount
  <1>6. BackendBatch \in Nat /\ Cardinality(slots) \in Nat /\ Cardinality(N) \in Nat
        /\ Cardinality(new) \in Nat /\ Cardinality(slots \cap new) \in Nat
    BY <1>1, <1>4, <1>5, FS_CardinalityType, FS_Intersection, BackendBatchType
  <1>7. /\ IsFiniteSet(slots \cup new)
        /\ Cardinality(slots \cup new)
              = Cardinality(slots) + Cardinality(new) - Cardinality(slots \cap new)
    BY <1>1, <1>5, FS_Union
  <1>8. Cardinality(slots) + Cardinality(N) <= BackendBatch
    <2>1. CASE N = {}
      <3>1. Cardinality(N) = 0
        BY <2>1, FS_EmptySet
      <3> QED
        BY <1>1, <1>6, <3>1
    <2>2. CASE N # {}
      <3>1. PICK g \in N : N \subseteq UpTo(g)
        BY <2>2, LastOf DEF TinyInv
      <3> DEFINE A == {f \in UpTo(g) : IsNew(f)}
      <3>2. N \subseteq A /\ A \subseteq batch
        BY <3>1 DEF UpTo
      <3>3. IsFiniteSet(A)
        BY <1>3, <3>2, FS_Subset
      <3>4. Cardinality(N) <= Cardinality(A) /\ Cardinality(A) \in Nat
        BY <3>2, <3>3, FS_Subset, FS_CardinalityType
      <3>5. Cardinality(slots) + Cardinality(A) <= BackendBatch
        BY <1>6, <3>4 DEF NoSlotFor, Asked
      <3> QED
        BY <1>6, <3>4, <3>5
    <2> QED
      BY <2>1, <2>2
  <1> HIDE DEF N, new, ids
  <1>9. Cardinality(slots \cup new) <= BackendBatch
    BY <1>5, <1>6, <1>7, <1>8
  <1> QED
    BY <1>2, <1>7, <1>9 DEF ids

\* The slots given out in one execution.
LEMMA AllocateSlots ==
    ASSUME TinyInv, pc = "executing", Active' = Active, UNCHANGED <<request, completed>>,
           NEW entries, entries \subseteq batch, \A e \in entries : ~NoSlotFor(e),
           Allocate(entries)
    PROVE  SlotInv'
  <1> DEFINE ids == {e.id : e \in entries}
  <1>1. slots' = slots \cup ids /\ DOMAIN allocated' = DOMAIN allocated \cup ids
    BY DEF Allocate
  <1>2. IsFiniteSet(slots \cup ids) /\ Cardinality(slots \cup ids) <= BackendBatch
    BY EnoughSlots
  <1>3. ASSUME NEW e \in entries
        PROVE  /\ e.id \in Active /\ e.context \in Nat /\ e.context >= Prompt(e.id)
               /\ Prompt(e.id) \in Nat
    <2>1. Current(e)
      BY DEF TinyInv, SoundInv, BatchInv, InPass
    <2> QED
      BY <2>1, ActiveSizes DEF Current, ContextLen, TinyInv, SoundInv
  <1>4. slots' \subseteq Active' \cup IdsOf(completed')
    BY <1>1, <1>3 DEF TinyInv, SlotInv, SlotsReturned
  <1>5. SlotsReturned'
    BY <1>1, <1>2, <1>4 DEF TinyInv, SlotInv, SlotsReturned, BackendBatch
  <1>6. ASSUME NEW s \in slots' \cap Active
        PROVE  allocated'[s] \in Nat /\ allocated'[s] >= Prompt(s) + DecodeReserve
    <2>1. CASE s \in DOMAIN allocated
      BY <2>1 DEF Allocate, TinyInv, SlotInv, SlotsReturned
    <2>2. CASE s \notin DOMAIN allocated
      <3>1. s \in ids
        BY <1>1, <2>2 DEF TinyInv, SlotInv, SlotsReturned
      <3>2. PICK f \in entries : f = CHOOSE e \in entries : e.id = s
        BY <3>1
      <3>3. f.id = s
        BY <3>1, <3>2
      <3>4. allocated'[s] = Capacity(f)
        BY <1>1, <2>2, <3>1, <3>2 DEF Allocate
      <3>5. Capacity(f) = AllocTokens(f.context)
        BY <2>2, <3>3 DEF Capacity, IsNew
      <3>6. DecodeReserve \in Nat /\ AllocFloor \in Nat
        BY TinyLlmAssumption
      <3> QED
        BY <1>3, <3>3, <3>4, <3>5, <3>6 DEF AllocTokens
    <2> QED
      BY <2>1, <2>2
  <1> QED
    BY <1>1, <1>2, <1>5, <1>6 DEF SlotInv, Prompt

\* To the scheduler, the backend is an execution like any other.
LEMMA TinyNextIsNext == TinyNext => Next
  BY DEF TinyNext, SchedulerStep, ClientCall, RejectBatch, RejectSequence, Run, TinyDrain, Next,
         Step, Call, Update

LEMMA ExecutionKeepsPlaces ==
    ASSUME NEW output, UpdateSequences(output) \/ ExecutionError
    PROVE  /\ pc = "executing" /\ Active' = Active
           /\ UNCHANGED <<request, completed>>
  BY DEF UpdateSequences, ExecutionError, requestVars, Active

LEMMA TinyStep ==
    ASSUME TinyInv, [TinyNext]_tinySpecVars
    PROVE  TinyInv'
  <1>1. SoundInv'
    BY ExecutorAssumption, TinyNextIsNext, SoundStep DEF TinyInv, tinySpecVars
  <1> SUFFICES SlotInv' /\ BudgetInv'
    BY <1>1 DEF TinyInv
  <1>2. Inv
    BY DEF TinyInv, SoundInv
  <1>3. CASE (SchedulerStep \/ ClientCall) /\ UNCHANGED tinyVars
    <2>1. Grows /\ Steady /\ toComplete \cap Active' \subseteq toComplete'
      BY <1>2, <1>3, SchedulerStepGrows, ClientCallGrows, SchedulerStepSteady, ClientCallSteady,
         BetweenCompletions
    <2> QED
      BY <1>1, <1>3, <2>1, GrowsSlots, SteadyBudget
  <1>4. CASE RejectBatch
    <2>1. ExecutionError /\ UNCHANGED tinyVars
      BY <1>4 DEF RejectBatch
    <2>2. Grows /\ Steady
      BY <1>2, <2>1, ExecutionGrows, QuietSteady DEF ExecutionError, requestVars
    <2>3. BudgetInv'
      BY <2>1, ExecutionBudget, OutputsExist
    <2> QED
      BY <2>1, <2>2, <2>3, GrowsSlots
  <1>5. ASSUME NEW e \in batch, RejectSequence(e) PROVE SlotInv' /\ BudgetInv'
    <2> DEFINE entries == UpTo(e) \ (IF NoSlotFor(e) THEN {e} ELSE {})
    <2>1. ExecutionError /\ Allocate(entries) /\ entries \subseteq batch
      BY <1>5 DEF RejectSequence, UpTo
    <2>2. \A f \in entries : ~NoSlotFor(f)
      BY <1>5 DEF RejectSequence, Refused, UpTo
    <2>3. BudgetInv'
      BY <2>1, ExecutionBudget, OutputsExist
    <2> QED
      BY <2>1, <2>2, <2>3, AllocateSlots, ExecutionKeepsPlaces
  <1>6. CASE Run
    <2>1. PICK output \in Outputs : UpdateSequences(output) \/ ExecutionError
      BY <1>6, OutputsExist DEF Run
    <2>2. Allocate(batch) /\ \A e \in batch : ~NoSlotFor(e)
      BY <1>6 DEF Run, Refused
    <2>3. BudgetInv'
      BY <2>1, ExecutionBudget
    <2> QED
      BY <2>1, <2>2, <2>3, AllocateSlots, ExecutionKeepsPlaces
  <1>7. CASE TinyDrain
    BY <1>7, DrainSlots
  <1>8. CASE UNCHANGED tinySpecVars
    <2>1. Grows /\ Steady /\ toComplete' = toComplete /\ UNCHANGED tinyVars
      BY <1>8, QuietGrows, QuietSteady DEF tinySpecVars, vars, requestVars, updateVars
    <2> QED
      BY <1>1, <2>1, GrowsSlots, SteadyBudget
  <1> QED
    BY <1>3, <1>4, <1>5, <1>6, <1>7, <1>8 DEF TinyNext

LEMMA InitTiny == Init /\ TinyInit => TinyInv
  <1> SUFFICES ASSUME Init, TinyInit PROVE TinyInv
    OBVIOUS
  <1>1. slots = {} /\ DOMAIN allocated = {} /\ Active = {}
    BY DEF TinyInit, Init, Active
  <1>2. IsFiniteSet(slots) /\ Cardinality(slots) = 0
    BY <1>1, FS_EmptySet
  <1>3. SlotInv
    BY <1>1, <1>2, BackendBatchType DEF SlotInv, SlotsReturned
  <1> QED
    BY <1>1, <1>3, InitSound DEF TinyInv, BudgetInv

LEMMA TinyInvariant == TinySpec => []TinyInv
  <1>1. TinyInv /\ [TinyNext]_tinySpecVars => TinyInv'
    BY TinyStep
  <1> QED
    BY <1>1, InitTiny, PTL DEF TinySpec

\* No slot of the library leaks or is given out twice, whatever is refused,
\* fails or is cancelled, and it is never asked for more slots than it has.
THEOREM TinyReturnsSlots == TinySpec => []SlotsReturned
  <1>1. TinyInv => SlotsReturned
    BY DEF TinyInv, SlotInv
  <1> QED
    BY <1>1, TinyInvariant, PTL

\* A request whose max_tokens the reserve covers never outgrows the room it was
\* given when it started.
THEOREM TinyReserveSuffices == TinySpec => []ReserveSuffices
  <1>1. TinyInv => ReserveSuffices
    <2> SUFFICES ASSUME TinyInv, pc = "executing", NEW e \in batch,
                        request[e.id].maxTokens <= DecodeReserve
                 PROVE  ~OverCapacity(e)
      BY DEF ReserveSuffices
    <2> DEFINE s == e.id
    <2>1. Current(e)
      BY DEF TinyInv, SoundInv, BatchInv, InPass
    <2>2. /\ s \in Active /\ e.context = Prompt(s) + generated[s]
          /\ Prompt(s) \in Nat /\ generated[s] \in Nat /\ s \in Submitted
      BY <2>1, ActiveSizes DEF Current, ContextLen, TinyInv, SoundInv
    <2>3. request[s].maxTokens \in Nat /\ generated[s] < request[s].maxTokens
      BY <2>2, RequestTyped DEF TinyInv, SoundInv, Inv, BudgetInv, FinishInv
    <2>4. CASE IsNew(e)
      BY <2>2, <2>3, <2>4, TinyLlmAssumption DEF OverCapacity, Capacity, AllocTokens
    <2>5. CASE ~IsNew(e)
      <3>1. allocated[s] \in Nat /\ allocated[s] >= Prompt(s) + DecodeReserve
        BY <2>2, <2>5 DEF IsNew, TinyInv, SlotInv, SlotsReturned
      <3> QED
        BY <2>2, <2>3, <2>5, <3>1, TinyLlmAssumption DEF OverCapacity, Capacity
    <2> QED
      BY <2>4, <2>5
  <1> QED
    BY <1>1, TinyInvariant, PTL

-----------------------------------------------------------------------------
(* As long as nobody leaves between two drains                             *)

Between == pc \notin {"finishing", "collecting"}

LEMMA TerminalGrows ==
    ASSUME Inv, SchedulerStep \/ ClientCall \/ TakeCompleted
    PROVE  completed \cup reported \subseteq completed' \cup reported'
  <1>1. ASSUME NEW s, NEW outcome, Retire(s, outcome) \/ Drop({s}, outcome)
               \/ FailSequence(s, outcome)
        PROVE  completed \subseteq completed' /\ reported' = reported
    BY <1>1 DEF Retire, Drop, FailSequence, requestVars
  <1>2. CASE Schedule
    <2>1. ASSUME NEW s, ResumePrefill(s)
          PROVE  completed \subseteq completed' /\ reported' = reported
      BY <2>1, <1>1 DEF ResumePrefill, requestVars
    <2>2. ASSUME NEW s, DecodeOutOfBlocks(s) \/ RejectPending(s)
          PROVE  completed \subseteq completed' /\ reported' = reported
      BY <2>2, <1>1 DEF DecodeOutOfBlocks, RejectPending
    <2>3. CASE BeginSchedule \/ EndDecode \/ EndPrefill \/ EndSchedule
      BY <2>3 DEF BeginSchedule, EndDecode, EndPrefill, EndSchedule, requestVars
    <2>4. ASSUME NEW s, DecodeInPlace(s) \/ DecodeGrow(s) \/ DeferPending(s) \/ StartPrefill(s)
          PROVE  completed' = completed /\ reported' = reported
      BY <2>4 DEF DecodeInPlace, DecodeGrow, DeferPending, StartPrefill, requestVars
    <2> QED
      BY <1>2, <2>1, <2>2, <2>3, <2>4 DEF Schedule
  <1>3. ASSUME NEW s, FailNext(s) \/ CompleteNext(s) \/ CompleteByStopSequence(s)
               \/ FailByRequestId(s)
        PROVE  completed \subseteq completed' /\ reported' = reported
    BY <1>1, <1>3 DEF FailNext, CompleteNext, CompleteByStopSequence, FailByRequestId
  <1>4. CASE EndUpdate \/ FailPendingRequests \/ TakeCompleted
    BY <1>4 DEF EndUpdate, FailPendingRequests, Drop, TakeCompleted, requestVars
  <1>5. ASSUME NEW r, AddRequest(r) PROVE completed' = completed /\ reported' = reported
    BY <1>5 DEF AddRequest
  <1> QED
    BY <1>2, <1>3, <1>4, <1>5 DEF SchedulerStep, ClientCall

\* Before the next execution only requests that never ran join the completed.
LEMMA OnlyWaitingEnd ==
    ASSUME Inv, SchedulerStep \/ ClientCall, Between \/ Between', Undisturbed'
    PROVE  Between /\ IdsOf(completed') \subseteq IdsOf(completed) \cup pending
  <1>1. ASSUME NEW s, NEW outcome \in {"cancelled", "outOfBlocks"},
               Retire(s, outcome) \/ Drop({s}, outcome)
        PROVE  FALSE
    <2>1. [id |-> s, outcome |-> outcome] \in completed'
      BY <1>1 DEF Retire, Drop
    <2> QED
      BY <2>1 DEF Undisturbed
  <1>2. CASE Schedule
    <2>1. Between
      BY <1>2 DEF Schedule, BeginSchedule, EndDecode, EndPrefill, EndSchedule, DecodeInPlace,
                  DecodeGrow, DecodeOutOfBlocks, DecodeAt, ResumePrefill, DeferPending,
                  RejectPending, StartPrefill, PendingAt, Between
    <2>2. ASSUME NEW s \in SeqIds, ResumePrefill(s) PROVE completed' = completed
      <3>1. ~TooLarge(s)
        BY <2>2 DEF ResumePrefill, First, Inv, LoopInv, PrefillFits
      <3> QED
        BY <2>2, <3>1 DEF ResumePrefill, requestVars
    <2>3. ASSUME NEW s, DecodeOutOfBlocks(s) PROVE FALSE
      BY <1>1, <2>3 DEF DecodeOutOfBlocks
    <2>4. ASSUME NEW s \in SeqIds, RejectPending(s)
          PROVE  IdsOf(completed') \subseteq IdsOf(completed) \cup pending
      <3>1. s \in pending /\ Drop({s}, "rejected")
        BY <2>4, PendingAtFacts DEF RejectPending
      <3> QED
        BY <3>1 DEF Drop, IdsOf
    <2>5. ASSUME BeginSchedule \/ EndDecode \/ EndPrefill \/ EndSchedule
          PROVE  completed' = completed
      BY <2>5 DEF BeginSchedule, EndDecode, EndPrefill, EndSchedule, requestVars
    <2>6. ASSUME NEW s, DecodeInPlace(s) \/ DecodeGrow(s) \/ DeferPending(s) \/ StartPrefill(s)
          PROVE  completed' = completed
      BY <2>6 DEF DecodeInPlace, DecodeGrow, DeferPending, StartPrefill, requestVars
    <2> QED
      BY <1>2, <2>1, <2>2, <2>3, <2>4, <2>5, <2>6 DEF Schedule, IdsOf
  <1>3. ASSUME NEW s, FailNext(s) \/ CompleteNext(s) \/ CompleteByStopSequence(s)
        PROVE  FALSE
    BY <1>3 DEF FailNext, CompleteNext, CompleteByStopSequence, passVars, Between
  <1>4. ~EndUpdate
    BY DEF EndUpdate, Between
  <1>5. ASSUME NEW s, FailByRequestId(s) PROVE FALSE
    <2>1. pc = "idle" /\ s \in Active \cup pending /\ FailSequence(s, "cancelled")
      BY <1>5 DEF FailByRequestId, passVars, Between
    <2> QED
      BY <1>1, <2>1 DEF FailSequence
  <1>6. CASE FailPendingRequests
    BY <1>6 DEF FailPendingRequests, Drop, IdsOf, passVars, Between
  <1>7. ASSUME NEW r, AddRequest(r) PROVE Between /\ completed' = completed
    BY <1>7 DEF AddRequest, passVars, Between
  <1> QED
    BY <1>2, <1>3, <1>4, <1>5, <1>6, <1>7 DEF SchedulerStep, ClientCall, IdsOf

\* Nobody that is to be drained has a slot while the next batch is made.
DrainedInv == Undisturbed /\ Between => slots \cap IdsOf(completed) = {}

SlotsFollowInv == TinyInv /\ FairInv /\ DrainedInv

LEMMA UndisturbedBefore ==
    ASSUME completed \cup reported \subseteq completed' \cup reported', Undisturbed'
    PROVE  Undisturbed
  BY DEF Undisturbed

LEMMA DrainedStep ==
    ASSUME SlotsFollowInv, [TinyNext]_tinySpecVars
    PROVE  SlotsFollowInv'
  <1>1. TinyInv' /\ FairInv'
    BY ExecutorAssumption, TinyStep, TinyNextIsNext, FairStep
       DEF SlotsFollowInv, TinyInv, tinySpecVars
  <1> SUFFICES ASSUME Undisturbed', Between'
               PROVE  slots' \cap IdsOf(completed)' = {}
    BY <1>1 DEF SlotsFollowInv, DrainedInv
  <1>2. Inv /\ slots \cap pending = {}
    BY DEF SlotsFollowInv, TinyInv, SoundInv, SlotInv, SlotsReturned, Inv, CoreInv,
           ExactlyOnePlace, Terminal, IdsOf
  <1>3. CASE (SchedulerStep \/ ClientCall) /\ UNCHANGED tinyVars
    <2>1. Between /\ Undisturbed /\ IdsOf(completed') \subseteq IdsOf(completed) \cup pending
      BY <1>2, <1>3, OnlyWaitingEnd, TerminalGrows, UndisturbedBefore
    <2> QED
      BY <1>2, <1>3, <2>1 DEF SlotsFollowInv, DrainedInv, tinyVars
  <1>4. ~(RejectBatch \/ Run) /\ \A e \in batch : ~RejectSequence(e)
    BY DEF RejectBatch, Run, RejectSequence, ExecutionError, UpdateSequences, Between
  <1>5. CASE TinyDrain
    BY <1>5 DEF TinyDrain, TakeCompleted, IdsOf
  <1>6. CASE UNCHANGED tinySpecVars
    BY <1>6 DEF SlotsFollowInv, DrainedInv, tinySpecVars, vars, requestVars, passVars, tinyVars,
                Undisturbed, Between
  <1> QED
    BY <1>3, <1>4, <1>5, <1>6 DEF TinyNext

\* A batch the library can take finds a slot for each of its sequences, as long
\* as no request has left the scheduler between two drains.
THEOREM TinyHasSlots == TinySpec => []SlotForEveryBatch
  <1>1. Init /\ TinyInit => SlotsFollowInv
    <2> SUFFICES ASSUME Init, TinyInit PROVE DrainedInv
      BY InitTiny, InitFair DEF SlotsFollowInv
    <2> QED
      BY DEF TinyInit, DrainedInv
  <1>2. SlotsFollowInv /\ [TinyNext]_tinySpecVars => SlotsFollowInv'
    BY DrainedStep
  <1>3. SlotsFollowInv => SlotForEveryBatch
    <2> SUFFICES ASSUME SlotsFollowInv, pc = "executing", Undisturbed,
                        Cardinality(batch) <= BackendBatch, NEW e \in batch
                 PROVE  ~NoSlotFor(e)
      BY DEF SlotForEveryBatch
    <2> DEFINE A == {f \in UpTo(e) : IsNew(f)}
               B == {f \in batch : ~IsNew(f)}
    <2>1. slots \subseteq InBatch /\ slots = DOMAIN allocated
      BY DEF SlotsFollowInv, TinyInv, SlotInv, SlotsReturned, DrainedInv, FairInv, Between
    <2>2. slots = {f.id : f \in B}
      BY <2>1 DEF InBatch, IsNew
    <2>3. IsFiniteSet(batch)
      BY DEF SlotsFollowInv, TinyInv, SoundInv, Inv, BatchBounded
    <2>4. A \subseteq batch /\ B \subseteq batch /\ A \cap B = {}
      BY DEF UpTo
    <2>5. IsFiniteSet(A) /\ IsFiniteSet(B)
      BY <2>3, <2>4, FS_Subset
    <2>6. IsFiniteSet(slots) /\ Cardinality(slots) <= Cardinality(B)
      BY <2>2, <2>5, IdsCount
    <2>7. Cardinality(A \cup B) = Cardinality(A) + Cardinality(B)
      <3> HIDE DEF A, B
      <3>1. Cardinality(A \cup B) = Cardinality(A) + Cardinality(B) - Cardinality(A \cap B)
        BY <2>5, FS_Union
      <3>2. Cardinality(A \cap B) = 0
        BY <2>4, FS_EmptySet
      <3>3. Cardinality(A) \in Nat /\ Cardinality(B) \in Nat
        BY <2>5, FS_CardinalityType
      <3> QED
        BY <3>1, <3>2, <3>3
    <2>8. Cardinality(A \cup B) <= Cardinality(batch)
      BY <2>3, <2>4, FS_Subset
    <2>9. /\ {Cardinality(A), Cardinality(B), Cardinality(slots), Cardinality(batch)} \subseteq Nat
          /\ BackendBatch \in Nat
      BY <2>3, <2>5, <2>6, FS_CardinalityType, BackendBatchType
    <2> HIDE DEF A, B
    <2>10. Cardinality(slots) + Cardinality(A) <= BackendBatch
      BY <2>6, <2>7, <2>8, <2>9
    <2> QED
      BY <2>9, <2>10 DEF NoSlotFor, Asked, A
  <1> QED
    BY <1>1, <1>2, <1>3, PTL DEF TinySpec

-----------------------------------------------------------------------------
(* As long as nobody leaves between two drains, every context is complete   *)

\* What the executor will delete at the drain is nobody's by then.
ApartInv ==
    Undisturbed =>
        \A s \in DOMAIN tables \cap IdsOf(completed) :
            ~Between /\ \A t \in Active : Range(tables[s]) \cap Range(pageTables[t]) = {}

\* The context of a decoding sequence, up to the token it feeds next, is there.
OwnInv ==
    Undisturbed =>
        \A s \in decode : \A p \in 0 .. ContextLen(s) - 2 :
            BlockOf(s, p) \in DOMAIN cache /\ cache[BlockOf(s, p)][p % BlockSize] = s

KeptInv == CpuInv /\ ApartInv /\ OwnInv

\* After an execution sequences end, and nobody gets a block until the drain.
LEMMA EndedApart ==
    ASSUME Inv, SchedulerStep \/ ClientCall, ~Between
    PROVE  /\ ~Between' /\ Active' \subseteq Active
           /\ \A t \in Active' : pageTables'[t] = pageTables[t]
           /\ IdsOf(completed') \subseteq IdsOf(completed) \cup pending \cup (Active \ Active')
  <1> DEFINE Ends == /\ Active' \subseteq Active
                     /\ \A t \in Active' : pageTables'[t] = pageTables[t]
                     /\ IdsOf(completed') \subseteq
                            IdsOf(completed) \cup pending \cup (Active \ Active')
  <1>1. ASSUME NEW s \in Active, NEW outcome \in Outcomes, Retire(s, outcome) PROVE Ends
    <2>1. Active' = Active \ {s} /\ \A t \in Active' : pageTables'[t] = pageTables[t]
      BY <1>1, RetireCore DEF Inv
    <2>2. IdsOf(completed') = IdsOf(completed) \cup {s}
      BY <1>1, IdsOfOne DEF Retire
    <2> QED
      BY <1>1, <2>1, <2>2
  <1>2. ASSUME NEW s, NEW outcome \in Outcomes, FailSequence(s, outcome) PROVE Ends
    <2>1. CASE s \in pending /\ Drop({s}, outcome)
      BY <2>1 DEF Drop, IdsOf, Active, kvVars
    <2>2. CASE UNCHANGED <<kvVars, requestVars>>
      BY <2>2 DEF requestVars, IdsOf, Active, kvVars
    <2> QED
      BY <1>1, <1>2, <2>1, <2>2 DEF FailSequence
  <1>3. ~Schedule
    BY DEF Schedule, BeginSchedule, EndDecode, EndPrefill, EndSchedule, DecodeInPlace, DecodeGrow,
           DecodeOutOfBlocks, DecodeAt, ResumePrefill, DeferPending, RejectPending, StartPrefill,
           PendingAt, Between
  <1>4. ASSUME NEW s, FailNext(s) PROVE Ends /\ ~Between'
    BY <1>2, <1>4 DEF FailNext, Outcomes, passVars, Between
  <1>5. ASSUME NEW s, CompleteNext(s) \/ CompleteByStopSequence(s) PROVE Ends /\ ~Between'
    <2>1. s \in Active
      BY <1>5 DEF CompleteNext, CompleteByStopSequence, Inv, FinishInv
    <2> QED
      BY <1>1, <1>5, <2>1 DEF CompleteNext, CompleteByStopSequence, Outcomes, passVars, Between
  <1>6. CASE EndUpdate
    BY <1>6 DEF EndUpdate, requestVars, IdsOf, Active, kvVars, Between
  <1>7. ASSUME NEW s, FailByRequestId(s) PROVE Ends /\ ~Between'
    BY <1>1, <1>7 DEF FailByRequestId, Outcomes, passVars, Between
  <1>8. ~FailPendingRequests
    BY DEF FailPendingRequests, Between
  <1>9. ASSUME NEW r, AddRequest(r) PROVE Ends /\ ~Between'
    BY <1>9 DEF AddRequest, passVars, IdsOf, Active, kvVars, Between
  <1> QED
    BY <1>3, <1>4, <1>5, <1>6, <1>7, <1>8, <1>9 DEF SchedulerStep, ClientCall

LEMMA QuietApart ==
    ASSUME KeptInv, SchedulerStep \/ ClientCall, UNCHANGED cpuVars
    PROVE  ApartInv'
  <1> SUFFICES ASSUME Undisturbed', NEW s \in DOMAIN tables, s \in IdsOf(completed)'
               PROVE  /\ ~Between'
                      /\ \A t \in Active' : Range(tables[s]) \cap Range(pageTables'[t]) = {}
    BY DEF ApartInv, cpuVars
  <1>1. Inv /\ Undisturbed
    BY TerminalGrows, UndisturbedBefore DEF KeptInv, CpuInv, SoundInv
  <1>2. s \notin pending
    BY <1>1 DEF KeptInv, CpuInv, FollowInv, NothingLeaks, Inv, CoreInv, ExactlyOnePlace, Terminal,
                IdsOf
  <1>3. ~Between
    BY <1>1, <1>2, OnlyWaitingEnd DEF KeptInv, ApartInv
  <1>4. /\ ~Between' /\ Active' \subseteq Active
        /\ \A t \in Active' : pageTables'[t] = pageTables[t]
        /\ s \in IdsOf(completed) \/ s \in Active \ Active'
    BY <1>1, <1>2, <1>3, EndedApart
  <1>5. CASE s \in IdsOf(completed)
    BY <1>1, <1>4, <1>5 DEF KeptInv, ApartInv
  <1>6. ASSUME s \in Active \ Active', NEW t \in Active'
        PROVE  Range(tables[s]) \cap Range(pageTables'[t]) = {}
    <2>1. Range(tables[s]) \subseteq Range(pageTables[s])
      BY <1>6 DEF KeptInv, CpuInv, FollowInv
    <2>2. s \in Live /\ t \in Live /\ s # t /\ pageTables'[t] = pageTables[t]
      BY <1>1, <1>4, <1>6 DEF Inv, CoreInv, TablesMatchActive
    <2>3. Range(pageTables[s]) \cap Range(pageTables[t]) = {}
      BY <1>1, <2>2 DEF Inv, CoreInv, KVInv, OwnedOnce
    <2> QED
      BY <2>1, <2>2, <2>3
  <1> QED
    BY <1>4, <1>5, <1>6

\* An execution records tables of active sequences only.
LEMMA RecordApart ==
    ASSUME KeptInv, pc = "executing", NEW entries, entries \subseteq batch, Record(entries),
           UNCHANGED <<completed, reported>>
    PROVE  ApartInv'
  <1> SUFFICES ASSUME Undisturbed', NEW s \in DOMAIN tables', s \in IdsOf(completed) PROVE FALSE
    BY DEF ApartInv, IdsOf
  <1>1. Undisturbed /\ Between
    BY DEF Undisturbed, Between
  <1>2. s \in {e.id : e \in entries}
    BY <1>1 DEF KeptInv, ApartInv, Record
  <1>3. s \in Active
    BY <1>2 DEF KeptInv, CpuInv, SoundInv, BatchInv, InPass, Current
  <1> QED
    BY <1>3 DEF KeptInv, CpuInv, SoundInv, Inv, CoreInv, ExactlyOnePlace, Terminal, IdsOf

LEMMA SteadyOwn ==
    ASSUME KeptInv, Undisturbed' => Undisturbed, Steady, UNCHANGED cache
    PROVE  OwnInv'
  <1> SUFFICES ASSUME Undisturbed', NEW s \in decode', NEW p \in 0 .. ContextLen(s)' - 2
               PROVE  /\ BlockOf(s, p)' \in DOMAIN cache
                      /\ cache[BlockOf(s, p)'][p % BlockSize] = s
    BY DEF OwnInv
  <1>1. s \in decode /\ p \in 0 .. ContextLen(s) - 2 /\ BlockOf(s, p)' = BlockOf(s, p)
    BY SteadyContext DEF KeptInv, CpuInv
  <1> QED
    BY <1>1 DEF KeptInv, OwnInv

\* What an execution leaves of the context there was.
LEMMA WrittenOwn ==
    ASSUME KeptInv, Undisturbed, pc = "executing", NEW entries, entries \subseteq batch,
           Write(entries), NEW s \in decode, NEW p \in 0 .. ContextLen(s) - 2
    PROVE  BlockOf(s, p) \in DOMAIN cache' /\ cache'[BlockOf(s, p)][p % BlockSize] = s
  <1> DEFINE b == BlockOf(s, p)
             o == p % BlockSize
  <1>1. b \in DOMAIN cache /\ cache[b][o] = s
    BY DEF KeptInv, OwnInv
  <1>2. b \in DOMAIN cache'
    BY <1>1 DEF Write
  <1>3. s \in Active /\ b \in Range(pageTables[s]) /\ o \in 0 .. BlockSize - 1
    BY ContextPosition DEF KeptInv, CpuInv
  <1>4. cache'[b][o] \in {s, IF b \in DOMAIN cache THEN cache[b][o] ELSE Nobody}
    BY <1>2, <1>3, SlotOfOwner DEF KeptInv, CpuInv
  <1> QED
    BY <1>1, <1>2, <1>4

\* A sequence in the batch finds all of its context once it has written.
LEMMA AttendedIsOwn ==
    ASSUME KeptInv, Undisturbed, pc = "executing", Write(batch),
           NEW e \in batch, NEW p \in Attended(e)
    PROVE  /\ BlockOf(e.id, p) \in DOMAIN cache'
           /\ cache'[BlockOf(e.id, p)][p % BlockSize] = e.id
  <1> DEFINE s == e.id
             b == BlockOf(s, p)
             o == p % BlockSize
  <1>1. /\ s \in Active /\ BlockAt(e, p) = b
        /\ b \in Range(pageTables[s]) /\ o \in 0 .. BlockSize - 1
        /\ p \in Positions(e) \/ (s \in decode /\ p \in 0 .. ContextLen(s) - 2)
    BY AttendedPosition DEF KeptInv, CpuInv
  <1>2. CASE p \in Positions(e)
    <2>1. b \in DOMAIN cache'
      BY <1>1, <1>2 DEF Write, WritesTo
    <2> QED
      BY <1>1, <1>2, <2>1, SlotOfOwner DEF KeptInv, CpuInv
  <1>3. CASE s \in decode /\ p \in 0 .. ContextLen(s) - 2
    BY <1>3, WrittenOwn
  <1> QED
    BY <1>1, <1>2, <1>3

LEMMA ExecutedOwn ==
    ASSUME KeptInv, CpuExecute
    PROVE  OwnInv'
  <1>1. /\ SoundInv /\ pc = "executing" /\ Write(batch)
        /\ UNCHANGED <<completed, reported>>
    BY DEF KeptInv, CpuInv, CpuExecute, UpdateSequences
  <1> SUFFICES ASSUME Undisturbed', NEW s \in decode', NEW p \in 0 .. ContextLen(s)' - 2
               PROVE  /\ BlockOf(s, p)' \in DOMAIN cache'
                      /\ cache'[BlockOf(s, p)'][p % BlockSize] = s
    BY DEF OwnInv
  <1>2. Undisturbed
    BY <1>1 DEF Undisturbed
  <1>3. /\ BlockOf(s, p)' = BlockOf(s, p)
        /\ \/ \E e \in batch : e.id = s /\ p \in Attended(e)
           \/ s \in decode /\ p \in 0 .. ContextLen(s) - 2
    BY <1>1, ExecutedContext
  <1>4. ASSUME NEW e \in batch, e.id = s, p \in Attended(e)
        PROVE  BlockOf(s, p) \in DOMAIN cache' /\ cache'[BlockOf(s, p)][p % BlockSize] = s
    BY <1>1, <1>2, <1>4, AttendedIsOwn
  <1>5. ASSUME s \in decode, p \in 0 .. ContextLen(s) - 2
        PROVE  BlockOf(s, p) \in DOMAIN cache' /\ cache'[BlockOf(s, p)][p % BlockSize] = s
    BY <1>1, <1>2, <1>5, WrittenOwn
  <1> QED
    BY <1>3, <1>4, <1>5

LEMMA FailedOwn ==
    ASSUME KeptInv, NEW e \in batch, CpuExecuteFails(e)
    PROVE  OwnInv'
  <1> DEFINE reached == {f \in batch : f.isPrefill \/ ~Before(e.id, f.id)}
  <1>1. pc = "executing" /\ Write(reached)
    BY DEF CpuExecuteFails, ExecutionError
  <1>2. UNCHANGED <<pageTables, request, decode, generated, completed, reported>>
    BY DEF CpuExecuteFails, ExecutionError, kvVars, requestVars
  <1> SUFFICES ASSUME Undisturbed, NEW s \in decode, NEW p \in 0 .. ContextLen(s) - 2
               PROVE  BlockOf(s, p) \in DOMAIN cache' /\ cache'[BlockOf(s, p)][p % BlockSize] = s
    BY <1>2 DEF OwnInv, Undisturbed, BlockOf, ContextLen, Prompt
  <1> QED
    BY <1>1, WrittenOwn

\* The drain deletes blocks of nobody.
LEMMA DrainOwn ==
    ASSUME KeptInv, CpuDrain
    PROVE  OwnInv' /\ ApartInv'
  <1> DEFINE gone == UNION {Range(tables[s]) : s \in IdsOf(completed) \cap DOMAIN tables}
  <1>1. /\ UNCHANGED <<pageTables, request, decode, generated>>
        /\ completed' = {} /\ reported' = reported \cup completed
    BY DEF CpuDrain, TakeCompleted, kvVars
  <1>2. cache' = [b \in DOMAIN cache \ gone |-> cache[b]]
    BY DEF CpuDrain, CpuSequencesFinished, Restrict
  <1>3. ApartInv'
    BY <1>1 DEF ApartInv, IdsOf
  <1>4. ASSUME Undisturbed, NEW s \in decode, NEW p \in 0 .. ContextLen(s) - 2
        PROVE  BlockOf(s, p) \in DOMAIN cache' /\ cache'[BlockOf(s, p)][p % BlockSize] = s
    <2>1. s \in Active /\ BlockOf(s, p) \in Range(pageTables[s])
      BY <1>4, ContextPosition DEF KeptInv, CpuInv
    <2>2. BlockOf(s, p) \notin gone
      BY <1>4, <2>1 DEF KeptInv, ApartInv
    <2> QED
      BY <1>2, <1>4, <2>2 DEF KeptInv, OwnInv
  <1>5. Undisturbed' => Undisturbed
    BY <1>1 DEF Undisturbed
  <1> QED
    BY <1>1, <1>3, <1>4, <1>5 DEF OwnInv, BlockOf, ContextLen, Prompt

LEMMA KeptStep ==
    ASSUME KeptInv, [CpuNext]_cpuSpecVars
    PROVE  KeptInv'
  <1>1. CpuInv'
    BY CpuStep DEF KeptInv
  <1> SUFFICES ApartInv' /\ OwnInv'
    BY <1>1 DEF KeptInv
  <1>2. CASE (SchedulerStep \/ ClientCall) /\ UNCHANGED cpuVars
    <2>1. Inv
      BY DEF KeptInv, CpuInv, SoundInv
    <2>2. Steady /\ UNCHANGED cache
      BY <1>2, <2>1, SchedulerStepSteady, ClientCallSteady DEF cpuVars
    <2>3. Undisturbed' => Undisturbed
      BY <1>2, <2>1, TerminalGrows, UndisturbedBefore
    <2> QED
      BY <1>2, <2>2, <2>3, QuietApart, SteadyOwn
  <1>3. CASE CpuExecute
    <2>1. pc = "executing" /\ Record(batch) /\ UNCHANGED <<completed, reported>>
      BY <1>3 DEF CpuExecute, UpdateSequences
    <2> QED
      BY <1>3, <2>1, RecordApart, ExecutedOwn
  <1>4. ASSUME NEW e \in batch, CpuExecuteFails(e) PROVE ApartInv' /\ OwnInv'
    <2> DEFINE reached == {f \in batch : f.isPrefill \/ ~Before(e.id, f.id)}
    <2>1. pc = "executing" /\ Record(reached) /\ UNCHANGED <<completed, reported>>
      BY <1>4 DEF CpuExecuteFails, ExecutionError, requestVars
    <2> QED
      BY <1>4, <2>1, RecordApart, FailedOwn
  <1>5. CASE CpuDrain
    BY <1>5, DrainOwn
  <1>6. CASE UNCHANGED cpuSpecVars
    <2>1. Steady /\ UNCHANGED cache
      BY <1>6, QuietSteady DEF cpuSpecVars, vars, requestVars, cpuVars
    <2>2. (Undisturbed' => Undisturbed) /\ ApartInv'
      BY <1>6 DEF KeptInv, ApartInv, Undisturbed, Between, cpuSpecVars, vars, requestVars,
                  passVars, kvVars, cpuVars, IdsOf, Active
    <2> QED
      BY <2>1, <2>2, SteadyOwn
  <1> QED
    BY <1>2, <1>3, <1>4, <1>5, <1>6 DEF CpuNext

\* Over the reference executor every decode step attends to the whole context
\* of its own sequence, as long as no request has left the scheduler by a
\* cancel or for want of blocks.
THEOREM CpuReadsItsContext == BackendsSpec => []CpuReadsOwnWrites
  <1> DEFINE OverCpu == backend = "cpu" => KeptInv
  <1>1. BackendsInit => OverCpu
    <2> SUFFICES ASSUME Init, CpuInit PROVE ApartInv /\ OwnInv
      BY InitCpu DEF BackendsInit, KeptInv
    <2> QED
      BY DEF Init, CpuInit, ApartInv, OwnInv
  <1>2. OverCpu /\ [BackendsNext]_backendsVars => OverCpu'
    <2> SUFFICES ASSUME OverCpu, [BackendsNext]_backendsVars, backend' = "cpu" PROVE KeptInv'
      OBVIOUS
    <2>1. backend = "cpu" /\ [CpuNext]_cpuSpecVars
      BY DEF BackendsNext, backendsVars, cpuSpecVars
    <2> QED
      BY <2>1, KeptStep
  <1>3. OverCpu => CpuReadsOwnWrites
    <2> SUFFICES ASSUME KeptInv, pc = "executing", Undisturbed,
                        NEW e \in batch, NEW p \in ReadOnly(e)
                 PROVE  Found(e, p) = e.id
      BY DEF CpuReadsOwnWrites, ReadsOwnWrites
    <2>1. /\ BlockAt(e, p) = BlockOf(e.id, p)
          /\ e.id \in decode /\ p \in 0 .. ContextLen(e.id) - 2
      BY AttendedPosition DEF ReadOnly, KeptInv, CpuInv
    <2> QED
      BY <2>1 DEF KeptInv, OwnInv, Found
  <1> QED
    BY <1>1, <1>2, <1>3, PTL DEF BackendsSpec

=============================================================================
