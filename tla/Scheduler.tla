----------------------------- MODULE Scheduler -----------------------------
(***************************************************************************)
(* The continuous-batching scheduler of src/scheduler.rs, driven as the    *)
(* engine's step drives it: schedule(), execution of the batch, then       *)
(* update_sequences() or fail_sequences(), then the drain of the terminal  *)
(* requests.  The loops inside these calls are unfolded into one action    *)
(* per iteration, with pc naming the loop; since every call takes &mut     *)
(* self, no other call is enabled in the middle of a pass.                 *)
(*                                                                         *)
(* A request is known by its sequence id, the order of its submission.     *)
(* The contents of tokens are abstracted to what the scheduler tells       *)
(* apart: an ordinary token, the end-of-sequence token, a missing one.     *)
(***************************************************************************)
EXTENDS KVCache

CONSTANTS
    MaxBatchSize,       \* max_batch_size: sequences in a batch
    MaxTotalTokens,     \* max_total_tokens: tokens in a batch
    MaxNumSeqs,         \* max_num_seqs: waiting and active sequences
    MaxModelLen,        \* max_model_len
    ThresholdNum,       \* memory_threshold, the fraction
    ThresholdDen,       \*   ThresholdNum / ThresholdDen
    Requests,           \* the requests a client may submit
    PartialOutputs      \* may an execution output differ from its batch?

ASSUME SchedulerAssumption ==
    /\ {MaxBatchSize, MaxTotalTokens, MaxNumSeqs, MaxModelLen} \subseteq Nat \ {0}
    /\ {ThresholdNum, ThresholdDen} \subseteq Nat \ {0}
    /\ ThresholdNum <= ThresholdDen
    /\ Requests \subseteq [prompt : Nat \ {0}, maxTokens : Nat \ {0}, priority : Int]
    /\ PartialOutputs \in BOOLEAN

VARIABLES
    request,        \* the requests admitted so far, indexed by sequence id
    pending,        \* pending_queue
    prefill,        \* prefill_sequences
    decode,         \* decode_sequences
    logicalBlocks,  \* Sequence::logical_blocks of the active sequences
    generated,      \* Sequence::num_generated_tokens of the active sequences
    completed,      \* completed_requests: terminal, not drained yet
    reported,       \* what the engine has drained from it
    underPressure,  \* under_memory_pressure
    pc,             \* the loop the current step is in
    todo,           \* the ids the loop has still to visit
    batch,          \* SchedulerOutput: snapshots of the scheduled sequences
    totalTokens,    \* SchedulerOutput::total_tokens
    started,        \* the prefills that the latest pass has started
    toFail,         \* update_sequences: to_fail
    toComplete      \* update_sequences: to_complete

passVars == <<pc, todo, batch, totalTokens, started>>
updateVars == <<toFail, toComplete>>
requestVars == <<request, pending, prefill, decode, logicalBlocks, generated,
                 completed, reported, underPressure>>
vars == <<kvVars, requestVars, passVars, updateVars>>

Submitted == DOMAIN request

Active == prefill \cup decode

Prompt(s) == request[s].prompt

\* Sequence::context_len
ContextLen(s) == Prompt(s) + generated[s]

InBatch == {e.id : e \in batch}

\* The loops visit priority descending, then submission order.
Before(s, t) ==
    \/ request[s].priority > request[t].priority
    \/ request[s].priority = request[t].priority /\ s < t

\* Faulty: the sort before the scan is missing.
FirstUnsorted(s) == s \in todo

First(s) == s \in todo /\ \A t \in todo \ {s} : Before(s, t)

\* (total_blocks * memory_threshold).floor()
Watermark == (NumBlocks * ThresholdNum) \div ThresholdDen

\* update_memory_pressure: utilization >= memory_threshold (an empty pool has
\* utilization 0)
HighUtilization ==
    NumBlocks > 0 /\ NumUsedBlocks * ThresholdDen >= NumBlocks * ThresholdNum

\* The snapshot of a sequence that the batch keeps.
Snapshot(s, blocks) ==
    [id |-> s, isPrefill |-> s \notin decode, blocks |-> blocks,
     context |-> ContextLen(s)]

HasRoom == Cardinality(batch) < MaxBatchSize

\* Faulty: off by one.
FitsTokensOffByOne(n) == totalTokens + n <= MaxTotalTokens + 1

FitsTokens(n) == totalTokens + n <= MaxTotalTokens

Join(s, blocks, tokens) ==
    /\ batch' = batch \cup {Snapshot(s, blocks)}
    /\ totalTokens' = totalTokens + tokens

-----------------------------------------------------------------------------
(* Admission                                                               *)

Init ==
    /\ KVInit
    /\ request = <<>>
    /\ pending = {} /\ prefill = {} /\ decode = {}
    /\ logicalBlocks = [s \in SeqIds |-> <<>>]
    /\ generated = [s \in SeqIds |-> 0]
    /\ completed = {} /\ reported = {}
    /\ underPressure = FALSE
    /\ pc = "idle" /\ todo = {} /\ batch = {} /\ totalTokens = 0 /\ started = {}
    /\ toFail = {} /\ toComplete = {}

\* add_request.  A refused request leaves nothing behind but the pressure
\* flag, which the next pass computes again before it reads it.
AddRequest(r) ==
    LET s == Len(request) + 1
    IN  /\ pc = "idle"
        /\ s \in SeqIds
        /\ ~HighUtilization
        /\ Cardinality(pending) + Cardinality(prefill) + Cardinality(decode) < MaxNumSeqs
        /\ request' = Append(request, r)
        /\ pending' = pending \cup {s}
        /\ underPressure' = FALSE
        /\ UNCHANGED <<kvVars, prefill, decode, logicalBlocks, generated, completed,
                       reported, passVars, updateVars>>

-----------------------------------------------------------------------------
(* Leaving the scheduler                                                   *)

\* Faulty: free_sequence is not called.
RetireWithoutFree(s, outcome) ==
    /\ prefill' = prefill \ {s}
    /\ decode' = decode \ {s}
    /\ logicalBlocks' = [logicalBlocks EXCEPT ![s] = <<>>]
    /\ generated' = [generated EXCEPT ![s] = 0]
    /\ completed' = completed \cup {[id |-> s, outcome |-> outcome]}
    /\ UNCHANGED <<kvVars, request, pending, reported, underPressure>>

\* complete_sequence or fail_sequence on an active sequence: its blocks go
\* back and it joins the terminal requests.
Retire(s, outcome) ==
    /\ FreeSequence(s)
    /\ prefill' = prefill \ {s}
    /\ decode' = decode \ {s}
    /\ logicalBlocks' = [logicalBlocks EXCEPT ![s] = <<>>]
    /\ generated' = [generated EXCEPT ![s] = 0]
    /\ completed' = completed \cup {[id |-> s, outcome |-> outcome]}
    /\ UNCHANGED <<request, pending, reported, underPressure>>

\* Faulty: the requests stay in the queue.
DropWithoutRemove(waiting, outcome) ==
    /\ pending' = pending
    /\ completed' = completed \cup {[id |-> w, outcome |-> outcome] : w \in waiting}
    /\ UNCHANGED <<kvVars, request, prefill, decode, logicalBlocks, generated,
                   reported, underPressure>>

\* A set of waiting requests becomes terminal.
Drop(waiting, outcome) ==
    /\ pending' = pending \ waiting
    /\ completed' = completed \cup {[id |-> w, outcome |-> outcome] : w \in waiting}
    /\ UNCHANGED <<kvVars, request, prefill, decode, logicalBlocks, generated,
                   reported, underPressure>>

\* fail_sequence: in whichever of the three collections the id is, if any.
FailSequence(s, outcome) ==
    \/ s \in Active /\ Retire(s, outcome)
    \/ s \in pending /\ Drop({s}, outcome)
    \/ s \notin Active \cup pending /\ UNCHANGED <<kvVars, requestVars>>

-----------------------------------------------------------------------------
(* schedule(), part 1: every decode sequence, grown by a block if need be  *)

\* Faulty: the token count of the previous pass is not reset.
BeginScheduleWithoutReset ==
    /\ pc = "idle"
    /\ pc' = "decode"
    /\ todo' = decode
    /\ batch' = {}
    /\ underPressure' = HighUtilization
    /\ UNCHANGED <<kvVars, request, pending, prefill, decode, logicalBlocks, generated,
                   completed, reported, started, totalTokens, updateVars>>

BeginSchedule ==
    /\ pc = "idle"
    /\ pc' = "decode"
    /\ todo' = decode
    /\ batch' = {}
    /\ totalTokens' = 0
    /\ underPressure' = HighUtilization
    /\ UNCHANGED <<kvVars, request, pending, prefill, decode, logicalBlocks, generated,
                   completed, reported, started, updateVars>>

\* grow_decode_sequence: does the sequence need one more block for this step?
NeedsBlock(s) == BlocksForTokens(ContextLen(s) + 1) > Len(logicalBlocks[s])

\* The loop is at s, and neither of its break conditions holds.
DecodeAt(s) ==
    /\ pc = "decode"
    /\ First(s)
    /\ HasRoom
    /\ FitsTokens(1)
    /\ todo' = todo \ {s}
    /\ UNCHANGED <<pc, started, updateVars>>

DecodeInPlace(s) ==
    /\ DecodeAt(s)
    /\ ~NeedsBlock(s)
    /\ Join(s, logicalBlocks[s], 1)
    /\ UNCHANGED <<kvVars, requestVars>>

\* Faulty: the snapshot is taken before the growth.
DecodeGrowStale(s) ==
    /\ DecodeAt(s)
    /\ NeedsBlock(s)
    /\ AllocateBlock(s)
    /\ logicalBlocks' = [logicalBlocks EXCEPT ![s] = Append(@, Head(freeList))]
    /\ Join(s, logicalBlocks[s], 1)
    /\ UNCHANGED <<request, pending, prefill, decode, generated, completed, reported,
                   underPressure>>

DecodeGrow(s) ==
    /\ DecodeAt(s)
    /\ NeedsBlock(s)
    /\ AllocateBlock(s)
    /\ logicalBlocks' = [logicalBlocks EXCEPT ![s] = Append(@, Head(freeList))]
    /\ Join(s, logicalBlocks'[s], 1)
    /\ UNCHANGED <<request, pending, prefill, decode, generated, completed, reported,
                   underPressure>>

\* Faulty: a sequence that cannot grow is put back into the queue.
DecodeOutOfBlocksRequeueing(s) ==
    /\ DecodeAt(s)
    /\ NeedsBlock(s)
    /\ ~CanAllocate(1)
    /\ FreeSequence(s)
    /\ decode' = decode \ {s}
    /\ pending' = pending \cup {s}
    /\ logicalBlocks' = [logicalBlocks EXCEPT ![s] = <<>>]
    /\ generated' = [generated EXCEPT ![s] = 0]
    /\ UNCHANGED <<batch, totalTokens, request, prefill, completed, reported,
                   underPressure>>

DecodeOutOfBlocks(s) ==
    /\ DecodeAt(s)
    /\ NeedsBlock(s)
    /\ ~CanAllocate(1)
    /\ Retire(s, "outOfBlocks")
    /\ UNCHANGED <<batch, totalTokens>>

\* The list is exhausted, or a break.
EndDecode ==
    /\ pc = "decode"
    /\ HasRoom /\ FitsTokens(1) => todo = {}
    /\ pc' = "prefill"
    /\ todo' = prefill
    /\ started' = {}
    /\ UNCHANGED <<kvVars, requestVars, batch, totalTokens, updateVars>>

-----------------------------------------------------------------------------
(* schedule(), part 2: prefills of an earlier pass still waiting to run    *)

\* The two bounds no other request can ever lift.
TooLarge(s) ==
    \/ Prompt(s) > MaxTotalTokens
    \/ BlocksForTokens(Prompt(s)) > NumBlocks

\* A prefill that could never run fails; one that does not fit now is passed
\* over and stays.
ResumePrefill(s) ==
    /\ pc = "prefill"
    /\ First(s)
    /\ HasRoom
    /\ todo' = todo \ {s}
    /\ IF TooLarge(s)
       THEN Retire(s, "rejected") /\ UNCHANGED <<batch, totalTokens>>
       ELSE /\ IF FitsTokens(Prompt(s))
               THEN Join(s, logicalBlocks[s], Prompt(s))
               ELSE UNCHANGED <<batch, totalTokens>>
            /\ UNCHANGED <<kvVars, requestVars>>
    /\ UNCHANGED <<pc, started, updateVars>>

EndPrefill ==
    /\ pc = "prefill"
    /\ HasRoom => todo = {}
    /\ pc' = "pending"
    /\ todo' = IF underPressure THEN {} ELSE pending
    /\ UNCHANGED <<kvVars, requestVars, batch, totalTokens, started, updateVars>>

-----------------------------------------------------------------------------
(* schedule(), part 3: one scan of the waiting requests                    *)

\* prefill_needs_decode_reserve: will the first decode step need a block?
NeedsReserve(tokens) == BlocksForTokens(tokens + 2) > BlocksForTokens(tokens)

\* Faulty: counts the blocks that this step needs, one token too early.
GrowthReserveOfThisStep ==
    Cardinality({s \in Active :
        BlocksForTokens(ContextLen(s) + 1) > Len(logicalBlocks[s])})

\* next_step_growth_reserve: the active sequences that will need a block at
\* the pass after this one.
GrowthReserve ==
    Cardinality({s \in Active :
        BlocksForTokens(ContextLen(s) + 2) > Len(logicalBlocks[s])})

\* has_prefill_budget: the blocks in use stay under the watermark, and what is
\* left (free_blocks.saturating_sub) covers the growth of the next pass.
HasPrefillBudget(tokens) ==
    LET needed  == BlocksForTokens(tokens)
        reserve == GrowthReserve + (IF NeedsReserve(tokens) THEN 1 ELSE 0)
        left    == IF NumFreeBlocks >= needed THEN NumFreeBlocks - needed ELSE 0
    IN  /\ NumUsedBlocks + needed <= Watermark
        /\ left >= reserve

\* Faulty: compares with the whole pool.
OverPool(s) == BlocksForTokens(Prompt(s)) > NumBlocks

OverWatermark(s) == BlocksForTokens(Prompt(s)) > Watermark

\* The scan is at s.
PendingAt(s) ==
    /\ pc = "pending"
    /\ First(s)
    /\ todo' = todo \ {s}
    /\ UNCHANGED <<pc, updateVars>>

\* Pushed back: the batch is full, the tokens or the blocks are short now.
DeferPending(s) ==
    /\ PendingAt(s)
    /\ \/ ~HasRoom
       \/ /\ ~TooLarge(s)
          /\ \/ ~FitsTokens(Prompt(s))
             \/ ~OverWatermark(s) /\ ~HasPrefillBudget(Prompt(s))
    /\ UNCHANGED <<kvVars, requestVars, batch, totalTokens, started>>

\* Failed at once: no amount of waiting would help.
RejectPending(s) ==
    /\ PendingAt(s)
    /\ HasRoom
    /\ TooLarge(s) \/ (FitsTokens(Prompt(s)) /\ OverWatermark(s))
    /\ Drop({s}, "rejected")
    /\ UNCHANGED <<batch, totalTokens, started>>

\* try_start_prefill, then into the batch.
StartPrefill(s) ==
    /\ PendingAt(s)
    /\ HasRoom
    /\ ~TooLarge(s) /\ FitsTokens(Prompt(s)) /\ ~OverWatermark(s)
    /\ HasPrefillBudget(Prompt(s))
    /\ AllocateSequence(s, Prompt(s))
    /\ pending' = pending \ {s}
    /\ prefill' = prefill \cup {s}
    /\ logicalBlocks' = [logicalBlocks EXCEPT ![s] = pageTables'[s]]
    /\ started' = started \cup {s}
    /\ Join(s, pageTables'[s], Prompt(s))
    /\ UNCHANGED <<request, decode, generated, completed, reported, underPressure>>

\* An empty batch is not executed.
EndSchedule ==
    /\ pc = "pending"
    /\ todo = {}
    /\ pc' = IF batch = {} THEN "collecting" ELSE "executing"
    /\ UNCHANGED <<kvVars, requestVars, todo, batch, totalTokens, started, updateVars>>

-----------------------------------------------------------------------------
(* Execution and update_sequences                                          *)

\* What an execution may return: for every id a token, or "missing" when
\* next_tokens is shorter than seq_ids.  The pipeline lets only complete
\* outputs through; the scheduler itself tolerates any.
Outputs ==
    IF PartialOutputs
    THEN UNION {[ids -> {"word", "eos", "missing"}] : ids \in SUBSET SeqIds}
    ELSE [InBatch -> {"word", "eos"}]

\* request.total_tokens() >= max_model_len || request.is_complete(eos)
Finished(s, token) ==
    \/ ContextLen(s) + 1 >= MaxModelLen
    \/ generated[s] + 1 >= request[s].maxTokens
    \/ token = "eos"

\* The loop of update_sequences over a successful output.  Its iterations
\* touch different sequences, so they are one action.
UpdateSequences(output) ==
    LET advanced == {s \in DOMAIN output \cap Active : output[s] # "missing"}
    IN  /\ pc = "executing"
        /\ pc' = "finishing"
        /\ prefill' = prefill \ advanced
        /\ decode' = decode \cup advanced
        /\ generated' = [s \in SeqIds |-> generated[s] + (IF s \in advanced THEN 1 ELSE 0)]
        /\ toComplete' = {s \in advanced : Finished(s, output[s])}
        /\ toFail' = DOMAIN output \ advanced
        /\ UNCHANGED <<kvVars, request, pending, logicalBlocks, completed, reported,
                       underPressure, todo, batch, totalTokens, started>>

\* Faulty: the batch of a failed execution is scheduled again.
ExecutionErrorRetried ==
    /\ pc = "executing"
    /\ pc' = "finishing"
    /\ UNCHANGED <<kvVars, requestVars, todo, batch, totalTokens, started, updateVars>>

\* The execution failed: fail_sequences on the whole batch.
ExecutionError ==
    /\ pc = "executing"
    /\ pc' = "finishing"
    /\ toFail' = InBatch
    /\ UNCHANGED <<kvVars, requestVars, todo, batch, totalTokens, started, toComplete>>

FailNext(s) ==
    /\ pc = "finishing"
    /\ s \in toFail
    /\ toFail' = toFail \ {s}
    /\ FailSequence(s, "execution")
    /\ UNCHANGED <<passVars, toComplete>>

\* complete_sequence, after all the failures.
CompleteNext(s) ==
    /\ pc = "finishing"
    /\ toFail = {}
    /\ s \in toComplete
    /\ toComplete' = toComplete \ {s}
    /\ Retire(s, "completed")
    /\ UNCHANGED <<passVars, toFail>>

EndUpdate ==
    /\ pc = "finishing"
    /\ toFail = {} /\ toComplete = {}
    /\ pc' = "collecting"
    /\ UNCHANGED <<kvVars, requestVars, todo, batch, totalTokens, started, updateVars>>

-----------------------------------------------------------------------------
(* The rest of the interface                                               *)

\* complete_by_stop_sequence: the engine found a stop sequence in the output
\* of an active request, after the update and before the drain.
CompleteByStopSequence(s) ==
    /\ pc = "collecting"
    /\ s \in Active
    /\ Retire(s, "stopped")
    /\ UNCHANGED <<passVars, updateVars>>

\* cancel_by_request_id between two steps; fail_by_request_id after an update,
\* when the new token of s could not be decoded.
FailByRequestId(s) ==
    /\ \/ pc = "idle" /\ s \in Active \cup pending /\ FailSequence(s, "cancelled")
       \/ pc = "collecting" /\ s \in Active /\ Retire(s, "undecodable")
    /\ UNCHANGED <<passVars, updateVars>>

\* fail_pending_requests: the caller saw no progress for too long.
FailPendingRequests ==
    /\ pc = "idle"
    /\ pending # {}
    /\ Active = {}
    /\ Drop(pending, "stalled")
    /\ UNCHANGED <<passVars, updateVars>>

\* take_completed_with_seq_ids, the end of every engine step; the step's
\* SchedulerOutput is gone with it.
TakeCompleted ==
    /\ pc = "collecting"
    /\ pc' = "idle"
    /\ reported' = reported \cup completed
    /\ completed' = {}
    /\ batch' = {}
    /\ UNCHANGED <<kvVars, request, pending, prefill, decode, logicalBlocks, generated,
                   underPressure, todo, totalTokens, started, updateVars>>

-----------------------------------------------------------------------------
Schedule ==
    \/ BeginSchedule
    \/ \E s \in SeqIds :
          \/ DecodeInPlace(s) \/ DecodeGrow(s) \/ DecodeOutOfBlocks(s)
          \/ ResumePrefill(s)
          \/ DeferPending(s) \/ RejectPending(s) \/ StartPrefill(s)
    \/ EndDecode \/ EndPrefill \/ EndSchedule

Update ==
    \/ \E output \in Outputs : UpdateSequences(output)
    \/ ExecutionError
    \/ \E s \in SeqIds : FailNext(s) \/ CompleteNext(s)
    \/ EndUpdate

\* What the driver of the scheduler does by itself, over and over.
Step == Schedule \/ Update \/ TakeCompleted

\* What clients and the engine may add.
Call ==
    \/ \E r \in Requests : AddRequest(r)
    \/ \E s \in SeqIds : CompleteByStopSequence(s) \/ FailByRequestId(s)
    \/ FailPendingRequests

Next == Step \/ Call

Spec == Init /\ [][Next]_vars

\* The driver's loop never stops by itself.
FairSpec == Spec /\ WF_vars(Step)
-----------------------------------------------------------------------------
(* Properties                                                              *)

IdsOf(terminal) == {c.id : c \in terminal}

Outcomes == {"completed", "stopped", "rejected", "outOfBlocks", "execution",
             "cancelled", "undecodable", "stalled"}

Phases == {"idle", "decode", "prefill", "pending", "executing", "finishing", "collecting"}

\* The type of the scheduler's state, with the two bounds of a batch: never
\* more than max_batch_size sequences or max_total_tokens tokens.
TypeOK ==
    /\ KVTypeOK
    /\ request \in Seq(Requests) /\ Submitted \subseteq SeqIds
    /\ pending \subseteq SeqIds /\ prefill \subseteq SeqIds /\ decode \subseteq SeqIds
    /\ logicalBlocks \in [SeqIds -> Seq(Blocks)]
    /\ generated \in [SeqIds -> Nat]
    /\ completed \subseteq [id : SeqIds, outcome : Outcomes]
    /\ reported \subseteq [id : SeqIds, outcome : Outcomes]
    /\ underPressure \in BOOLEAN
    /\ pc \in Phases
    /\ todo \subseteq SeqIds
    /\ batch \subseteq [id : SeqIds, isPrefill : BOOLEAN, blocks : Seq(Blocks),
                        context : Nat]
    /\ Cardinality(batch) <= MaxBatchSize
    /\ totalTokens \in 0 .. MaxTotalTokens
    /\ started \subseteq SeqIds
    /\ toFail \subseteq SeqIds /\ toComplete \subseteq SeqIds

Terminal == completed \cup reported

\* A submitted request is in exactly one collection, or has exactly one
\* outcome: it is never lost, never scheduled twice, never finished twice, in
\* the middle of a pass as between passes.
ExactlyOnePlace ==
    /\ Submitted = pending \cup Active \cup IdsOf(Terminal)
    /\ prefill \cap decode = {}
    /\ pending \cap Active = {}
    /\ IdsOf(Terminal) \cap (pending \cup Active) = {}
    /\ completed \cap reported = {}
    /\ \A c, d \in Terminal : c.id = d.id => c = d

\* Every path out of the scheduler gives the blocks back, and the block list a
\* sequence carries is its page table: exactly the active sequences have a
\* table, and both copies agree.
TablesMatchActive ==
    /\ Live = Active
    /\ \A s \in Active : logicalBlocks[s] = pageTables[s]

\* What the executor is given: no block is in two entries, every entry has the
\* blocks its sequence has now, and they hold the whole context.
BatchSound ==
    pc = "executing" =>
        /\ \A e \in batch :
              /\ e.id \in Active
              /\ e.isPrefill <=> e.id \in prefill
              /\ e.context = ContextLen(e.id)
              /\ e.blocks = pageTables[e.id]
              /\ Len(e.blocks) >= BlocksForTokens(e.context)
        /\ \A e, f \in batch : e # f => /\ e.id # f.id
                                        /\ Range(e.blocks) \cap Range(f.blocks) = {}

\* No active sequence is ever passed over: the decode and prefill loops never
\* meet their batch or token limit, since whatever was admitted to a batch
\* once fits the next one too.
ActiveAlwaysScheduled == pc \in {"pending", "executing"} => Active = InBatch

\* The growth reserve works: in the pass that follows one that started a
\* prefill, there is a block for every decode sequence that needs one.
GrowthReserved ==
    pc = "decode" /\ started # {} =>
        Cardinality({s \in todo : NeedsBlock(s)}) <= NumFreeBlocks

\* A waiting request is overtaken by one that ranks after it only if that one
\* asks for less: fewer prompt tokens, or no growth block where it needs one.
OvertakenOnlyByLess ==
    \A s \in started, t \in pending :
        /\ pc \in {"pending", "executing"}
        /\ t \notin todo
        /\ Before(t, s)
        => \/ Prompt(t) > Prompt(s)
           \/ NeedsReserve(Prompt(t)) /\ ~NeedsReserve(Prompt(s))

\* A request is put back only while other sequences hold what it needs
\* (src/scheduler.rs:263): a scan during which nothing is active leaves no one
\* waiting.
DeferredMeansWaiting ==
    pc = "pending" /\ todo = {} /\ Active = {} /\ ~underPressure => pending = {}

\* Every request that was admitted gets its outcome, and the engine sees it.
EventuallyReported ==
    \A s \in SeqIds : s \in Submitted ~> s \in IdsOf(reported)

\* What the scheduler promises about a request, without batches and blocks.
Lifecycle == INSTANCE RequestLifecycle WITH
    Ids      <- SeqIds,
    waiting  <- pending,
    running  <- Active,
    finished <- completed,
    reported <- reported

\* The scheduler implements the life cycle of a request: a started request is
\* never put back, each request ends once, for a reason that fits where it
\* was, and its outcome reaches the engine unchanged and once.
LifecycleSpec == Lifecycle!Spec

=============================================================================
