-------------------------- MODULE TinyLlmExecutor --------------------------
(***************************************************************************)
(* The adapter of src/tiny_llm_executor.rs between the engine and the      *)
(* native tiny-llm library, under the real scheduler: which sequences have *)
(* a slot of the native KV pool, how much each may grow, and which batches *)
(* are turned down.                                                        *)
(*                                                                         *)
(* The library is external: it has one slot for each sequence of a batch   *)
(* it was loaded for, hands one out while there is one, takes them back,   *)
(* and may fail a step.  Block tables are as BatchSound of Scheduler says  *)
(* and never empty.  Capacities stay far below the width of an i32.        *)
(***************************************************************************)
EXTENDS Executor

CONSTANTS
    MaxSeqs,            \* PAGED_SERVING_TINY_LLM_MAX_SEQS
    DecodeReserve,      \* PAGED_SERVING_TINY_LLM_DECODE_RESERVE
    AllocFloor          \* the least capacity, 64 in the code

ASSUME TinyLlmAssumption ==
    MaxSeqs \in Nat \ {0} /\ DecodeReserve \in Nat /\ AllocFloor \in Nat \ {0}

VARIABLES
    allocated,      \* sequence -> the KV tokens it was given room for
    slots           \* external: the sequences that hold a slot of the library

tinyVars == <<allocated, slots>>
tinySpecVars == <<vars, tinyVars>>

\* self.max_batch_size, which the library is loaded with too.
BackendBatch == IF MaxBatchSize <= MaxSeqs THEN MaxBatchSize ELSE MaxSeqs

\* Faulty: the reserve is left out.
AllocTokensNoReserve(context) ==
    IF context > AllocFloor THEN context ELSE AllocFloor

\* alloc_tokens_for
AllocTokens(context) ==
    IF context + DecodeReserve > AllocFloor THEN context + DecodeReserve ELSE AllocFloor

\* A batch lists the prefills first, then the decodes, each in the order of
\* the scheduler's loops.
Precedes(e, f) ==
    \/ e.isPrefill /\ ~f.isPrefill
    \/ e.isPrefill = f.isPrefill /\ Before(e.id, f.id)

UpTo(e) == {f \in batch : f = e \/ Precedes(f, e)}

IsNew(e) == e.id \notin DOMAIN allocated

\* The slots that the batch asks for up to e.
Asked(e) == Cardinality({f \in UpTo(e) : IsNew(f)})

NoSlotFor(e) == IsNew(e) /\ Cardinality(slots) + Asked(e) > BackendBatch

Capacity(e) == IF IsNew(e) THEN AllocTokens(e.context) ELSE allocated[e.id]

\* ctx + 1 > capacity
OverCapacity(e) == e.context + 1 > Capacity(e)

Refused(e) == NoSlotFor(e) \/ OverCapacity(e)

\* tinyllm_allocate_sequence returns 0.
Allocate(entries) ==
    LET ids == {e.id : e \in entries}
    IN  /\ allocated' = [s \in DOMAIN allocated \cup ids |->
                            IF s \in DOMAIN allocated THEN allocated[s]
                            ELSE Capacity(CHOOSE e \in entries : e.id = s)]
        /\ slots' = slots \cup ids

\* Before anything else is touched: more sequences than the library can take.
RejectBatch ==
    /\ Cardinality(batch) > BackendBatch
    /\ ExecutionError
    /\ UNCHANGED tinyVars

\* The loop over the batch stops at e; the sequences before it keep the slots
\* they were given, and e too if it only lacks capacity.
RejectSequence(e) ==
    /\ Cardinality(batch) <= BackendBatch
    /\ Refused(e)
    /\ \A f \in UpTo(e) \ {e} : ~Refused(f)
    /\ ExecutionError
    /\ Allocate(UpTo(e) \ (IF NoSlotFor(e) THEN {e} ELSE {}))

\* Every sequence has its slot: the library runs the step, or fails it.
Run ==
    /\ Cardinality(batch) <= BackendBatch
    /\ \A e \in batch : ~Refused(e)
    /\ ExecutionError \/ \E output \in Outputs : UpdateSequences(output)
    /\ Allocate(batch)

\* Faulty: tinyllm_free_sequence is not called.
FinishedKeepingSlots(ids) ==
    /\ allocated' = Restrict(allocated, DOMAIN allocated \ ids)
    /\ UNCHANGED slots

\* Faulty: only sequences that are still active are released.
FinishedIfActive(ids) ==
    /\ allocated' = Restrict(allocated, DOMAIN allocated \ (ids \cap Active))
    /\ slots' = slots \ (ids \cap Active)

\* sequences_finished: the ids that have an allocation lose it and their slot.
TinySequencesFinished(ids) ==
    /\ allocated' = Restrict(allocated, DOMAIN allocated \ ids)
    /\ slots' = slots \ (ids \cap DOMAIN allocated)

TinyDrain == TakeCompleted /\ TinySequencesFinished(IdsOf(completed))

-----------------------------------------------------------------------------
TinyInit == allocated = <<>> /\ slots = {}

TinyNext ==
    \/ (SchedulerStep \/ ClientCall) /\ UNCHANGED tinyVars
    \/ RejectBatch
    \/ \E e \in batch : RejectSequence(e)
    \/ Run
    \/ TinyDrain

TinySpec == Init /\ TinyInit /\ [][TinyNext]_tinySpecVars

-----------------------------------------------------------------------------
(* Properties                                                              *)

\* No slot leaks (tests/tiny_llm_backend.rs:82): the library holds a slot
\* exactly for what the adapter has recorded, and that is nothing but
\* sequences that run or are about to be drained, whatever failed in between;
\* it never holds more than it has.
SlotsReturned ==
    /\ slots = DOMAIN allocated
    /\ slots \subseteq Active \cup IdsOf(completed)
    /\ Cardinality(slots) <= BackendBatch

\* A reserve of max_tokens is enough (src/tiny_llm_executor.rs:26): such a
\* request is never turned down for want of capacity, up to its last token.
ReserveSuffices ==
    pc = "executing" =>
        \A e \in batch :
            request[e.id].maxTokens <= DecodeReserve => ~OverCapacity(e)

\* There is a slot for every sequence of a batch that the library can take, as
\* long as no request has left the scheduler between two drains.
SlotForEveryBatch ==
    pc = "executing" /\ Undisturbed /\ Cardinality(batch) <= BackendBatch =>
        \A e \in batch : ~NoSlotFor(e)

=============================================================================
