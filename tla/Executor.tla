------------------------------ MODULE Executor ------------------------------
(***************************************************************************)
(* The contract between the engine and a backend (GPUExecutorTrait of      *)
(* src/gpu_executor.rs), as seen from the real scheduler: what happens     *)
(* between two calls of the backend.  A backend adds what execute() does   *)
(* with the batch and what sequences_finished() does at the drain.         *)
(***************************************************************************)
EXTENDS Scheduler

\* The pipeline lets no other outputs through.
ASSUME ExecutorAssumption == ~PartialOutputs

\* Everything the scheduler does by itself between two calls of the backend.
SchedulerStep ==
    \/ Schedule
    \/ \E s \in SeqIds : FailNext(s) \/ CompleteNext(s) \/ CompleteByStopSequence(s)
    \/ EndUpdate

\* What reaches it from clients, a cancel between two steps among it.
ClientCall ==
    \/ \E r \in Requests : AddRequest(r)
    \/ \E s \in SeqIds : FailByRequestId(s)
    \/ FailPendingRequests

\* No request has been taken from the scheduler in another place than the
\* update of a step: by a cancel, or for want of a block.
Undisturbed ==
    \A c \in completed \cup reported : c.outcome \notin {"cancelled", "outOfBlocks"}

=============================================================================
