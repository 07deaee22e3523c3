------------------------------ MODULE Backends ------------------------------
(***************************************************************************)
(* The engine is built over one backend, which then stays.  Both serve the *)
(* same scheduler.                                                         *)
(***************************************************************************)
EXTENDS CpuExecutor, TinyLlmExecutor

VARIABLE backend

backendsVars == <<vars, cpuVars, tinyVars, backend>>

BackendsInit == Init /\ CpuInit /\ TinyInit /\ backend \in {"cpu", "tiny-llm"}

BackendsNext ==
    /\ \/ backend = "cpu" /\ CpuNext /\ UNCHANGED tinyVars
       \/ backend = "tiny-llm" /\ TinyNext /\ UNCHANGED cpuVars
    /\ UNCHANGED backend

BackendsSpec == BackendsInit /\ [][BackendsNext]_backendsVars

-----------------------------------------------------------------------------
\* ReadsOwnWrites, for an engine over the reference executor: every decode step
\* attends to the whole context of its own sequence.
CpuReadsOwnWrites == backend = "cpu" => ReadsOwnWrites
=============================================================================
