------------------------ MODULE MCExecutionPipeline ------------------------
(* Instances of the execution pipeline for TLC.                            *)
EXTENDS ExecutionPipeline

=============================================================================
