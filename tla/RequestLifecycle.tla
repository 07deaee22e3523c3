-------------------------- MODULE RequestLifecycle --------------------------
(***************************************************************************)
(* The life of a request as the state machine at the head of               *)
(* src/scheduler.rs draws it, Pending -> Prefill/Decode -> Completed or    *)
(* Failed, without batches, blocks or tokens: waiting, running, finished   *)
(* with an outcome, and reported to the engine.                            *)
(***************************************************************************)
CONSTANT Ids

VARIABLES
    waiting,    \* submitted, not started
    running,    \* started
    finished,   \* [id, outcome], not reported yet
    reported    \* [id, outcome], seen by the engine

vars == <<waiting, running, finished, reported>>

\* Why a waiting request may end, and why a running one may.
WaitingOutcomes == {"rejected", "execution", "cancelled", "stalled"}

RunningOutcomes == {"completed", "stopped", "outOfBlocks", "execution",
                    "cancelled", "undecodable"}

Known == waiting \cup running \cup {c.id : c \in finished \cup reported}

Init == waiting = {} /\ running = {} /\ finished = {} /\ reported = {}

Submit(r) ==
    /\ r \notin Known
    /\ waiting' = waiting \cup {r}
    /\ UNCHANGED <<running, finished, reported>>

Start(r) ==
    /\ r \in waiting
    /\ waiting' = waiting \ {r}
    /\ running' = running \cup {r}
    /\ UNCHANGED <<finished, reported>>

FinishRunning(r, outcome) ==
    /\ r \in running
    /\ running' = running \ {r}
    /\ finished' = finished \cup {[id |-> r, outcome |-> outcome]}
    /\ UNCHANGED <<waiting, reported>>

FinishWaiting(rs, outcome) ==
    /\ rs \subseteq waiting
    /\ waiting' = waiting \ rs
    /\ finished' = finished \cup {[id |-> r, outcome |-> outcome] : r \in rs}
    /\ UNCHANGED <<running, reported>>

Report ==
    /\ reported' = reported \cup finished
    /\ finished' = {}
    /\ UNCHANGED <<waiting, running>>

Next ==
    \/ \E r \in Ids :
          \/ Submit(r) \/ Start(r)
          \/ \E outcome \in RunningOutcomes : FinishRunning(r, outcome)
    \/ \E rs \in SUBSET Ids, outcome \in WaitingOutcomes : FinishWaiting(rs, outcome)
    \/ Report

Spec == Init /\ [][Next]_vars
=============================================================================
