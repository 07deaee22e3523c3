--------------------------- MODULE BlockOwnership ---------------------------
(***************************************************************************)
(* What the KV cache promises, without reference counts, lists or page     *)
(* tables: every block is free or held by one holder, a holder acquires    *)
(* only free blocks, and releases all of its blocks at once.               *)
(***************************************************************************)
CONSTANTS Blocks, Holders

VARIABLES
    holding,    \* the blocks of every holder
    live        \* the holders between their first acquisition and the release

vars == <<holding, live>>

Free == Blocks \ UNION {holding[h] : h \in Holders}

Init ==
    /\ holding = [h \in Holders |-> {}]
    /\ live = {}

\* h acquires a set of free blocks, possibly empty the first time.
Acquire(h, new) ==
    /\ new \subseteq Free
    /\ holding' = [holding EXCEPT ![h] = @ \cup new]
    /\ live' = live \cup {h}

\* h gives everything back.
Release(h) ==
    /\ h \in live
    /\ holding' = [holding EXCEPT ![h] = {}]
    /\ live' = live \ {h}

Next ==
    \E h \in Holders :
        \/ \E new \in SUBSET Free : Acquire(h, new)
        \/ Release(h)

Spec == Init /\ [][Next]_vars
=============================================================================
