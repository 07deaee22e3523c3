------------------------------ MODULE MCServer ------------------------------
(* Instances of the server for TLC.                                        *)
EXTENDS Server

CONSTANTS one, other

\* A client that streams next to one that does not; or one alone, with two
\* candidates, streamed one after the other or submitted at once.
SmallBodies ==
    {[h \in {one, other} |-> [stream |-> h = one, n |-> 1]]}
        \cup [{one} -> [stream : BOOLEAN, n : {2}]]
=============================================================================
