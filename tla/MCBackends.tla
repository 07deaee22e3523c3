----------------------------- MODULE MCBackends -----------------------------
(* Instances of the backends for TLC.                                      *)
EXTENDS Backends

Req(p, m) == [prompt |-> p, maxTokens |-> m, priority |-> 0]

\* With blocks of 2 tokens: one that grows three times, one across two blocks,
\* a short one.  The first asks for more tokens than the reserve of 2.
MixedRequests == {Req(1, 6), Req(3, 2), Req(2, 2)}
=============================================================================
