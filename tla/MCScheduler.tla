---------------------------- MODULE MCScheduler ----------------------------
(* Instances of the scheduler for TLC.                                     *)
EXTENDS Scheduler

Req(p, m, prio) == [prompt |-> p, maxTokens |-> m, priority |-> prio]

\* With blocks of 3 tokens, a watermark of 3 of 4 blocks and 4 tokens a batch:
\* small ones with and without a growth at the first decode, one that fills the
\* batch, one too large.
MixedRequests == {Req(1, 2, 0), Req(2, 2, 1), Req(4, 1, 0), Req(5, 1, 1)}

\* With blocks of 2 tokens and a watermark of 4 of 5 blocks: two that run side
\* by side on the reserve and outgrow the pool together, the first of a whole
\* number of blocks, the second one token beyond; and a prompt over the
\* watermark.
EndingRequests == {Req(2, 3, 0), Req(3, 2, 1), Req(9, 1, 0)}
=============================================================================
