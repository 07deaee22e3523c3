------------------------------ MODULE MCLoadGen ------------------------------
\* Both modes with and without a warmup, more slots than requests, and
\* arguments that are refused; requests that succeed with a token count, or
\* without one, or fail.
EXTENDS LoadGen

Args(mode, concurrency, requests, warmup) ==
    [mode |-> mode, concurrency |-> concurrency, requests |-> requests,
     warmup |-> warmup, maxTokens |-> 1, timeout |-> 1, rate |-> 1]

SmallArgs ==
    {Args("closed", 2, 3, 1), Args("closed", 3, 2, 0), Args("closed", 0, 1, 1),
     Args("poisson", 2, 2, 1), Args("poisson", 2, 3, 0), Args("poisson", 2, 0, 0),
     Args("open", 1, 1, 0)}

Outcome(ok, class, tokens, ttft) ==
    [ok |-> ok, class |-> class, tokens |-> tokens, ttft |-> ttft]

SmallOutcomes ==
    {Outcome(TRUE, "", 2, 2), Outcome(TRUE, "", None, 1),
     Outcome(FALSE, "timeout", None, None)}
=============================================================================
