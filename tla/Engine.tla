------------------------------- MODULE Engine -------------------------------
(***************************************************************************)
(* The inference engine of src/engine.rs: what one step does to the        *)
(* requests around the scheduler's calls (tokens, stop sequences, the      *)
(* incremental decoders, the results), and run(), which steps until        *)
(* nothing is left or nothing moves.                                       *)
(*                                                                         *)
(* The scheduler is taken at the level of RequestLifecycle, which module   *)
(* Scheduler is shown to implement: schedule() starts, rejects and loses   *)
(* whatever it may, and the batch is every running request.  A token has   *)
(* a text, a sequence of characters, empty for special tokens.             *)
(***************************************************************************)
EXTENDS Integers, FiniteSets, SequencesExt

CONSTANTS
    Ids,            \* the request ids that may be used
    Tokens,         \* the vocabulary
    TextOf,         \* the text of every token
    EOS,            \* eos_token_id
    Undecodable,    \* the tokens on which decoding fails, as TokenizerTrait allows
    Buffered,       \* do decoders keep all text until the end (BufferedDecoder)?
    Params,         \* GenerationParams: [maxTokens, stops]
    StallLimit      \* STALL_LIMIT of run()

ASSUME EngineAssumption ==
    /\ Ids \subseteq Nat
    /\ EOS \in Tokens
    /\ Undecodable \subseteq Tokens \ {EOS}
    /\ Buffered \in BOOLEAN
    /\ StallLimit \in Nat \ {0}
    /\ \A t \in Tokens : TextOf[t] \in Seq(Range(TextOf[t]))
    /\ \A p \in Params :
          /\ p.maxTokens \in Nat \ {0}
          /\ \A s \in p.stops : s \in Seq(Range(s))

VARIABLES
    params,         \* the parameters of the admitted requests, by request id
    waiting,        \* in the scheduler, not started
    running,        \* in the scheduler, started
    finished,       \* [id, outcome]: terminal, not drained
    output,         \* Request::output_tokens
    decoders,       \* the requests that have an incremental decoder
    pushed,         \* what a buffering decoder holds
    stream,         \* the text of all chunks of a request (run() drops them)
    results,        \* CompletedRequest by id, once returned
    completedCount, \* completed_requests_count
    failedCount,    \* failed_requests_count
    pc,             \* the part of the step that comes next
    generated,      \* the tokens of this step by request id
    inRun,          \* is the step one of run()?
    idleSteps       \* idle_steps of run()

requestVars == <<params, waiting, running, finished, output>>
decoderVars == <<decoders, pushed, stream>>
resultVars == <<results, completedCount, failedCount>>
runVars == <<inRun, idleSteps>>
vars == <<requestVars, decoderVars, resultVars, pc, generated, runVars>>

Submitted == DOMAIN params

Terminal(rs, outcome) == {[id |-> r, outcome |-> outcome] : r \in rs}

-----------------------------------------------------------------------------
(* Text                                                                    *)

\* try_decode
Decodable(tokens) == Range(tokens) \cap Undecodable = {}

Text(tokens) == FlattenSeq([i \in DOMAIN tokens |-> TextOf[tokens[i]]])

\* The offsets at which a stop sequence begins; an empty one never does.
StopStarts(text, stops) ==
    {i \in 0 .. Len(text) : \E s \in stops \ {<<>>} :
        i + Len(s) <= Len(text) /\ SubSeq(text, i + 1, i + Len(s)) = s}

\* find_stop_sequence, when there is one
FindStopSequence(text, stops) == Min(StopStarts(text, stops))

\* Faulty: one token too many.
TokensBeforeCharInclusive(tokens, offset) ==
    Min({i \in 1 .. Len(tokens) : Len(Text(SubSeq(tokens, 1, i))) > offset}
            \cup {Len(tokens)})

\* tokens_before_char: the fewest tokens whose text reaches the offset.
TokensBeforeChar(tokens, offset) ==
    Min({i \in 0 .. Len(tokens) : Len(Text(SubSeq(tokens, 1, i))) >= offset}
            \cup {Len(tokens)})

-----------------------------------------------------------------------------
Init ==
    /\ params = <<>>
    /\ waiting = {} /\ running = {} /\ finished = {}
    /\ output = [r \in Ids |-> <<>>]
    /\ decoders = {}
    /\ pushed = [r \in Ids |-> <<>>]
    /\ stream = [r \in Ids |-> <<>>]
    /\ results = [r \in {} |-> {}]
    /\ completedCount = 0 /\ failedCount = 0
    /\ pc = "idle" /\ generated = [r \in {} |-> EOS]
    /\ inRun = FALSE /\ idleSteps = 0

\* submit_request; a refused one changes nothing, not even the next id.
Submit(p) ==
    LET r == Len(params) + 1
    IN  /\ pc = "idle"
        /\ r \in Ids
        /\ params' = Append(params, p)
        /\ waiting' = waiting \cup {r}
        /\ decoders' = decoders \cup {r}
        /\ UNCHANGED <<running, finished, output, pushed, stream, resultVars, pc,
                       generated, runVars>>

\* Faulty: the result is not left for the next drain.
CancelSilently(r) ==
    /\ pc = "idle"
    /\ r \in waiting \cup running
    /\ waiting' = waiting \ {r}
    /\ running' = running \ {r}
    /\ UNCHANGED <<params, finished, output, decoderVars, resultVars, pc, generated, runVars>>

\* cancel_request
Cancel(r) ==
    /\ pc = "idle"
    /\ r \in waiting \cup running
    /\ waiting' = waiting \ {r}
    /\ running' = running \ {r}
    /\ finished' = finished \cup Terminal({r}, "cancelled")
    /\ UNCHANGED <<params, output, decoderVars, resultVars, pc, generated, runVars>>

\* fail_pending_requests, which a driver of its own steps calls when it stalls.
FailPendingRequests ==
    /\ pc = "idle"
    /\ waiting' = {}
    /\ finished' = finished \cup Terminal(waiting, "stalled")
    /\ UNCHANGED <<params, running, output, decoderVars, resultVars, pc, generated, runVars>>

-----------------------------------------------------------------------------
(* One step: step_events                                                   *)

\* schedule(): some waiting requests start and some are rejected, some running
\* ones find no block to grow into.  An empty batch is not executed.
Schedule(starting, rejected, lost) ==
    /\ pc = IF inRun THEN "loop" ELSE "idle"
    /\ inRun => waiting \cup running # {} /\ idleSteps < StallLimit
    /\ waiting' = waiting \ (starting \cup rejected)
    /\ running' = (running \ lost) \cup starting
    /\ finished' = finished \cup Terminal(rejected, "rejected")
                            \cup Terminal(lost, "outOfBlocks")
    /\ pc' = IF running' = {} THEN "stopping" ELSE "executing"
    /\ UNCHANGED <<params, output, decoderVars, resultVars, generated, runVars>>

\* Request::is_complete.  (submit_request keeps max_tokens within
\* max_model_len, so the other limit of update_sequences is never met first.)
IsComplete(tokens, p) == Len(tokens) >= p.maxTokens \/ Last(tokens) = EOS

\* update_sequences: a token each, and the end of those it completes.
Execute(tokens) ==
    /\ pc = "executing"
    /\ generated' = tokens
    /\ output' = [r \in Ids |-> IF r \in running THEN Append(output[r], tokens[r])
                                                 ELSE output[r]]
    /\ LET complete == {r \in running : IsComplete(output'[r], params[r])}
       IN  /\ running' = running \ complete
           /\ finished' = finished \cup Terminal(complete, "completed")
    /\ pc' = "stopping"
    /\ UNCHANGED <<params, waiting, decoderVars, resultVars, runVars>>

\* The execution fails: fail_sequences on the batch, then straight to the
\* drain.
ExecutionError ==
    /\ pc = "executing"
    /\ running' = {}
    /\ finished' = finished \cup Terminal(running, "execution")
    /\ pc' = "collecting"
    /\ UNCHANGED <<params, waiting, output, decoderVars, resultVars, generated, runVars>>

\* The requests that got a token and whose output has a stop sequence.
Hits ==
    {r \in DOMAIN generated :
        /\ Decodable(output[r])
        /\ StopStarts(Text(output[r]), params[r].stops) # {}}

\* The output of a running request is cut before the stop sequence.
CutOutput ==
    [r \in Ids |->
        IF r \in running \cap Hits
        THEN LET start == FindStopSequence(Text(output[r]), params[r].stops)
             IN  SubSeq(output[r], 1, TokensBeforeChar(output[r], start))
        ELSE output[r]]

\* Faulty: the decoders of stopped requests stay.
ApplyStopSequencesKeepingDecoders ==
    /\ pc = "stopping"
    /\ running' = running \ Hits
    /\ finished' = finished \cup Terminal(running \cap Hits, "stopped")
    /\ output' = CutOutput
    /\ pc' = "decoding"
    /\ UNCHANGED <<params, waiting, decoderVars, resultVars, generated, runVars>>

\* apply_stop_sequences: a running request is cut and completes; one that the
\* update has completed already keeps its output (complete_by_stop_sequence
\* does not find it).  The decoder goes in both cases.
ApplyStopSequences ==
    /\ pc = "stopping"
    /\ running' = running \ Hits
    /\ finished' = finished \cup Terminal(running \cap Hits, "stopped")
    /\ output' = CutOutput
    /\ decoders' = decoders \ Hits
    /\ pc' = "decoding"
    /\ UNCHANGED <<params, waiting, pushed, stream, resultVars, generated, runVars>>

\* Faulty: only the requests still running get their last token.
PushBufferedRunning ==
    /\ Buffered
    /\ pushed' = [r \in Ids |-> IF r \in DOMAIN generated \cap decoders \cap running
                                THEN Append(pushed[r], generated[r]) ELSE pushed[r]]
    /\ UNCHANGED <<running, finished, stream>>

\* The decoders take the new tokens.  One that buffers returns nothing yet.
PushBuffered ==
    /\ Buffered
    /\ pushed' = [r \in Ids |-> IF r \in DOMAIN generated \cap decoders
                                THEN Append(pushed[r], generated[r]) ELSE pushed[r]]
    /\ UNCHANGED <<running, finished, stream>>

\* Faulty: a request that the update has completed fails once more.
PushDirectFailingAll ==
    LET pushing == DOMAIN generated \cap decoders
        failing == {r \in pushing : generated[r] \in Undecodable}
    IN  /\ ~Buffered
        /\ stream' = [r \in Ids |-> IF r \in pushing \ failing
                                    THEN stream[r] \o TextOf[generated[r]] ELSE stream[r]]
        /\ running' = running \ failing
        /\ finished' = finished \cup Terminal(failing, "undecodable")
        /\ UNCHANGED pushed

\* One that does not returns the token's text, and a request still running
\* whose token it cannot decode fails (fail_by_request_id).
PushDirect ==
    LET pushing == DOMAIN generated \cap decoders
        failing == {r \in pushing : generated[r] \in Undecodable}
    IN  /\ ~Buffered
        /\ stream' = [r \in Ids |-> IF r \in pushing \ failing
                                    THEN stream[r] \o TextOf[generated[r]] ELSE stream[r]]
        /\ running' = running \ failing
        /\ finished' = finished \cup Terminal(running \cap failing, "undecodable")
        /\ UNCHANGED pushed

DecodeGenerated ==
    /\ pc = "decoding"
    /\ PushBuffered \/ PushDirect
    /\ pc' = "collecting"
    /\ UNCHANGED <<params, waiting, output, decoders, resultVars, generated, runVars>>

\* The CompletedRequest of a drained request.
Result(c) ==
    LET tokens  == output[c.id]
        success == c.outcome \in {"completed", "stopped"} /\ Decodable(tokens)
        natural == c.outcome = "stopped" \/ (tokens # <<>> /\ Last(tokens) = EOS)
    IN  [outcome |-> c.outcome,
         success |-> success,
         reason  |-> IF ~success THEN "none" ELSE IF natural THEN "stop" ELSE "length",
         text    |-> IF Decodable(tokens) THEN Text(tokens) ELSE <<>>]

Drained == {c.id : c \in finished}

\* Faulty: failures that come from decoding are counted as completed.
CountDrained ==
    LET completed == {c \in finished : c.outcome \in {"completed", "stopped"}}
    IN  /\ completedCount' = completedCount + Cardinality(completed)
        /\ failedCount' = failedCount + Cardinality(finished \ completed)

\* The two counters, by the success of the result.
Count ==
    LET succeeded == {c \in finished : Result(c).success}
    IN  /\ completedCount' = completedCount + Cardinality(succeeded)
        /\ failedCount' = failedCount + Cardinality(finished \ succeeded)

\* collect_completed_requests: results, and the tail that finish() flushes for
\* a successful request that still has its decoder.
CollectCompleted ==
    /\ results' = [r \in DOMAIN results \cup Drained |->
                      IF r \in Drained THEN Result(CHOOSE c \in finished : c.id = r)
                                       ELSE results[r]]
    /\ stream' = [r \in Ids |->
                     IF r \in Drained \cap decoders /\ results'[r].success /\ Buffered
                     THEN stream[r] \o Text(pushed[r]) ELSE stream[r]]
    /\ decoders' = decoders \ Drained
    /\ finished' = {}
    /\ Count
    /\ UNCHANGED <<params, waiting, running, output, pushed>>

\* Faulty: a step with work left counts as progress.
EndStepSpinning ==
    /\ pc = "collecting"
    /\ CollectCompleted
    /\ idleSteps' = IF inRun /\ finished = {} /\ waiting \cup running = {}
                    THEN idleSteps + 1 ELSE 0
    /\ pc' = IF inRun THEN "loop" ELSE "idle"
    /\ generated' = [r \in {} |-> EOS]
    /\ UNCHANGED inRun

\* The end of a step; run() counts the steps that achieve nothing.
EndStep ==
    /\ pc = "collecting"
    /\ CollectCompleted
    /\ idleSteps' = IF inRun /\ finished = {} /\ running = {} THEN idleSteps + 1 ELSE 0
    /\ pc' = IF inRun THEN "loop" ELSE "idle"
    /\ generated' = [r \in {} |-> EOS]
    /\ UNCHANGED inRun

-----------------------------------------------------------------------------
(* run()                                                                   *)

\* What was cancelled before the loop is drained first.
StartRun ==
    /\ pc = "idle"
    /\ CollectCompleted
    /\ pc' = "loop" /\ inRun' = TRUE /\ idleSteps' = 0
    /\ UNCHANGED generated

\* Faulty: what is stuck stays in the queue.
StallLeaving ==
    /\ pc = "loop"
    /\ idleSteps >= StallLimit
    /\ pc' = "leaving"
    /\ UNCHANGED <<requestVars, decoderVars, resultVars, generated, runVars>>

\* Too many idle steps: everything still waiting fails.
Stall ==
    /\ pc = "loop"
    /\ idleSteps >= StallLimit
    /\ waiting' = {}
    /\ finished' = finished \cup Terminal(waiting, "stalled")
    /\ pc' = "leaving"
    /\ UNCHANGED <<params, running, output, decoderVars, resultVars, generated, runVars>>

LeaveLoop ==
    /\ pc = "loop"
    /\ idleSteps < StallLimit
    /\ waiting \cup running = {}
    /\ pc' = "leaving"
    /\ UNCHANGED <<requestVars, decoderVars, resultVars, generated, runVars>>

\* The last drain, and the return.
Return ==
    /\ pc = "leaving"
    /\ CollectCompleted
    /\ pc' = "idle" /\ inRun' = FALSE /\ idleSteps' = 0
    /\ UNCHANGED generated

-----------------------------------------------------------------------------
AnySchedule ==
    \E starting \in SUBSET waiting, lost \in SUBSET running :
        \E rejected \in SUBSET (waiting \ starting) : Schedule(starting, rejected, lost)

\* What the engine does once a step or run() is called.
Continue ==
    \/ \E tokens \in [running -> Tokens] : Execute(tokens)
    \/ ExecutionError
    \/ ApplyStopSequences \/ DecodeGenerated \/ EndStep
    \/ Stall \/ LeaveLoop \/ Return
    \/ inRun /\ AnySchedule

\* What a caller may ask of it.
Call ==
    \/ \E p \in Params : Submit(p)
    \/ \E r \in Ids : Cancel(r)
    \/ FailPendingRequests \/ StartRun
    \/ ~inRun /\ AnySchedule

Next == Continue \/ Call

Spec == Init /\ [][Next]_vars

\* A call, once made, is executed to its end.
FairSpec == Spec /\ WF_vars(Continue)
-----------------------------------------------------------------------------
(* Properties                                                              *)

\* A decoder lives as long as its request (src/engine.rs:124): every request in
\* the scheduler has one, and none is left behind by any way to end.
DecodersLive ==
    /\ waiting \cup running \subseteq decoders
    /\ decoders \subseteq waiting \cup running \cup Drained

\* A request is in one place and ends once (one entry a drain, one result),
\* although the update, a stop sequence and the decoder may each end it in the
\* same step, and cancels and the stall limit between steps.
EndsOnce ==
    /\ waiting \cap running = {}
    /\ \A c, d \in finished : c.id = d.id => c = d
    /\ Drained \cap DOMAIN results = {}
    /\ (waiting \cup running) \cap (Drained \cup DOMAIN results) = {}
    /\ waiting \cup running \cup Drained \cup DOMAIN results = Submitted

\* A result says "length" only if the whole budget of tokens was used, a failed
\* one gives no reason, and the counters count each request once, by how its
\* result reads, also when a completed request fails because its output cannot
\* be decoded.
ResultsTruthful ==
    /\ \A r \in DOMAIN results :
          /\ results[r].reason = "length" =>
                /\ results[r].outcome = "completed"
                /\ Len(output[r]) = params[r].maxTokens
                /\ EOS \notin Range(output[r])
          /\ results[r].reason = "none" <=> ~results[r].success
    /\ completedCount = Cardinality({r \in DOMAIN results : results[r].success})
    /\ failedCount = Cardinality({r \in DOMAIN results : ~results[r].success})

\* Without stop sequences the chunks of a successful request add up to the text
\* of its result, whether or not the decoder buffers.
StreamedText ==
    \A r \in DOMAIN results :
        results[r].success /\ params[r].stops = {} => stream[r] = results[r].text

\* The token that completes a stop sequence is never streamed
\* (src/engine.rs:373).
StopNeverStreamed == \A r \in Submitted : StopStarts(stream[r], params[r].stops) = {}

\* A request cut at a stop sequence does not show it (src/engine.rs:80).
StopCutClean ==
    \A r \in DOMAIN results :
        results[r].outcome = "stopped" =>
            StopStarts(results[r].text, params[r].stops) = {}

\* When run() returns, every request submitted before has a result
\* (src/engine.rs:583).
RunReturnsAll == [][inRun /\ ~inRun' => DOMAIN results' = Submitted]_vars

\* run() returns, even when nothing it waits for can ever start.
RunReturns == inRun ~> ~inRun

\* What src/types/request.rs:36 says of stop sequences: the text has none.
StopRespected ==
    \A r \in DOMAIN results :
        results[r].success => StopStarts(results[r].text, params[r].stops) = {}

\* What src/engine.rs:125 says of the decoders: the chunks of a request add up
\* to its final text.
StreamIsText ==
    \A r \in DOMAIN results : results[r].success => stream[r] = results[r].text
=============================================================================
