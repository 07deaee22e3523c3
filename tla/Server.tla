------------------------------- MODULE Server -------------------------------
(***************************************************************************)
(* The HTTP server of src/server.rs: the handlers of completion requests,  *)
(* each with one or more candidates, the engine loop that owns the engine, *)
(* and the channels between them (the bounded queue of submissions, the    *)
(* receipt of a submission, the events of a candidate).                    *)
(*                                                                         *)
(* The engine is taken at the level of what step_events returns: requests  *)
(* start, speak and end; module Engine models how.  A candidate is         *)
(* submitted at most once and stands for its request id.  A client may     *)
(* leave at any moment, which drops its handler or its response stream.    *)
(***************************************************************************)
EXTENDS Integers, FiniteSets, Sequences, Functions

CONSTANTS
    Clients,        \* the HTTP requests that may arrive
    MaxCandidates,  \* the limit on n
    Bodies,         \* what they may ask for: client -> [stream, n]
    Capacity,       \* SUBMISSION_QUEUE_CAPACITY
    MaxTokens,      \* every request ends after as many tokens
    Buffered,       \* do the decoders keep all text until the end?
    StallLimit      \* STALL_LIMIT of engine_loop

ASSUME ServerAssumption ==
    /\ IsFiniteSet(Clients)
    /\ MaxCandidates \in Nat \ {0}
    /\ \A b \in Bodies :
          /\ DOMAIN b \subseteq Clients
          /\ \A h \in DOMAIN b : b[h].stream \in BOOLEAN /\ b[h].n \in 1 .. MaxCandidates
    /\ Capacity \in Nat \ {0} /\ MaxTokens \in Nat \ {0} /\ StallLimit \in Nat \ {0}
    /\ Buffered \in BOOLEAN

Candidates == Clients \X (1 .. MaxCandidates)

Client(c) == c[1]

VARIABLES
    body,           \* the requests that arrive, and what each asks for
    phase,          \* where the handling of an HTTP request is
    at,             \* where each candidate is on its handler's side
    closing,        \* is the server shutting down?
    queue,          \* submit_tx to submit_rx
    receipt,        \* the oneshot of each submission
    channel,        \* the events of each candidate
    waiters,        \* the candidates whose event sender the engine loop holds
    waiting,        \* in the engine, not started
    running,        \* in the engine, started
    undrained,      \* in the engine, cancelled and not drained
    tokens,         \* the tokens each request has generated
    loop,           \* the part of the engine loop that comes next
    disconnected,   \* local to a pass: the requests whose event could not be sent
    completed,      \* local to a pass: the drained requests, and whether they succeeded
    progressed,     \* local to a pass
    idleSteps,      \* idle_steps
    snapshot,       \* SharedEngineMetrics::active_sequences
    inflight,       \* ServerMetrics::inflight_requests
    errors,         \* ServerMetrics::errors_total
    deaf            \* history: the tokens of text a request generated with nobody to hear them

handlerVars == <<phase, at, closing, inflight, errors>>
engineVars == <<waiting, running, undrained, tokens, deaf>>
passVars == <<disconnected, completed, progressed, idleSteps, snapshot>>
vars == <<body, handlerVars, queue, receipt, channel, waiters, engineVars, loop, passVars>>

Streams(h) == h \in DOMAIN body /\ body[h].stream

Of(h) == {c \in Candidates : Client(c) = h /\ h \in DOMAIN body /\ c[2] <= body[h].n}

NoResult == [c \in {} |-> FALSE]

\* The handler still owns the receiver of the candidate's events.
Listening(c) == at[c] \in {"sending", "awaiting", "listening"}

\* A handler holds the state, and with it a sender of the queue; the closure of
\* a response stream does not, the tasks of generate_many do.
HoldsState(h) ==
    \/ phase[h] = "active"
    \/ ~Streams(h) /\ \E c \in Of(h) : Listening(c)

HasPendingWork == waiting \cup running # {}

Init ==
    /\ body \in Bodies
    /\ phase = [h \in Clients |-> "new"]
    /\ at = [c \in Candidates |-> "unsent"]
    /\ closing = FALSE
    /\ queue = <<>>
    /\ receipt = [c \in Candidates |-> "none"]
    /\ channel = [c \in Candidates |-> <<>>]
    /\ waiters = {}
    /\ waiting = {} /\ running = {} /\ undrained = {}
    /\ tokens = [c \in Candidates |-> 0]
    /\ loop = "top"
    /\ disconnected = {} /\ completed = NoResult
    /\ progressed = FALSE /\ idleSteps = 0
    /\ snapshot = 0 /\ inflight = 0 /\ errors = 0
    /\ deaf = [c \in Candidates |-> 0]

-----------------------------------------------------------------------------
(* The handlers                                                            *)

\* completions, chat_completions: a request whose parameters are accepted.  A
\* stream submits its candidates one by one, the others all at once.
Arrive(h) ==
    /\ h \in DOMAIN body /\ phase[h] = "new" /\ ~closing
    /\ phase' = [phase EXCEPT ![h] = "active"]
    /\ at' = [c \in Candidates |->
                 IF c \in Of(h) /\ (Streams(h) => c[2] = 1) THEN "sending" ELSE at[c]]
    /\ inflight' = inflight + 1
    /\ UNCHANGED <<body, closing, errors, queue, receipt, channel, waiters, engineVars, loop,
                   passVars>>

\* A body that is no valid JSON is answered before anything is counted as an error.
RejectBody(h) ==
    /\ h \in DOMAIN body /\ phase[h] = "new" /\ ~closing
    /\ phase' = [phase EXCEPT ![h] = "malformed"]
    /\ UNCHANGED <<body, at, closing, inflight, errors, queue, receipt, channel, waiters,
                   engineVars, loop, passVars>>

\* Parameters that the prepare functions refuse.
RejectParams(h) ==
    /\ h \in DOMAIN body /\ phase[h] = "new" /\ ~closing
    /\ phase' = [phase EXCEPT ![h] = "failed"]
    /\ errors' = errors + 1
    /\ UNCHANGED <<body, at, closing, inflight, queue, receipt, channel, waiters, engineVars,
                   loop, passVars>>

\* Faulty: the queue has no bound.
EnqueueUnbounded(c) ==
    /\ at[c] = "sending" /\ phase[Client(c)] = "active"
    /\ loop # "stopped"
    /\ queue' = Append(queue, c)
    /\ at' = [at EXCEPT ![c] = "awaiting"]
    /\ UNCHANGED <<body, phase, closing, inflight, errors, receipt, channel, waiters, engineVars,
                   loop, passVars>>

\* AppState::submit, once there is room in the queue.
Enqueue(c) ==
    /\ at[c] = "sending" /\ phase[Client(c)] = "active"
    /\ loop # "stopped" /\ Len(queue) < Capacity
    /\ queue' = Append(queue, c)
    /\ at' = [at EXCEPT ![c] = "awaiting"]
    /\ UNCHANGED <<body, phase, closing, inflight, errors, receipt, channel, waiters, engineVars,
                   loop, passVars>>

\* The rest of submit: a stream goes on to its next candidate, and after the
\* last one the handler returns the response.
TakeReceipt(c) ==
    LET h == Client(c)
        next == <<h, c[2] + 1>>
        granted == [at EXCEPT ![c] = "listening"]
    IN  /\ at[c] = "awaiting" /\ phase[h] = "active"
        /\ \/ /\ receipt[c] = "refused"
              /\ at' = [at EXCEPT ![c] = "failed"]
              /\ UNCHANGED <<phase, inflight>>
           \/ /\ receipt[c] = "admitted" /\ Streams(h) /\ next \in Of(h)
              /\ at' = [granted EXCEPT ![next] = "sending"]
              /\ UNCHANGED <<phase, inflight>>
           \/ /\ receipt[c] = "admitted" /\ Streams(h) /\ next \notin Of(h)
              /\ at' = granted
              /\ phase' = [phase EXCEPT ![h] = "streaming"]
              /\ inflight' = inflight - 1
           \/ /\ receipt[c] = "admitted" /\ ~Streams(h)
              /\ at' = granted
              /\ UNCHANGED <<phase, inflight>>
        /\ UNCHANGED <<body, closing, errors, queue, receipt, channel, waiters, engineVars, loop,
                       passVars>>

\* The next event of a candidate.
Take(c) ==
    /\ at[c] = "listening" /\ channel[c] # <<>>
    /\ channel' = [channel EXCEPT ![c] = Tail(@)]
    /\ at' = IF Head(channel[c]) = "chunk" THEN at
             ELSE [at EXCEPT ![c] = Head(channel[c])]
    /\ UNCHANGED <<body, phase, closing, inflight, errors, queue, receipt, waiters, engineVars,
                   loop, passVars>>

\* generate, which ignores the chunks.
ConsumeGenerated(c) == phase[Client(c)] = "active" /\ ~Streams(Client(c)) /\ Take(c)

\* stream_response
ConsumeStreamed(c) == phase[Client(c)] = "streaming" /\ body[Client(c)].n = 1 /\ Take(c)

\* stream_response_multi: the streams are merged in any order, each in its own,
\* and the first failure ends the merge.
ConsumeMerged(c) ==
    /\ phase[Client(c)] = "streaming" /\ body[Client(c)].n > 1
    /\ \A d \in Of(Client(c)) : at[d] # "failed"
    /\ Take(c)

Consume(c) == ConsumeGenerated(c) \/ ConsumeStreamed(c) \/ ConsumeMerged(c)

InHandler(h) == phase[h] = "active"
Busy(h) == phase[h] \in {"active", "streaming"}
Ended(h) == phase[h] \in {"answered", "malformed", "failed", "broken", "left"}

\* The guard of the gauge drops with the handler.
EndWith(h, end) ==
    /\ phase' = [phase EXCEPT ![h] = end]
    /\ inflight' = IF InHandler(h) THEN inflight - 1 ELSE inflight

\* All candidates succeeded: the response, or the last chunk of the stream.
Answer(h) ==
    /\ Busy(h) /\ \A c \in Of(h) : at[c] = "ok"
    /\ EndWith(h, "answered")
    /\ UNCHANGED <<body, at, closing, errors, queue, receipt, channel, waiters, engineVars, loop,
                   passVars>>

\* One could not be submitted or has failed: an error response.  generate_many
\* aborts the tasks of the siblings.
Refuse(h) ==
    /\ InHandler(h) /\ \E c \in Of(h) : at[c] = "failed"
    /\ EndWith(h, "failed")
    /\ errors' = errors + 1
    /\ UNCHANGED <<body, at, closing, queue, receipt, channel, waiters, engineVars, loop,
                   passVars>>

\* One has failed while its response is streamed: an error event.
Break(h) ==
    /\ phase[h] = "streaming" /\ \E c \in Of(h) : at[c] = "failed"
    /\ EndWith(h, "broken")
    /\ UNCHANGED <<body, at, closing, errors, queue, receipt, channel, waiters, engineVars, loop,
                   passVars>>

\* The client disconnects.
Leave(h) ==
    /\ Busy(h)
    /\ EndWith(h, "left")
    /\ UNCHANGED <<body, at, closing, errors, queue, receipt, channel, waiters, engineVars, loop,
                   passVars>>

\* What an ended handler or response still owned is dropped: the future of the
\* handler, the aborted tasks of generate_many, the streams of the siblings.
Drop(c) ==
    /\ Ended(Client(c)) /\ Listening(c)
    /\ at' = [at EXCEPT ![c] = "gone"]
    /\ UNCHANGED <<body, phase, closing, inflight, errors, queue, receipt, channel, waiters,
                   engineVars, loop, passVars>>

\* The shutdown signal: no new requests.
Close ==
    /\ ~closing
    /\ closing' = TRUE
    /\ UNCHANGED <<body, phase, at, inflight, errors, queue, receipt, channel, waiters,
                   engineVars, loop, passVars>>

-----------------------------------------------------------------------------
(* The engine loop                                                         *)

\* Faulty: the receipt of a dropped submission takes its waiter along.
AdmitOnlyHeard(c, accepted) ==
    /\ receipt' = [receipt EXCEPT ![c] = IF accepted THEN "admitted" ELSE "refused"]
    /\ waiting' = IF accepted THEN waiting \cup {c} ELSE waiting
    /\ waiters' = IF accepted /\ Listening(c) THEN waiters \cup {c} ELSE waiters

\* admit_submission: whether or not its handler is still there.
Admit(c, accepted) ==
    /\ receipt' = [receipt EXCEPT ![c] = IF accepted THEN "admitted" ELSE "refused"]
    /\ waiting' = IF accepted THEN waiting \cup {c} ELSE waiting
    /\ waiters' = IF accepted THEN waiters \cup {c} ELSE waiters

\* The next submission.
Receive ==
    /\ queue # <<>>
    /\ queue' = Tail(queue)
    /\ \E accepted \in BOOLEAN : Admit(Head(queue), accepted)
    /\ loop' = "draining"
    /\ UNCHANGED <<body, handlerVars, channel, running, undrained, tokens, deaf, passVars>>

\* The blocking receive of an idle engine.
ReceiveIdle == loop = "top" /\ ~HasPendingWork /\ Receive

\* The receives that empty the queue before a step.
TryReceive == loop = "draining" /\ Receive

\* An engine with work does not block.
StartPass ==
    /\ loop = "top" /\ HasPendingWork
    /\ loop' = "draining"
    /\ UNCHANGED <<body, handlerVars, queue, receipt, channel, waiters, engineVars, passVars>>

\* Faulty: a receive that fails ends the loop, also one that does not block.
StopEarly ==
    /\ loop \in {"top", "draining"} /\ queue = <<>>
    /\ closing /\ \A h \in Clients : ~HoldsState(h)
    /\ loop' = "stopped"
    /\ waiters' = {}
    /\ UNCHANGED <<body, handlerVars, queue, receipt, channel, engineVars, passVars>>

\* All senders of the queue are gone.
Stop ==
    /\ loop = "top" /\ ~HasPendingWork /\ queue = <<>>
    /\ closing /\ \A h \in Clients : ~HoldsState(h)
    /\ loop' = "stopped"
    /\ waiters' = {}
    /\ UNCHANGED <<body, handlerVars, queue, receipt, channel, engineVars, passVars>>

\* What a step may do with a request of its batch that has generated n tokens
\* with it: go on, end well or fail, and with or without a chunk of text.  A
\* buffering decoder gives its text at the end only.
Fates(n) ==
    {"ok", "okChunk", "failed"}
        \cup (IF n >= MaxTokens THEN {} ELSE {"silent"})
        \cup (IF n >= MaxTokens \/ Buffered THEN {} ELSE {"chunk"})

\* step_events, and the chunks sent: one that cannot be sent tells of a client
\* that has left.
Step(started, rejected) ==
    /\ loop = "draining" /\ queue = <<>>
    /\ LET batch == running \cup started
       IN  \E fate \in [batch -> {"ok", "okChunk", "failed", "silent", "chunk"}] :
        /\ \A c \in batch : fate[c] \in Fates(tokens[c] + 1)
        /\ LET ended == {c \in batch : fate[c] \in {"ok", "okChunk", "failed"}}
               spoken == {c \in batch : fate[c] \in {"chunk", "okChunk"}}
               sent == {c \in spoken \cap waiters : Listening(c)}
           IN  /\ waiting' = waiting \ (started \cup rejected)
               /\ running' = batch \ ended
               /\ undrained' = {}
               /\ tokens' = [c \in Candidates |-> IF c \in batch THEN tokens[c] + 1 ELSE tokens[c]]
               /\ deaf' = [c \in Candidates |->
                              IF c \in (IF Buffered THEN batch ELSE spoken) /\ ~Listening(c)
                              THEN deaf[c] + 1 ELSE deaf[c]]
               /\ channel' = [c \in Candidates |->
                                 IF c \in sent THEN Append(channel[c], "chunk") ELSE channel[c]]
               /\ disconnected' = (spoken \cap waiters) \ sent
               /\ completed' = [c \in ended \cup rejected \cup undrained |->
                                   c \in ended /\ fate[c] # "failed"]
               /\ progressed' = (spoken # {} \/ DOMAIN completed' # {})
    /\ loop' = "cancelling"
    /\ UNCHANGED <<body, handlerVars, queue, receipt, waiters, idleSteps, snapshot>>

\* Faulty: the request goes on for nobody.
ForgetDisconnected ==
    /\ loop = "cancelling"
    /\ waiters' = waiters \ disconnected
    /\ loop' = "dispatching"
    /\ disconnected' = {}
    /\ UNCHANGED <<body, handlerVars, queue, receipt, channel, engineVars, completed, progressed,
                   idleSteps, snapshot>>

\* The requests of clients that have left are cancelled, except those that have
\* just ended.
CancelDisconnected ==
    /\ loop = "cancelling"
    /\ waiters' = waiters \ disconnected
    /\ waiting' = waiting \ disconnected
    /\ running' = running \ disconnected
    /\ undrained' = undrained \cup (disconnected \cap (waiting \cup running))
    /\ disconnected' = {}
    /\ loop' = "dispatching"
    /\ UNCHANGED <<body, handlerVars, queue, receipt, channel, tokens, deaf, completed,
                   progressed, idleSteps, snapshot>>

\* The channels with the results of those that have a waiter.
Dispatched(result) ==
    [c \in Candidates |->
        IF c \in waiters \cap DOMAIN result /\ Listening(c)
        THEN Append(channel[c], IF result[c] THEN "ok" ELSE "failed")
        ELSE channel[c]]

\* dispatch_completed
Dispatch ==
    /\ loop = "dispatching"
    /\ channel' = Dispatched(completed)
    /\ waiters' = waiters \ DOMAIN completed
    /\ completed' = NoResult
    /\ progressed' = (progressed \/ running # {})
    /\ loop' = "counting"
    /\ UNCHANGED <<body, handlerVars, queue, receipt, engineVars, disconnected, idleSteps,
                   snapshot>>

\* The number of active sequences at the end of a pass.
Refresh ==
    /\ snapshot' = Cardinality(running)
    /\ loop' = "top"
    /\ progressed' = FALSE

CountIdle ==
    /\ loop = "counting"
    /\ progressed \/ idleSteps + 1 < StallLimit
    /\ idleSteps' = IF progressed THEN 0 ELSE idleSteps + 1
    /\ Refresh
    /\ UNCHANGED <<body, handlerVars, queue, receipt, channel, waiters, engineVars, disconnected,
                   completed>>

\* Faulty: the results of the stall are left to the next step.
StallUndelivered ==
    /\ loop = "counting"
    /\ ~progressed /\ idleSteps + 1 >= StallLimit
    /\ waiting' = {} /\ undrained' = undrained \cup waiting
    /\ idleSteps' = 0
    /\ Refresh
    /\ UNCHANGED <<body, handlerVars, queue, receipt, channel, waiters, running, tokens, deaf,
                   disconnected, completed>>

\* Too many idle passes: what waits fails, and is drained and told at once.
Stall ==
    /\ loop = "counting"
    /\ ~progressed /\ idleSteps + 1 >= StallLimit
    /\ LET stalled == [c \in waiting \cup undrained |-> FALSE]
       IN  /\ channel' = Dispatched(stalled)
           /\ waiters' = waiters \ DOMAIN stalled
    /\ waiting' = {} /\ undrained' = {}
    /\ idleSteps' = 0
    /\ Refresh
    /\ UNCHANGED <<body, handlerVars, queue, receipt, running, tokens, deaf, disconnected,
                   completed>>

-----------------------------------------------------------------------------
EngineLoop ==
    \/ ReceiveIdle \/ TryReceive \/ StartPass \/ Stop
    \/ \E started \in SUBSET waiting : \E rejected \in SUBSET (waiting \ started) :
          Step(started, rejected)
    \/ CancelDisconnected \/ Dispatch \/ CountIdle \/ Stall

\* What a handler does by itself, one candidate's part or its own.
Handle(h) ==
    \/ Answer(h) \/ Refuse(h) \/ Break(h)
    \/ \E c \in Of(h) : Enqueue(c) \/ TakeReceipt(c) \/ Consume(c) \/ Drop(c)

Next ==
    \/ EngineLoop
    \/ \E h \in Clients :
          Handle(h) \/ Arrive(h) \/ RejectBody(h) \/ RejectParams(h) \/ Leave(h)
    \/ Close

Spec == Init /\ [][Next]_vars

\* The engine loop yields after every pass, and each handler is its own task.
FairSpec ==
    /\ Spec
    /\ WF_vars(EngineLoop)
    /\ \A c \in Candidates :
          WF_vars(Enqueue(c)) /\ WF_vars(TakeReceipt(c)) /\ WF_vars(Consume(c)) /\ WF_vars(Drop(c))
    /\ \A h \in Clients : WF_vars(Answer(h)) /\ WF_vars(Refuse(h)) /\ WF_vars(Break(h))

-----------------------------------------------------------------------------
(* Properties                                                              *)

\* The type of the server's state.
TypeOK ==
    /\ phase \in [Clients -> {"new", "active", "streaming", "answered", "malformed", "failed",
                         "broken", "left"}]
    /\ at \in [Candidates -> {"unsent", "sending", "awaiting", "listening", "ok", "failed", "gone"}]
    /\ closing \in BOOLEAN
    /\ queue \in Seq(Candidates) /\ Len(queue) <= Capacity
    /\ receipt \in [Candidates -> {"none", "admitted", "refused"}]
    /\ channel \in [Candidates -> Seq({"chunk", "ok", "failed"})]
    /\ waiters \subseteq Candidates
    /\ waiting \subseteq Candidates /\ running \subseteq Candidates
    /\ undrained \subseteq Candidates
    /\ tokens \in [Candidates -> 0 .. MaxTokens] /\ deaf \in [Candidates -> 0 .. MaxTokens]
    /\ loop \in {"top", "draining", "cancelling", "dispatching", "counting", "stopped"}
    /\ disconnected \subseteq Candidates
    /\ DOMAIN completed \subseteq Candidates
    /\ progressed \in BOOLEAN /\ idleSteps \in 0 .. StallLimit - 1
    /\ snapshot \in Nat /\ inflight \in Nat /\ errors \in Nat

\* Between passes the waiters are exactly the requests in the engine: none
\* leaks, none is forgotten (src/server.rs:689), whichever way each ended.
RoutesExact == loop \in {"top", "draining", "stopped"} => waiters = waiting \cup running

\* Whoever listens after its receipt will hear of the end: the sender of its
\* events is still with the engine loop, or the last event is already there.
\* So the error branch "engine loop ended before ..." is never taken, not even
\* while the server shuts down.
NeverCutOff ==
    \A c \in Candidates :
        at[c] = "listening" =>
            \/ c \in waiters
            \/ channel[c] # <<>> /\ channel[c][Len(channel[c])] \in {"ok", "failed"}

\* Nothing that h asked for is in the engine or on its way there.
Released(h) == \A c \in Of(h) : c \notin waiting \cup running \cup Range(queue)

\* Every accepted request is answered, unless its client leaves, also when the
\* engine can never start it, is full, or the server is shutting down; and what
\* it asked for leaves the engine, when the client has left, and when one of
\* several candidates has failed, too.
EveryoneAnswered == \A h \in Clients : Busy(h) ~> Ended(h) /\ Released(h)

\* What tests/server_integration.rs:664 says: after the client has left the
\* engine spends nothing on its request, beyond the step that notices it.
StopsForTheDeaf == \A c \in Candidates : deaf[c] <= 1
=============================================================================
