---------------------------- MODULE Conversation ----------------------------
(***************************************************************************)
(* One request from end to end: the service starts (main.rs), a client     *)
(* sends a body, the handler and the engine check it (Requests), the       *)
(* answer is a status or a stream of SSE events (server.rs), the network   *)
(* delivers the stream in pieces of any size or breaks, and run_request of *)
(* the load generator (bin/loadgen.rs) makes a record of it.               *)
(*                                                                         *)
(* The events of a stream are sent byte by byte here, up to what the       *)
(* parser tells apart: a frame is the two halves of its payload -- a split *)
(* between them stands for one inside a line or inside a character -- and  *)
(* the line ends.                                                          *)
(***************************************************************************)
EXTENDS Requests, FiniteSets

CONSTANTS
    CommandLines,    \* the command lines the service may be started with
    Defaults,        \* EngineConfig::default()
    Bodies,          \* the bodies a client may send
    ServerKinds,     \* [foreign, crlf, usage]: this service, or another one the
                     \* load generator is pointed at
    Pieces,          \* what one token may decode to, "" among them
    MaxChunks,       \* bound: chunks of a stream
    MaxComments      \* bound: keep-alive comments of a stream

\* An Option of a number.
IsOption(o) == o \subseteq Int /\ \A v, w \in o : v = w

\* What Deserialize makes of a body; an empty prompt is blank.
ASSUME ConversationAssumption ==
    /\ \A b \in Bodies :
          /\ b.malformed \in BOOLEAN /\ b.blank \in BOOLEAN
          /\ b.kind \in {"completion", "chat"} /\ {b.chars, b.stop} \subseteq Nat
          /\ \A o \in {b.max_tokens, b.temperature, b.top_p, b.logprobs, b.n} : IsOption(o)
          /\ b.max_tokens \cup b.logprobs \cup b.n \subseteq Nat
          /\ b.messages \in Seq([role : STRING, chars : Nat])
          /\ b.kind = "completion" /\ b.chars = 0 => b.blank
    /\ {MaxChunks, MaxComments} \subseteq Nat
    /\ Defaults \in Configs
    /\ \A c \in CommandLines : /\ c.file \subseteq Configs
                               /\ c.sizes \in [DOMAIN c.sizes -> Nat]
                               /\ DOMAIN c.sizes \subseteq Sizes

VARIABLES
    cli, config,     \* how the service was started
    server,          \* which service it is
    phase,           \* where the handler is
    body,            \* the request
    promptTokens,    \* the length of its encoding
    admitted,        \* how many candidates the engine has admitted
    trouble,         \* what went wrong on the service's side, "" if nothing
    status,          \* the status line, 0 before
    sent,            \* the payloads written so far
    wire,            \* the bytes written and not delivered
    buf,             \* the client's buffer
    seen,            \* what run_request has gathered
    record           \* its RequestRecord, NoRecord before

serviceVars == <<cli, config, server>>
clientVars == <<buf, seen, record>>
vars == <<cli, config, server, phase, body, promptTokens, admitted, trouble, status,
          sent, wire, buf, seen, record>>

None == -1

P(type, text, tokens, reason) ==
    [type |-> type, text |-> text, tokens |-> tokens, reason |-> reason]
Plain(type) == P(type, "", None, "")

NothingSeen == [texts |-> <<>>, tokens |-> None, reason |-> "", failure |-> "", done |-> FALSE]

NoRecord == [made |-> FALSE, ok |-> FALSE, class |-> "", texts |-> <<>>,
             tokens |-> None, reason |-> ""]

Init ==
    /\ cli \in CommandLines
    /\ config = Configured(cli, Defaults)
    /\ server \in ServerKinds
    /\ phase = "starting"
    /\ body \in Bodies
    /\ promptTokens = None
    /\ admitted = 0
    /\ trouble = ""
    /\ status = 0
    /\ sent = <<>>
    /\ wire = <<>>
    /\ buf = <<>>
    /\ seen = NothingSeen
    /\ record = NoRecord

-----------------------------------------------------------------------------
(* The service starts: main, create_router, InferenceEngine::new.  The     *)
(* address is free to bind.                                                *)

Exit ==
    /\ phase = "starting"
    /\ \/ ConfigFails(cli)
       \/ ~ValidConfig(config)
       \/ config.tokenizer = "hugging_face"      \* the file cannot be read
    /\ phase' = "exited"
    /\ UNCHANGED <<serviceVars, body, promptTokens, admitted, trouble, status, sent, wire,
                   clientVars>>

Serve ==
    /\ phase = "starting"
    /\ ~ConfigFails(cli)
    /\ ValidConfig(config)
    /\ phase' = "listening"
    /\ UNCHANGED <<serviceVars, body, promptTokens, admitted, trouble, status, sent, wire,
                   clientVars>>

-----------------------------------------------------------------------------
(* The handler.                                                            *)

Respond(code) ==
    /\ phase' = IF code = 200 THEN "streaming" ELSE "closed"
    /\ status' = code

\* send() of the client reaches the handler, which refuses the body or goes on.
Prepare ==
    /\ phase = "listening"
    /\ ~record.made
    /\ LET code == PrepareStatus(body, config)
       IN  IF code = 200 THEN phase' = "submitting" /\ UNCHANGED status ELSE Respond(code)
    /\ UNCHANGED <<serviceVars, body, promptTokens, admitted, trouble, sent, wire, clientVars>>

Stream(b) == Or(b.stream, FALSE)

\* One candidate is submitted.  The engine is as loaded as others have made it.
Submit ==
    /\ phase = "submitting"
    /\ \E length \in EncodedLengths(PromptLength(body, config.tokenizer), config.tokenizer),
          fails \in EncodingFails(config.tokenizer),
          load \in {"free", "pressure", "full"} :
         LET error == SubmitError(body, config, length, fails, load)
         IN  /\ promptTokens \in {None, length}
             /\ promptTokens' = length
             /\ trouble' = IF error = "Tokenization" THEN "encoding"
                           ELSE IF load # "free" THEN "load" ELSE ""
             /\ IF error # "ok"
                THEN Respond(StatusOf(error)) /\ UNCHANGED admitted
                ELSE /\ admitted' = admitted + 1
                     /\ IF admitted' < CandidateCount(body)
                        THEN UNCHANGED <<phase, status>>
                        ELSE IF Stream(body) THEN Respond(200)
                        ELSE phase' = "generating" /\ UNCHANGED status
    /\ UNCHANGED <<serviceVars, body, sent, wire, clientVars>>

\* The engine loop has panicked when the handler sends or waits for its receipt.
SubmitToNobody ==
    /\ phase = "submitting"
    /\ trouble' = "loop"
    /\ Respond(500)
    /\ UNCHANGED <<serviceVars, body, promptTokens, admitted, sent, wire, clientVars>>

\* Without streaming: all candidates have ended well, or one has failed.
AnswerUnary ==
    /\ phase = "generating"
    /\ phase' = "closed"
    /\ \/ status' = 200 /\ UNCHANGED trouble
       \/ status' = 500 /\ trouble' = "execution"
    /\ UNCHANGED <<serviceVars, body, promptTokens, admitted, sent, wire, clientVars>>

-----------------------------------------------------------------------------
(* stream_response: the events of the one candidate of a loadgen request.  *)

Byte(c, p) == [c |-> c, p |-> p]

Frame(p) ==
    LET end(c) == Byte(c, Plain("comment"))
        line == IF server.crlf THEN <<end("CR"), end("LF")>> ELSE <<end("LF")>>
    IN  (IF p.type = "comment" THEN <<Byte("colon", p)>>
                               ELSE <<Byte("head", p), Byte("tail", p)>>)
        \o line \o line

Frames(ps) == FlattenSeq([i \in DOMAIN ps |-> Frame(ps[i])])

Write(ps) ==
    /\ sent' = sent \o ps
    /\ wire' = wire \o Frames(ps)

Chunks == {i \in DOMAIN sent : sent[i].type = "chunk"}
Comments == {i \in DOMAIN sent : sent[i].type = "comment"}

\* What the load generator asks for; streams of chats and of several candidates
\* are module Server's.
LoadGenBody(b) == Stream(b) /\ b.kind = "completion" /\ CandidateCount(b) = 1

Streaming == phase = "streaming" /\ LoadGenBody(body)

\* Each token is a chunk, unless it decodes to nothing at all.
SendChunk ==
    /\ Streaming
    /\ Cardinality(Chunks) < MaxChunks
    /\ \E piece \in Pieces : Write(<<P("chunk", piece, None, "")>>)
    /\ UNCHANGED <<serviceVars, phase, body, promptTokens, admitted, trouble, status, clientVars>>

KeepAlive ==
    /\ Streaming
    /\ Cardinality(Comments) < MaxComments
    /\ Write(<<Plain("comment")>>)
    /\ UNCHANGED <<serviceVars, phase, body, promptTokens, admitted, trouble, status, clientVars>>

\* Done(success): the final payload and [DONE].
Finish ==
    /\ Streaming
    /\ LET tokens == IF server.usage THEN Cardinality(Chunks) + 1 ELSE None
       IN  Write(<<P("final", "", tokens, "stop"), Plain("done")>>)
    /\ phase' = "closed"
    /\ UNCHANGED <<serviceVars, body, promptTokens, admitted, trouble, status, clientVars>>

\* Done(failure), or the events end without a Done: an error and [DONE].
Fail ==
    /\ Streaming
    /\ Write(<<Plain("error"), Plain("done")>>)
    /\ trouble' = "execution"
    /\ phase' = "closed"
    /\ UNCHANGED <<serviceVars, body, promptTokens, admitted, status, clientVars>>

\* The process ends in the middle of the stream.
Vanish ==
    /\ Streaming
    /\ trouble' = "process"
    /\ phase' = "closed"
    /\ UNCHANGED <<serviceVars, body, promptTokens, admitted, status, sent, wire, clientVars>>

\* Another service sends what is not JSON.
Garble ==
    /\ Streaming
    /\ server.foreign
    /\ Write(<<Plain("junk")>>)
    /\ trouble' = "protocol"
    /\ phase' = "closed"
    /\ UNCHANGED <<serviceVars, body, promptTokens, admitted, status, clientVars>>

-----------------------------------------------------------------------------
(* run_request.                                                            *)

MakeRecord(ok, class, s) ==
    record' = [made |-> TRUE, ok |-> ok, class |-> class, texts |-> s.texts,
               tokens |-> s.tokens, reason |-> s.reason]

\* send() fails: nobody listens, the connection breaks, or the time is up.
SendFails ==
    /\ ~record.made
    /\ status = 0
    /\ phase # "starting"
    /\ \E class \in {"connection", "timeout"} :
          /\ phase = "exited" => class = "connection"
          /\ MakeRecord(FALSE, class, NothingSeen)
    /\ phase' = IF phase = "exited" THEN phase ELSE "closed"
    /\ UNCHANGED <<serviceVars, body, promptTokens, admitted, trouble, status, sent, wire, buf,
                   seen>>

ReadStatus ==
    /\ ~record.made
    /\ status \notin {0, 200}
    /\ MakeRecord(FALSE,
                  CASE status = 429 -> "http_429"
                    [] status \in 400 .. 499 \ {429} -> "http_4xx"
                    [] OTHER -> "http_5xx",
                  NothingSeen)
    /\ UNCHANGED <<serviceVars, phase, body, promptTokens, admitted, trouble, status, sent, wire,
                   buf, seen>>

Reading == ~record.made /\ status = 200 /\ LoadGenBody(body)

\* Where the first event of the buffer ends, and how long its delimiter is.
Is(b, i, cs) == i + Len(cs) - 1 <= Len(b) /\ \A k \in DOMAIN cs : b[i + k - 1].c = cs[k]
Boundaries(b) ==
    {<<i, 2>> : i \in {j \in DOMAIN b : Is(b, j, <<"LF", "LF">>)}}
        \cup {<<i, 4>> : i \in {j \in DOMAIN b : Is(b, j, <<"CR", "LF", "CR", "LF">>)}}
Boundary(b) == CHOOSE x \in Boundaries(b) : \A y \in Boundaries(b) : x[1] <= y[1]

\* The data of an event: nothing without a "data:" line, and not JSON unless whole.
Data(event) ==
    LET heads == {i \in DOMAIN event : event[i].c = "head"}
    IN  IF heads = {} THEN Plain("comment")
        ELSE IF Len(event) = 2 /\ event[1].c = "head" /\ event[2].c = "tail"
                  /\ event[1].p = event[2].p THEN event[1].p
        ELSE Plain("junk")

\* Faulty: the buffer holds one delivery, not what is left of the one before.
DeliverAfresh ==
    /\ Reading
    /\ Boundaries(buf) = {}
    /\ \E n \in DOMAIN wire :
         /\ buf' = SubSeq(wire, 1, n)
         /\ wire' = SubSeq(wire, n + 1, Len(wire))
    /\ UNCHANGED <<serviceVars, phase, body, promptTokens, admitted, trouble, status, sent, seen,
                   record>>

\* The next bytes arrive, as many as the network likes.
Deliver ==
    /\ Reading
    /\ Boundaries(buf) = {}
    /\ \E n \in DOMAIN wire :
         /\ buf' = buf \o SubSeq(wire, 1, n)
         /\ wire' = SubSeq(wire, n + 1, Len(wire))
    /\ UNCHANGED <<serviceVars, phase, body, promptTokens, admitted, trouble, status, sent, seen,
                   record>>

\* What one payload adds to what has been seen.
After(s, p) ==
    CASE p.type = "comment" -> s
      [] p.type = "done" -> [s EXCEPT !.done = TRUE]
      [] p.type = "junk" -> [s EXCEPT !.failure = "protocol_error"]
      [] p.type = "error" -> [s EXCEPT !.failure = "stream_error"]
      [] OTHER -> [s EXCEPT !.tokens = IF p.tokens = None THEN @ ELSE p.tokens,
                            !.reason = IF p.reason = "" THEN @ ELSE p.reason,
                            !.texts = IF p.text = "" THEN @ ELSE Append(@, p.text)]

\* A failure of the stream counts before a missing [DONE].
Conclude(s) ==
    MakeRecord(s.failure = "" /\ s.done,
               IF s.failure # "" THEN s.failure ELSE IF s.done THEN "" ELSE "no_done", s)

ReadEvent ==
    /\ Reading
    /\ Boundaries(buf) # {}
    /\ LET at == Boundary(buf)
           next == After(seen, Data(SubSeq(buf, 1, at[1] - 1)))
       IN  /\ buf' = SubSeq(buf, at[1] + at[2], Len(buf))
           /\ seen' = next
           /\ IF next.failure # "" \/ next.done THEN Conclude(next) ELSE UNCHANGED record
    /\ UNCHANGED <<serviceVars, phase, body, promptTokens, admitted, trouble, status, sent, wire>>

\* The stream has ended.
ReadEnd ==
    /\ Reading
    /\ Boundaries(buf) = {}
    /\ phase = "closed" /\ wire = <<>>
    /\ Conclude(seen)
    /\ UNCHANGED <<serviceVars, phase, body, promptTokens, admitted, trouble, status, sent, wire,
                   buf, seen>>

\* The connection breaks, or the time of the request is up while it is read.
\* The handler is dropped with it.
ReadFails ==
    /\ Reading
    /\ Boundaries(buf) = {}
    /\ seen' = [seen EXCEPT !.failure = "stream_error"]
    /\ Conclude(seen')
    /\ trouble' = "network"
    /\ phase' = "closed"
    /\ wire' = <<>>
    /\ UNCHANGED <<serviceVars, body, promptTokens, admitted, status, sent, buf>>

-----------------------------------------------------------------------------
Next ==
    \/ Exit \/ Serve
    \/ Prepare \/ Submit \/ SubmitToNobody \/ AnswerUnary
    \/ SendChunk \/ KeepAlive \/ Finish \/ Fail \/ Vanish \/ Garble
    \/ SendFails \/ ReadStatus
    \/ Deliver \/ ReadEvent \/ ReadEnd \/ ReadFails

Spec == Init /\ [][Next]_vars

-----------------------------------------------------------------------------
(* Properties                                                              *)

\* What the documentation of the parameters allows, said without the order in
\* which the code looks.
ParamsAllowed ==
    /\ ~body.malformed
    /\ \A name \in DOMAIN body.extra : body.extra[name] \in Harmless(name)
    /\ body.kind = "completion" => ~body.blank
    /\ body.kind = "chat" => body.messages # <<>> /\ \A i \in DOMAIN body.messages :
                                                        body.messages[i].role \in Roles
    /\ 0 \notin body.max_tokens
    /\ body.temperature \subseteq {0} /\ body.top_p \subseteq {10}
    /\ body.stop <= MaxStops
    /\ body.logprobs \subseteq 0 .. MaxLogprobs
    /\ body.n \subseteq 1 .. MaxCandidates
ModelServed == body.model \subseteq {config.model}
LengthFits ==
    promptTokens + Or(body.max_tokens, 16) <= config.sizes["max_model_len"]

\* The status tells the truth about who is at fault: 400 and 404 for a body that
\* is not allowed or does not fit, and only for one; 429 for a load of others;
\* 500 for the service alone, never for a parameter that slipped through.
StatusTruthful ==
    status # 0 =>
        /\ ValidConfig(config)
        /\ status = 404 => ~ModelServed
        /\ status = 400 => ~ParamsAllowed \/ ~LengthFits
        /\ status \in {200, 429} => ParamsAllowed /\ ModelServed /\ LengthFits
        /\ status = 429 => trouble = "load"
        /\ status = 500 => trouble \in {"encoding", "loop", "execution"}

TextsOf(ps) ==
    FlattenSeq([i \in DOMAIN ps |-> IF ps[i].text = "" THEN <<>> ELSE <<ps[i].text>>])

\* The record of the load generator tells what the service did, however the
\* network cut the stream: a request is ok only if it ended well, and then has
\* the whole text, count and reason; a failure has the class of its cause.
RecordTruthful ==
    record.made =>
        /\ record.ok =>
              /\ trouble \notin {"execution", "process", "protocol", "network"}
              /\ record.texts = TextsOf(sent)
              /\ record.tokens = IF server.usage THEN Cardinality(Chunks) + 1 ELSE None
              /\ record.reason = "stop"
        /\ IsPrefix(record.texts, TextsOf(sent))
        /\ ~record.ok =>
              CASE record.class \in {"connection", "timeout"} -> status = 0
                [] record.class = "http_429" -> status = 429
                [] record.class = "http_4xx" -> status \in {400, 404}
                [] record.class = "http_5xx" -> status = 500
                [] record.class = "stream_error" -> trouble \in {"network", "execution"}
                [] record.class = "protocol_error" -> server.foreign /\ trouble = "protocol"
                [] record.class = "no_done" -> trouble = "process"
                [] OTHER -> FALSE
=============================================================================
