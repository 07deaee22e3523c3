------------------------------ MODULE Requests ------------------------------
(***************************************************************************)
(* What the service takes and what it turns down: the configuration it     *)
(* starts with (main.rs, config.rs), the parameters of a request           *)
(* (server.rs, types/request.rs), its encoding (tokenizer.rs), the checks  *)
(* of submit_request (engine.rs), and the status of each error (server.rs).*)
(*                                                                         *)
(* An Option is a set of at most one element.  Floating-point values are   *)
(* integers in tenths; a value that is not finite is NotFinite.            *)
(***************************************************************************)
EXTENDS Integers, Sequences, SequencesExt, Functions

CONSTANTS
    MaxCandidates,   \* MAX_CANDIDATES
    MaxStops,        \* 4, the limit of GenerationParams::validate
    MaxLogprobs      \* 5, the limit of logprobs_param and of validate

ASSUME RequestsAssumption ==
    MaxCandidates \in Nat \ {0} /\ MaxStops \in Nat /\ MaxLogprobs \in Nat

NotFinite == 1000000

Or(option, default) == IF option = {} THEN default ELSE CHOOSE v \in option : TRUE

\* What the first of a sequence of checks <<fails, result>> that fails results in.
FirstFailing(checks, ok) ==
    LET failing == {i \in DOMAIN checks : checks[i][1]}
    IN  IF failing = {} THEN ok ELSE checks[Min(failing)][2]

-----------------------------------------------------------------------------
(* Configuration.                                                          *)

Sizes == {"block_size", "max_num_blocks", "max_batch_size", "max_num_seqs",
          "max_model_len", "max_total_tokens"}

Configs == [sizes : [Sizes -> Nat], threshold : Int, tokenizer : STRING,
            path : SUBSET STRING, port : Nat, model : STRING]

\* Read by --config or built from the defaults and the flags of a command line.
ValidConfig(c) ==
    /\ \A f \in Sizes : c.sizes[f] # 0
    /\ c.threshold # NotFinite
    /\ 0 < c.threshold /\ c.threshold <= 10
    /\ c.tokenizer = "hugging_face" => c.path # {}
    /\ c.port # 0
    /\ c.model # ""
    /\ c.sizes["max_batch_size"] <= c.sizes["max_num_seqs"]

\* --config with a size or a threshold is refused, from_file validates what it
\* reads, and host, port and tokenizer override either source.
ConfigFails(cli) ==
    \/ /\ cli.file # {}
       /\ DOMAIN cli.sizes # {} \/ cli.threshold # {}
    \/ \E c \in cli.file : ~ValidConfig(c)

Configured(cli, defaults) ==
    LET base == Or(cli.file, [defaults EXCEPT
                      !.sizes = [f \in Sizes |-> IF f \in DOMAIN cli.sizes THEN cli.sizes[f] ELSE @[f]],
                      !.threshold = Or(cli.threshold, @)])
    IN  [base EXCEPT !.port = Or(cli.port, @),
                     !.tokenizer = IF cli.tokenizer # {} THEN "hugging_face" ELSE @,
                     !.path = IF cli.tokenizer # {} THEN cli.tokenizer ELSE @]

-----------------------------------------------------------------------------
(* The body of a request.                                                  *)

\* The values of unsupported parameters that change nothing and pass.
Harmless(name) ==
    CASE name = "echo" -> {"false"}
      [] name = "suffix" -> {"empty"}
      [] name \in {"frequency_penalty", "presence_penalty"} -> {"zero"}
      [] name = "best_of" -> {"one"}
      [] name \in {"tools", "functions"} -> {"empty"}
      [] OTHER -> {}

RejectUnsupported(b) == \E name \in DOMAIN b.extra : b.extra[name] \notin Harmless(name)

Roles == {"system", "user", "assistant"}

RoleLength(role) == CASE role = "user" -> 4 [] role = "system" -> 6 [] OTHER -> 9

\* "role: content" joined by line ends, or the chat template of Qwen2.
ChatPromptLength(messages, tokenizer) ==
    LET overhead == IF tokenizer = "simple" THEN 2 ELSE 12 + 1 + 10
        Line(m) == RoleLength(m.role) + overhead + m.chars
        upTo[i \in 0 .. Len(messages)] == IF i = 0 THEN 0 ELSE upTo[i - 1] + Line(messages[i])
        lines == upTo[Len(messages)]
    IN  IF tokenizer = "simple" THEN lines + Len(messages) - 1
                                ELSE lines + Len(messages) + 12 + 9

\* A chat prompt has the roles in it, so it is never blank.
Blank(b) == b.kind = "completion" /\ b.blank

PromptLength(b, tokenizer) ==
    IF b.kind = "chat" THEN ChatPromptLength(b.messages, tokenizer) ELSE b.chars

\* logprobs: true is 1 and false is 0; 0 is None.
LogprobsFail(b) == \E k \in b.logprobs : k > MaxLogprobs
Logprobs(b) == b.logprobs \ {0}

GenerationParams(b) ==
    [maxTokens |-> Or(b.max_tokens, 16), temperature |-> Or(b.temperature, 0),
     topP |-> Or(b.top_p, 10), stop |-> b.stop, logprobs |-> Logprobs(b)]

\* GenerationParams::validate
Invalid(p) ==
    FirstFailing(<<
        <<p.maxTokens = 0, "InvalidMaxTokens">>,
        <<p.temperature < 0 \/ p.temperature > 20, "InvalidTemperature">>,
        <<p.topP <= 0 \/ p.topP > 10, "InvalidTopP">>,
        <<p.stop > MaxStops, "TooManyStopSequences">>,
        <<\E k \in p.logprobs : k > MaxLogprobs, "InvalidLogprobs">> >>, "ok")

IsGreedy(p) == p.temperature = 0 /\ p.topP = 10

CandidateCount(b) == Or(b.n, 1)

\* The rejection of the body, then prepare_completion_request and
\* prepare_chat_request, in the order in which they look.
PrepareStatus(b, config) ==
    FirstFailing(<<
        <<b.malformed, 400>>,
        <<RejectUnsupported(b), 400>>,
        <<b.kind = "chat" /\ b.messages = <<>>, 400>>,
        <<b.kind = "chat" /\ \E i \in DOMAIN b.messages : b.messages[i].role \notin Roles, 400>>,
        <<Blank(b), 400>>,
        <<\E m \in b.model : m # config.model, 404>>,
        <<LogprobsFail(b), 400>>,
        <<Invalid(GenerationParams(b)) # "ok", 400>>,
        <<CandidateCount(b) = 0 \/ CandidateCount(b) > MaxCandidates, 400>> >>, 200)

-----------------------------------------------------------------------------
(* Encoding: one token a character, between BOS and EOS; the library of    *)
(* Hugging Face may join characters, drop blanks, or fail.                 *)

EncodedLengths(chars, tokenizer) ==
    IF tokenizer = "simple" THEN {chars + 2} ELSE 0 .. chars

EncodingFails(tokenizer) == IF tokenizer = "simple" THEN {FALSE} ELSE BOOLEAN

-----------------------------------------------------------------------------
(* submit_request, of a backend that can only decode greedily.             *)
SubmitError(b, config, promptTokens, encodingFails, load) ==
    LET p == GenerationParams(b)
        longest == config.sizes["max_model_len"]
    IN  FirstFailing(<<
            <<Invalid(p) # "ok", Invalid(p)>>,
            <<~IsGreedy(p), "UnsupportedGenerationMode">>,
            <<PromptLength(b, config.tokenizer) = 0, "EmptyInput">>,
            <<encodingFails, "Tokenization">>,
            <<promptTokens > longest, "InputTooLong">>,
            <<promptTokens + p.maxTokens > longest, "TotalLengthTooLong">>,
            <<load = "pressure", "MemoryPressure">>,
            <<load = "full", "MaxConcurrentSequencesReached">> >>, "ok")

\* Faulty: the total length has no status of its own.
StatusOfWithoutTotal(error) ==
    CASE error \in {"EmptyInput", "InputTooLong", "InvalidMaxTokens",
                    "InvalidTemperature", "InvalidTopP", "TooManyStopSequences",
                    "UnsupportedGenerationMode"} -> 400
      [] error \in {"MemoryPressure", "MaxConcurrentSequencesReached"} -> 429
      [] OTHER -> 500

\* From<EngineError> for ApiError.
StatusOf(error) ==
    CASE error \in {"EmptyInput", "InputTooLong", "TotalLengthTooLong", "InvalidMaxTokens",
                    "InvalidTemperature", "InvalidTopP", "TooManyStopSequences",
                    "UnsupportedGenerationMode"} -> 400
      [] error \in {"MemoryPressure", "MaxConcurrentSequencesReached"} -> 429
      [] OTHER -> 500
=============================================================================
