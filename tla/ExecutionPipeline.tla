------------------------- MODULE ExecutionPipeline -------------------------
(***************************************************************************)
(* BatchExecutionPipeline of src/execution_pipeline.rs between an engine   *)
(* and a backend that may time out, fail, or answer nonsense: building the *)
(* batch from the scheduler's output, the check of its shape, the calls    *)
(* with their retries, the check of the answer, and what the engine makes  *)
(* of it.                                                                  *)
(*                                                                         *)
(* A token is known by its sequence and its place in the context, so that  *)
(* a batch can be compared with the contexts it was built from; the blocks *)
(* of a sequence by their number.  The engine is reduced to sequences that *)
(* are new, decoding or gone, any of which a step may schedule.            *)
(***************************************************************************)
EXTENDS Integers, FiniteSets, SequencesExt

CONSTANTS
    SeqIds,             \* sequences, numbered in the order of submission
    PromptLengths,      \* the token counts that a tokenizer may return
    MaxGenerated,       \* max_tokens of every request
    BlockSize,
    MaxRetryAttempts    \* max_retry_attempts

Stranger == 0

ASSUME PipelineAssumption ==
    /\ SeqIds \subseteq Nat \ {Stranger}
    /\ PromptLengths \subseteq Nat
    /\ {MaxGenerated, BlockSize} \subseteq Nat \ {0} /\ MaxRetryAttempts \in Nat

VARIABLES
    retrySafe,      \* capabilities().retry_safe of the backend
    prompt,         \* the length of input_tokens
    generated,      \* num_generated_tokens
    phase,          \* "prefill", "decode" or "ended"
    output,         \* the SchedulerOutput of this step
    pc,             \* "idle", "building" or "calling"
    retries,        \* retries of the current execute()
    calls,          \* history: the times the backend was given this batch
    failure,        \* the error of the latest step
    written         \* external: how often the backend wrote a position

vars == <<retrySafe, prompt, generated, phase, output, pc, retries, calls, failure, written>>

ContextLen(s) == prompt[s] + generated[s]

\* get_block_table: the scheduler's blocks cover the context.
NumBlocksOf(s) == (ContextLen(s) + BlockSize - 1) \div BlockSize

Token(s, position) == <<s, position>>

Scheduled == Range(output.prefill) \cup Range(output.decode)

-----------------------------------------------------------------------------
(* build_execution_batch and validate_batch_shape                          *)

\* Faulty: the position after the last token of the context.
DecodeAfterContext(s) == <<ContextLen(s)>>

\* decode_position
DecodePositions(s) == <<ContextLen(s) - 1>>

PrefillPositions(s) == [i \in 1 .. prompt[s] |-> i - 1]

\* decode_input_token: the last generated token, or the last of the prompt.
DecodeTokens(s) == <<IF generated[s] > 0 THEN Token(s, prompt[s] + generated[s] - 1)
                                         ELSE Token(s, prompt[s] - 1)>>

PrefillTokens(s) == [i \in 1 .. prompt[s] |-> Token(s, i - 1)]

\* The prefills, then the decodes, with their tokens and positions flattened.
Build(out) ==
    LET ids == out.prefill \o out.decode
    IN  [seqIds      |-> ids,
         inputTokens |-> FlattenSeq([i \in DOMAIN out.prefill |-> PrefillTokens(out.prefill[i])]
                                    \o [i \in DOMAIN out.decode |-> DecodeTokens(out.decode[i])]),
         positions   |-> FlattenSeq([i \in DOMAIN out.prefill |-> PrefillPositions(out.prefill[i])]
                             \o [i \in DOMAIN out.decode |-> DecodePositions(out.decode[i])]),
         seqLens     |-> [i \in DOMAIN ids |->
                             IF i <= Len(out.prefill) THEN prompt[ids[i]] ELSE 1],
         blockCounts |-> [i \in DOMAIN ids |-> NumBlocksOf(ids[i])]]

Total(lengths) == FoldFunction(+, 0, lengths)

ValidShape(b) ==
    /\ Len(b.inputTokens) = Len(b.positions)
    /\ Len(b.seqLens) = Len(b.seqIds) /\ Len(b.blockCounts) = Len(b.seqIds)
    /\ Total(b.seqLens) = Len(b.inputTokens)
    /\ \A i \in DOMAIN b.seqIds : b.seqLens[i] > 0 /\ b.blockCounts[i] > 0

-----------------------------------------------------------------------------
(* validate_execution_output                                               *)

\* External: what a backend may return, the contract of the trait or not.
Answers ==
    LET n == Cardinality(SeqIds)
    IN  [ids : BoundedSeq(SeqIds \cup {Stranger}, n), tokens : 0 .. n, logprobs : 0 .. n]

\* Faulty: duplicates are not looked for.
AcceptsDuplicates(b, answer) ==
    /\ answer.tokens = Len(answer.ids)
    /\ Len(answer.ids) = Len(b.seqIds)
    /\ Range(answer.ids) \subseteq Range(b.seqIds)
    /\ answer.logprobs \in {0, Len(answer.ids)}

Accepts(b, answer) ==
    /\ answer.tokens = Len(answer.ids)
    /\ Len(answer.ids) = Len(b.seqIds)
    /\ Cardinality(Range(answer.ids)) = Len(answer.ids)
    /\ Range(answer.ids) = Range(b.seqIds)
    /\ answer.logprobs \in {0, Len(answer.ids)}

-----------------------------------------------------------------------------
Init ==
    /\ retrySafe \in BOOLEAN
    /\ prompt \in [SeqIds -> PromptLengths]
    /\ generated = [s \in SeqIds |-> 0]
    /\ phase = [s \in SeqIds |-> "prefill"]
    /\ output = [prefill |-> <<>>, decode |-> <<>>]
    /\ pc = "idle" /\ retries = 0 /\ calls = 0
    /\ failure = "none"
    /\ written = [s \in SeqIds |-> <<>>]

\* The lists of a SchedulerOutput, ordered by priority: any order.
Orders == {order \in BoundedSeq(SeqIds, Cardinality(SeqIds)) : IsInjective(order)}

\* A step of the engine with a batch that is not empty.
Schedule(prefills, decodes) ==
    /\ pc = "idle"
    /\ prefills \o decodes # <<>>
    /\ \A s \in Range(prefills) : phase[s] = "prefill"
    /\ \A s \in Range(decodes) : phase[s] = "decode"
    /\ output' = [prefill |-> prefills, decode |-> decodes]
    /\ pc' = "building"
    /\ retries' = 0 /\ calls' = 0
    /\ failure' = "none"
    /\ UNCHANGED <<retrySafe, prompt, generated, phase, written>>

\* fail_sequences: an error ends every sequence of the batch.
Fail(error) ==
    /\ phase' = [s \in SeqIds |-> IF s \in Scheduled THEN "ended" ELSE phase[s]]
    /\ failure' = error
    /\ pc' = "idle"
    /\ UNCHANGED <<retrySafe, prompt, generated, output, retries>>

Prepare ==
    /\ pc = "building"
    /\ ValidShape(Build(output))
    /\ pc' = "calling"
    /\ UNCHANGED <<retrySafe, prompt, generated, phase, output, retries, calls, failure, written>>

\* Faulty: the batch is put off instead of failed.
RejectShapeWaiting ==
    /\ pc = "building"
    /\ ~ValidShape(Build(output))
    /\ UNCHANGED vars

RejectShape ==
    /\ pc = "building"
    /\ ~ValidShape(Build(output))
    /\ Fail("shape")
    /\ UNCHANGED <<calls, written>>

\* External: the backend writes what the batch says.
Write ==
    LET b == Build(output)
        At(s) == {i \in DOMAIN b.inputTokens : b.inputTokens[i][1] = s}
        Times(s, p) == Cardinality({i \in At(s) : b.positions[i] = p})
        Before(s, p) == IF p \in DOMAIN written[s] THEN written[s][p] ELSE 0
    IN  written' = [s \in SeqIds |->
                      [p \in DOMAIN written[s] \cup {b.positions[i] : i \in At(s)} |->
                          Before(s, p) + Times(s, p)]]

Call == pc = "calling" /\ calls' = calls + 1

\* update_sequences, for the ids and tokens of the answer.
Succeed(answer) ==
    LET advanced == Range(SubSeq(answer.ids, 1, answer.tokens)) \cap SeqIds
    IN  /\ Call
        /\ Accepts(Build(output), answer)
        /\ Write
        /\ generated' = [s \in SeqIds |-> generated[s] + (IF s \in advanced THEN 1 ELSE 0)]
        /\ phase' = [s \in SeqIds |->
                        IF s \notin advanced THEN phase[s]
                        ELSE IF generated'[s] >= MaxGenerated THEN "ended" ELSE "decode"]
        /\ pc' = "idle"
        /\ UNCHANGED <<retrySafe, prompt, output, retries, failure>>

RejectAnswer(answer) ==
    /\ Call
    /\ ~Accepts(Build(output), answer)
    /\ Fail("malformed")
    /\ Write \/ UNCHANGED written

\* Faulty: any backend is tried again.
MayRetryAlways == retries < MaxRetryAttempts

MayRetry == retrySafe /\ retries < MaxRetryAttempts

\* Faulty: the attempt is not counted.
RetryUncounted ==
    /\ Call
    /\ MayRetry
    /\ Write \/ UNCHANGED written
    /\ UNCHANGED <<retrySafe, prompt, generated, phase, output, pc, retries, failure>>

\* GpuTimeout; the backend may or may not have written the batch.
Retry ==
    /\ Call
    /\ MayRetry
    /\ retries' = retries + 1
    /\ Write \/ UNCHANGED written
    /\ UNCHANGED <<retrySafe, prompt, generated, phase, output, pc, failure>>

TimeOut ==
    /\ Call
    /\ ~MayRetry
    /\ Fail("timeout")
    /\ Write \/ UNCHANGED written

\* Any other error is returned at once.
BackendError ==
    /\ Call
    /\ Fail("backend")
    /\ Write \/ UNCHANGED written

Execute ==
    \/ Prepare \/ RejectShape
    \/ \E answer \in Answers : Succeed(answer) \/ RejectAnswer(answer)
    \/ Retry \/ TimeOut \/ BackendError

Next == (\E prefills, decodes \in Orders : Schedule(prefills, decodes)) \/ Execute

Spec == Init /\ [][Next]_vars

\* A backend answers each call in the end.
FairSpec == Spec /\ WF_vars(Execute)

-----------------------------------------------------------------------------
(* Properties                                                              *)

\* A batch continues each context where the earlier ones left it: step after
\* step, every position is fed exactly once and in order, with the token that
\* the context has there (src/execution_pipeline.rs:259), and after the batch
\* nothing but the next token is missing.  The tokens of a sequence stand
\* together.
ContinuesContext ==
    pc = "calling" /\ calls = 0 =>
        LET b == Build(output)
        IN  /\ \A i \in DOMAIN b.inputTokens : b.inputTokens[i][2] = b.positions[i]
            /\ \A s \in Scheduled : \E first \in DOMAIN b.inputTokens :
                  LET mine == {i \in DOMAIN b.inputTokens : b.inputTokens[i][1] = s}
                      fed  == Cardinality(DOMAIN written[s])
                  IN  /\ mine = first .. first + (ContextLen(s) - fed) - 1
                      /\ \A i \in mine : b.inputTokens[i] = Token(s, fed + (i - first))

\* A backend that cannot take a batch twice is not given it twice: no position
\* is written again, whatever timed out after it was applied.
WrittenOnce ==
    ~retrySafe => \A s \in SeqIds : \A p \in DOMAIN written[s] : written[s][p] = 1

\* A timeout is final only when the attempts are used up, and the attempts of
\* one batch are not charged to the next: max_retry_attempts + 1 calls, or one.
AttemptsUsedUp ==
    /\ calls <= (IF retrySafe THEN MaxRetryAttempts + 1 ELSE 1)
    /\ failure = "timeout" /\ retrySafe => calls = MaxRetryAttempts + 1

\* A broken backend cannot leave a sequence stuck (CHANGELOG.md:147): a
\* step either gives every sequence of its batch one more token, or ends them
\* all.
AllOrNothing ==
    [][pc = "calling" /\ pc' = "idle" =>
          \/ \A s \in Scheduled : phase'[s] = "ended" /\ generated'[s] = generated[s]
          \/ \A s \in Scheduled : generated'[s] = generated[s] + 1]_vars

\* An execution returns, however often the backend times out.
Returns == pc # "idle" ~> pc = "idle"

=============================================================================
