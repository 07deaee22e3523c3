# Verification of paged-serving

TLA+ models of this repository (a serving engine for large language models with a paged
KV cache and continuous batching, its HTTP server and its load generator), TLC runs that
check them on small instances, and TLAPS proofs of the main results for every value of
the constants. Paths below are relative to the repository.

Run `tlc -config X.cfg M` for a run and `tlapm M.tla` for the proofs of a module.
`PROJECT.json` lists the runs, the hazards they are for, and for every definition the
lines it models.

## 1. Inventory

| Component | Source | State | Operations |
|---|---|---|---|
| KV cache | `src/kv_cache.rs` | reference counts, FIFO free list, one page table per sequence | allocate a sequence, allocate a block, free a sequence, statistics |
| Scheduler | `src/scheduler.rs`, `src/types/` | waiting queue, prefill and decode collections, terminal requests not drained, pressure flag | add, schedule, update with an output, fail, cancel, complete by stop sequence, fail all waiting, drain |
| Engine | `src/engine.rs` | scheduler, pipeline, one incremental decoder per request, counters | submit, step, cancel, run with a stall limit, metrics |
| Execution pipeline | `src/execution_pipeline.rs` | retry configuration | build and validate a batch, execute with retries, validate the output |
| Executors | `src/gpu_executor.rs`, `src/cpu_executor.rs`, `src/tiny_llm_executor.rs` | mock: counters; cpu: key and value blocks, a table per sequence; tiny-llm: slots and capacities | execute a batch, forget finished sequences |
| Tokenizer | `src/tokenizer.rs` | per request: tokens seen, text emitted | encode, push a token, finish |
| Server | `src/server.rs` | submission queue, a receipt and an event channel per candidate, waiters, gauges | check a body, submit, engine loop, answer or stream one or several candidates |
| Configuration, errors, command line | `src/config.rs`, `src/error.rs`, `src/main.rs` | none that outlives a call | validate, combine a file with options, map an error to a status |
| Load generator | `src/bin/loadgen.rs` | two atomic counters, the records, an SSE parser per request | warm up, measure with workers or by arrivals, sum up |
| Test helpers, build script, benches, examples | `src/test_utils.rs`, ... | | |

How they interact. One thread owns the engine (`engine_loop` of `src/server.rs`), which
owns the scheduler, which owns the KV cache; every method takes `&mut self`, so a call
is never interrupted by another on the same state. Handlers of HTTP requests are
concurrent tasks: they talk to that thread through a bounded queue of submissions, learn
through a oneshot whether they were admitted, and hear of the tokens through one channel
of events per candidate. An engine step is: `schedule()` builds a batch of clones of
sequences; the pipeline executes it on the backend; `update_sequences()` or
`fail_sequences()` applies the result; the engine looks for stop sequences and decodes
the new tokens; the terminal requests are drained, the backend is told of them
(`sequences_finished`) and they are returned. Cancels and submissions happen between two
steps. The load generator is a program of its own that talks to the server over HTTP.

What is hard.
- Block accounting: blocks are taken in two places and given back on nine ways out of
  the scheduler.
- One pass of `schedule()` is three loops that change what they iterate over and share
  two limits, with reserves computed one step ahead.
- The batch is a copy; it must still be true when it is executed.
- Failures are applied by id, in whatever collection the id is.
- A request that can never run must not wait: the driver would spin.
- A backend keeps state per sequence but hears of its end only at the next drain, when
  the scheduler may have given its blocks to another one.
- A batch that timed out may have been applied; one bad sequence fails them all.
- Between threads: disconnects, a blocking receive, full channels, merged streams,
  siblings of a candidate that failed, a shutdown with work in hand.
- Between programs: a stream cut anywhere, workers that share counters.

What makes each part correct.
- *KV cache*: no block lost, none with two owners; the counters the scheduler reads are
  those of the tables.
- *Scheduler*: each request in one place and with one outcome; blocks exactly with the
  active sequences; batches within limits and true; active sequences never passed over;
  the reserve sufficient; overtaking only by smaller requests; waiting only for others;
  every request ends.
- *Engine*: one result per request; the text of the chunks is the text of the result;
  `finish_reason` says why it ended; counters add up.
- *Pipeline*: each context position is fed once and in order, also after a timeout; a
  batch gets on as a whole or ends as a whole.
- *Backends*: no sequence attends to what another one wrote; what is kept for a sequence
  goes when it ends.
- *Server*: every submission is answered, or its client is gone and it is cancelled; the
  engine thread never blocks with work or results in hand.
- *Load generator*: nothing else is measured than what is reported.

## 2. Modules

| Module | Models | Extends |
|---|---|---|
| `BlockOwnership` | abstract: blocks are free or have one holder | |
| `KVCache` | `src/kv_cache.rs` | |
| `RequestLifecycle` | abstract: waiting, running, finished, reported | |
| `Scheduler` | `src/scheduler.rs`, in the order the engine's step calls it | `KVCache` |
| `Scheduler_proofs` | the invariants of the cache and of the scheduler, the refinements of `BlockOwnership` and `RequestLifecycle`, what a batch holds, who waits, who is overtaken | `Scheduler` |
| `Engine` | `src/engine.rs` and the decoders of `src/tokenizer.rs`, over an abstract scheduler | |
| `Engine_proofs` | its invariants, those about text included | `Engine`, `SequenceFacts` |
| `ExecutionPipeline` | `src/execution_pipeline.rs` between engine and backend | |
| `ExecutionPipeline_proofs` | attempts, that a batch stays together, continues contexts and is written once | `ExecutionPipeline`, `SequenceFacts` |
| `Executor` | the contract of a backend, as the scheduler drives it | `Scheduler` |
| `CpuExecutor`, `TinyLlmExecutor` | `src/cpu_executor.rs`, `src/tiny_llm_executor.rs` | `Executor` |
| `Backends` | an engine over one of the two | both |
| `Backends_proofs` | the invariants of both | `Backends`, `Scheduler_proofs` |
| `Server` | handlers, channels and `engine_loop` of `src/server.rs` | |
| `Server_proofs` | its invariants | `Server` |
| `LoadGen` | `src/bin/loadgen.rs`: workers, arrivals, `main`, the summary | |
| `LoadGen_proofs` | its invariant | `LoadGen` |
| `Requests` | pure: what is taken, what is turned down and with which status | |
| `Conversation` | one request from the command line of the service to the record of the load generator | `Requests` |
| `Conversation_proofs` | its invariants | `Conversation`, `SequenceFacts` |
| `SequenceFacts` | lemmas: induction, and what `FlattenSeq` and the other recursive helpers compute | |
| `MCScheduler`, `MCEngine`, `MCExecutionPipeline`, `MCBackends`, `MCServer`, `MCLoadGen`, `MCConversation` | instances for TLC | |

### KVCache

`refCount`, `freeList` and `pageTables` are the fields of `BlockPool` and
`KVCacheManager`. A call that returns an error changes nothing, so an action is the
successful call and its guard the condition of success; the scheduler's model tells the
error by the guard being false. `Released` keeps the idempotent double free of line 100:
a block whose count is zero already is not put back again. It is written with a first
arm for tables without such a block, so that proofs need no induction over `SelectSeq`;
both arms agree where both apply. Blocks are handed out in the order of the list, as in
the code.

### Scheduler

A request is its sequence id. `pending`, `prefill`, `decode`, `completed` are the
collections of `Scheduler`; `reported` is what the engine has drained, a history
variable. `logicalBlocks` and `generated` are the fields of `Sequence` that matter. The
queue is a set: every scan sorts it by priority and id before it reads it, so its order
is never seen. A terminal request carries the reason for which it ended instead of a
message.

The calls are unfolded: `pc` names the loop a step is in, `todo` the ids still to visit,
and an iteration is one action. No other call is enabled in the middle of a pass,
because the code holds `&mut self`.

| `pc` | Code | Actions |
|---|---|---|
| `idle` | between steps | `AddRequest`, `FailByRequestId`, `FailPendingRequests`, `BeginSchedule` |
| `decode` | first loop of `schedule()` | `DecodeInPlace`, `DecodeGrow`, `DecodeOutOfBlocks`, `EndDecode` |
| `prefill` | second loop | `ResumePrefill`, `EndPrefill` |
| `pending` | third loop | `DeferPending`, `RejectPending`, `StartPrefill`, `EndSchedule` |
| `executing` | `execute()` | `UpdateSequences`, `ExecutionError` |
| `finishing` | the two last loops of `update_sequences()`, or `fail_sequences()` | `FailNext`, `CompleteNext`, `EndUpdate` |
| `collecting` | stop sequences, decoding, drain | `CompleteByStopSequence`, `FailByRequestId`, `TakeCompleted` |

The first loop of `update_sequences()` is one action: its iterations touch different
sequences. An output is a function from ids to a word, the end of sequence or nothing.
With `PartialOutputs = TRUE` it is any such function on any set of ids, the defensive
branches of the scheduler; with `FALSE` it names exactly the batch, which is what the
pipeline's validation lets through. Tokens have no other content. `memory_threshold` is
a fraction of integers; `Watermark` and `HighUtilization` compute with it exactly, where
the code rounds to `f32`. `CompleteByStopSequence` may hit any active request, a
superset of those the engine has just given a token.

### Engine

The engine's own work around the scheduler. The scheduler is taken at the level of
`RequestLifecycle`, which `Scheduler` implements: `Schedule` starts, rejects and fails
for want of blocks whatever requests it likes, and every running request is in the batch
(`ActiveAlwaysScheduled` of `Scheduler` justifies it for outputs that the pipeline lets
through). Submissions that are refused change nothing and are left out. A token has a
text, a sequence of characters, empty for special tokens; the text of several is the
joined text of each, which is exact for `SimpleTokenizer` and an idealisation of subword
tokenizers. `Buffered` chooses between the decoders of `SimpleTokenizer` and
`HuggingFaceTokenizer`. Neither has undecodable tokens when pushing; the trait allows
them, the code handles them, and `Undecodable` has them.

One step is `Schedule`, `Execute` or `ExecutionError`, `ApplyStopSequences`,
`DecodeGenerated`, `EndStep`, in that order; `run()` is `StartRun`, steps, then `Stall`
or `LeaveLoop`, and `Return`. `generated` is the local variable of a step, `idleSteps`
that of `run()`. `stream` is a history variable: the chunks of all steps joined.
Logprobs are left out: they follow the output tokens.

### ExecutionPipeline

`Schedule` gives the pipeline any prefills and decodes in any order, and `Build` is
`build_execution_batch`. A token is its sequence and its position, so that a batch can
be compared with the contexts it was made from. `Prepare`, `RejectShape`, `Succeed`,
`RejectAnswer`, `Retry`, `TimeOut` and `BackendError` are the ways through `execute()`;
the error ends all sequences of the batch, as `fail_sequences()` does. The backend is
external: a call that times out or fails may or may not have written the keys and values
(`written` counts how often each position was), and an answer is any list of ids,
duplicates and strangers among them. A prompt length of zero stands for a tokenizer that
returns no token for a text.

### Executor, CpuExecutor, TinyLlmExecutor, Backends

`Executor` splits the next-state relation of `Scheduler` into what happens between two
calls of a backend and those calls; it assumes that outputs are about the batch, as the
pipeline makes sure. `CpuExecutor` keeps `kv_cache` and `seq_block_tables`. A slot of a
block holds the id of the sequence that wrote it, which is all that the properties ask;
the two layers are written and deleted alike and are one. `CpuExecute` is a call that
succeeds; `CpuExecuteFails(e)` is one where the forward pass of `e` finds a block
missing, after those before it have left their traces. `CpuDrain` is the drain with
`sequences_finished`. The errors for a batch over the limits cannot occur by `TypeOK`
and `BatchSound`.

`TinyLlmExecutor` keeps `allocated` (the capacities given at prefill) and the library's
`slots`: `RejectBatch`, `RejectSequence(e)` for no slot or no capacity with the slots of
the earlier ones kept, `Run`, `TinyDrain`. The library is external and has as many slots
as the adapter asks it for, `max_batch_size` cut to `PAGED_SERVING_TINY_LLM_MAX_SEQS`.
Widths of `i32` are assumed not to be reached. `Backends` is an engine over one of the
two, chosen at the start.

### Server

A candidate (one of the `n` of a request) stands for its request id. `phase` is where
the handling of an HTTP request is, `at` where each of its candidates is:

| Code | Actions |
|---|---|
| a request arrives, its body or parameters are turned down | `Arrive`, `RejectBody`, `RejectParams` |
| `submit`: room in the queue, then the receipt | `Enqueue`, `TakeReceipt` |
| `generate`, a stream, merged streams | `ConsumeGenerated`, `ConsumeStreamed`, `ConsumeMerged` |
| the end of a handler | `Answer`, `Refuse`, `Break` |
| the client goes, what it leaves is dropped | `Leave`, `Drop` |
| `shutdown_signal` | `Close` |
| `engine_loop`: blocking receive, `try_recv`, a pass | `ReceiveIdle`, `TryReceive`, `StartPass`, `Stop` |
| of a pass: `step_events`, cancels, results, the stall limit | `Step`, `CancelDisconnected`, `Dispatch`, `CountIdle`, `Stall` |

`waiting`, `running`, `undrained` are the requests in the engine, at the level of what
`step_events` returns; what a step does to each is `Fates`. The parts of a pass are
atomic: it only sends on channels that no one else sends on, and handlers only see what
arrives. `waiters`, `disconnected`, `completed`, `progressed`, `idleSteps` are variables
of the loop; `snapshot` is what it publishes of the engine, `inflight` and `errors` are
counters of the handlers. `deaf` is a history variable. The fan-in of merged streams
takes any order. A request ends with its token number `MaxTokens`, or before.

### LoadGen

`main()` is `phase`: checks, warmup, draining, measuring, reporting. A closed worker
goes through `Look` (the stop flag), `Claim` (`fetch_add` on the index), `Pick`
(`fetch_add` on the id) and `Answered`, each one access of shared state; in poisson mode
`Arrive` and `ArriveWarmup` spawn tasks. `JoinWarmup` and `JoinMeasured` await them.
`BuildSummary` is the report, with the percentiles by the code's rounding. A late read
of the relaxed stop flag is an earlier read. `Outcomes` is what a request may come to.
Rates and durations so extreme that `Duration` panics are left out.

### Requests, Conversation

`Requests` has the checks as pure operators, in the order in which the code makes them:
`ValidConfig`, `Configured` (a file, or options for the sizes), `PrepareStatus` (a
body), `Invalid` (parameters), `SubmitError` (the engine) and `StatusOf` (errors).
Floating-point values are in tenths, and a model name is empty or not:
that `validate` trims it first is left out. `Conversation` composes them into one request:
`Exit` or `Serve` (the service starts), `Prepare`, `Submit`, `AnswerUnary`, or a stream
of frames (`SendChunk`, `KeepAlive`, `Finish`, `Fail`, and `Vanish`, `Garble` for a
process that dies and a service that is not this one), the network (`Deliver` any
prefix, `ReadFails`), and `run_request` with its SSE parser (`ReadStatus`, `ReadEvent`,
`ReadEnd`), which makes the record. A frame is the two halves of its payload and its
line ends, so that a cut falls inside a line, between lines or between events.

Definitions with a comment that begins with "Faulty" are not part of the model: each is
a plausible bug that a named property must detect (`mutants` in `PROJECT.json`).

## 3. Runs

| Run | Instance | Shows |
|---|---|---|
| `scheduler_safety` | 3 requests out of 4 kinds, 4 blocks of 3 tokens, batches of 2 sequences and 4 tokens, watermark 3, malformed outputs | `ExactlyOnePlace`, `TablesMatchActive`, `BatchSound`, `ActiveAlwaysScheduled`, `OvertakenOnlyByLess`, and the limits of a batch (`TypeOK`) |
| `scheduler_growth` | 3 requests out of 3 kinds, 5 blocks of 2 tokens, batches of 2 sequences and 9 tokens, watermark 4 | `KVInv`, `GrowthReserved`, `DeferredMeansWaiting`, that the cache implements `BlockOwnership` and the scheduler `RequestLifecycle`, and `EventuallyReported`, while the pool runs out |
| `engine_direct` | 2 requests, tokens of one character, an undecodable one, budgets of 2 and 3, stop sequences of 1 and 2 characters, 2 idle steps allowed | `EndsOnce`, `DecodersLive`, `ResultsTruthful`, `StopNeverStreamed`, `StopCutClean`, `RunReturnsAll` |
| `engine_buffered` | 2 requests, a token of two characters, buffering decoders | `StreamedText`, `RunReturns` |
| `server` | a client that streams and one that does not, or one client with two candidates, a queue of 1, 2 tokens a request, 2 idle steps allowed, direct decoders | `RoutesExact`, `NeverCutOff`, `StopsForTheDeaf`, `EveryoneAnswered` |
| `backends` | 3 requests out of 3 kinds, 6 blocks of 2 tokens, batches of 3 sequences and 4 tokens, a library with 2 slots, a reserve of 2 and a floor of 4 | `NothingLeaks`, `NoForeignRead`, `CpuReadsOwnWrites`, `SlotsReturned`, `ReserveSuffices`, `SlotForEveryBatch` |
| `pipeline` | 2 sequences, prompts of 0 and 3 tokens, 2 tokens to generate, blocks of 2, 2 retries, backends that may be retried and that may not | `ContinuesContext`, `WrittenOnce`, `AttemptsUsedUp`, `AllOrNothing`, `Returns` |
| `loadgen` | seven command lines: both modes with and without a warmup, more slots than requests, three that are refused | `WindowIsolated`, `Reports` |
| `conversation` | nine command lines, a body for every reason to refuse one, a stream of up to 2 chunks and 1 comment from two kinds of service | `StatusTruthful`, `RecordTruthful` |
| `stop_at_last_token`, `stop_buffered`, `cpu_deletion` | 2 requests; 2 requests; the requests of `backends` on 3 blocks, 1 slot | violations of `StopRespected`, `StreamIsText`, `DeletionIsSafe`, see section 6 |

Bounds. Three requests are the fewest for which one is overtaken while another holds
blocks. A batch of two leaves the third out; four tokens leave out a prompt of four next
to any other sequence. Blocks of three tokens give a prompt whose first growth needs a
block and one whose does not. In `scheduler_growth` two sequences run side by side under
the watermark and a third one waits. The prompts of two and three tokens need a growth
block at their first decode, which a reserve that looked one token less ahead would miss
for the one of three, and the request of two needs another one at its second: two that
start together, or one that starts next to one that decodes, use up the reserve to its
last block. Together they outgrow the five blocks, so that `DecodeOutOfBlocks` happens
while another sequence is active.
Each set of requests has one of higher priority and one that fills a limit, that of
`scheduler_safety` also one beyond it. `SeqIds` bounds the submissions; nothing else is
bounded. Two requests suffice for the engine, where they meet only in sharing steps and
the idle counter; outputs of two or three tokens are the shortest with a stop sequence
before, at and across the budget. `Ids` bounds the submissions, `StallLimit` stands for
the 100 of `run()` and of `engine_loop`.

For the backends, six blocks of two tokens hold three sequences; a cancelled request's
block may have a new owner before the drain, and of three requests (1, 3 and 2 tokens)
one generates beyond the reserve. Two slots with batches of three make the adapter
refuse a batch of three as a whole, and a batch of new sequences in the middle, after
earlier ones were given slots which they keep until the drain. In `cpu_deletion`, three
blocks make a cancelled request's block the next one handed out. In the server two clients contend for the queue of one, and two
candidates of one client are the fewest with a sibling to cancel; the second sibling is
admitted, waiting, running or unsent when the first one fails. Two steps without
progress before a stall leave one in which something can still arrive. In the pipeline
two sequences give every order and mix of prefill and decode, two tokens two batches in
a row, and two retries a first, a middle and a last attempt. Three slots for two
requests, and two for three, make the workers race for the last index. `MaxWarmup`
bounds the arrivals of a warmup, `MaxChunks` and `MaxComments` a stream; two chunks are
the fewest with a piece that arrives after another one has been read.

Sequence ids are not symmetric (they are an order), and the server's clients have
different roles, so no symmetry is used. Deadlock is checked in the runs of the
scheduler, the engine and the backends: an idle engine can always be stepped. The server
shuts down, the pipeline runs out of sequences, the load generator ends and a
conversation is over: those runs allow a final state.

Fairness. For the scheduler, `FairSpec` asks for weak fairness of `Step`, the
disjunction of what the driver does by itself. The code justifies it:
`InferenceEngine::run` and `engine_loop` call `step` as long as there is work, and each
loop inside is bounded. Nothing is assumed of clients, and a failing execution may
happen every time. For the engine, weak fairness of `Continue`: a call, once made, runs
to its end; whether schedule() ever starts anything is left open. For the server, of
`EngineLoop`, which is a thread of its own, and of each await of a handler (`Enqueue`,
`TakeReceipt`, `Consume`, `Drop` of each candidate, `Answer`, `Refuse`, `Break` of each
request), which the runtime polls once it is ready; nothing is assumed of `Arrive`,
`Leave` and `Close`, and a step may start nobody. For the pipeline, of `Execute`: a
backend answers in the end, if only with a timeout. For the load generator, of `Main`,
of each worker and of the tasks together: each request is answered or times out, and
main() awaits them all; warmup arrivals need not happen. Requests are finitely many, so
starvation by an endless stream of requests of higher priority, which the code allows,
is outside of `EventuallyReported`.

What the properties mean for the code:
- `KVInv`: after any mix of allocations, growths and frees, the free list and the tables
  share the pool, and no block is lost or has two owners.
- `ExactlyOnePlace`: a request is in one collection or has one outcome, also in the
  middle of a pass and after outputs that name waiting or unknown ids.
- `TablesMatchActive`: the nine ways out of the scheduler all give blocks back.
- `BatchSound`: the clones in the batch are true when it is executed, with blocks enough
  for the context, shared with no other entry.
- `ActiveAlwaysScheduled`: the `break`s of the first two loops never skip a sequence. It
  is not obvious, since those that a partial output left in prefill are resumed with
  their whole prompt next to decodes.
- `GrowthReserved`: the pass after one that started a prefill has a block for each
  decode sequence that needs one, also when several draw on the reserve. It speaks only
  of that pass: later ones may run out, and sequences then fail, by design.
- `OvertakenOnlyByLess`: the scan's `continue` lets only smaller requests pass.
- `DeferredMeansWaiting`: with a threshold below one, nobody waits on an idle cache.
- `EndsOnce`: the update, a stop sequence, the decoder, a cancel and the stall limit may
  each end a request, but only one of them does, and it has one result.
- `DecodersLive`: a decoder lives exactly as long as its request.
- `ResultsTruthful`: "length" means that the whole budget was used without an end of
  sequence; the counters count each request once, by how its result reads.
- `StreamedText`, `StopNeverStreamed`: what a streaming client sees is the text of the
  result, if no stop sequence was asked for, and never a stop sequence.
- `StopCutClean`: a request that was cut at a stop sequence does not show it.
- `RunReturnsAll`, `RunReturns`: run() returns, and with a result for each request.
- `ContinuesContext`: the positions and tokens of a batch continue each context exactly
  where the earlier batches left it.
- `WrittenOnce`, `AttemptsUsedUp`: a backend that is not retry-safe never gets a batch
  twice; another one gets it as often as configured, no matter how the batches before
  fared.
- `AllOrNothing`: no answer leaves one sequence of a batch behind without an error.
- `NoForeignRead`: no request is answered from the context of another, though blocks
  change hands before the backend hears of it and failed batches leave traces.
- `CpuReadsOwnWrites`, `SlotForEveryBatch`: without cancels and without running out of
  blocks, an execution finds all that it needs; `DeletionIsSafe` is what fails
  otherwise.
- `NothingLeaks`, `SlotsReturned`: what a backend keeps goes with the sequence, after
  failed batches too.
- `ReserveSuffices`: a request within the reserve is never turned down for capacity.
- `RoutesExact`: between passes the engine loop waits for exactly the requests in the
  engine.
- `NeverCutOff`: no listener's channel closes without its final event, not even in a
  shutdown.
- `EveryoneAnswered`: every accepted request is answered unless its client leaves, and
  its candidates leave the engine in either case.
- `StopsForTheDeaf`: at most one step is spent on a request whose client has left.
- `WindowIsolated`, `Reports`: the window has no warmup in it and no index twice; a run
  ends with a whole report.
- `StatusTruthful`: the status names who is at fault, and a parameter that is not
  allowed never reaches the engine.
- `RecordTruthful`: a request is recorded as ok only if the service ended it well, and
  then with the whole text; a failure has the class of its cause, wherever the stream
  was cut.

## 4. Proofs

All for every value of the constants under the named assumptions of the modules
(`KVAssumption`, `SchedulerAssumption`, `EngineAssumption`, `ServerAssumption`, ...),
which state what `EngineConfig::validate` and the types guarantee, and that a prompt is
not empty.

`Scheduler_proofs`, the cache:
- `KVInvariant`: `KVInv` (type, `FreeListExact`, `OwnedOnce`) is inductive. The work is
  in two lemmas on lists without repetitions: cutting one gives two that are disjoint
  (`CutInjective`, for allocations), and joining two that are disjoint gives one
  (`JoinInjective`, for frees).
- `UsedBlocksExact`: `UsedIsHeld` follows from `KVInv` by counting a list without
  repetitions (`InjectiveLength`).
- `KVCacheImplementsOwnership`: an allocation acquires blocks of the free list, which
  are the abstract free blocks (`FreeIsFreeList`); a free releases.

`Scheduler_proofs`, the requests: `Inv` is the inductive invariant, in two parts. `CoreInv` is about
requests and blocks and is kept by each *change* the actions make to them (`RetireCore`,
`DropCore`, `StartCore`, `GrowCore`, `UpdateCore`, ...). The rest is about the pass and
is what makes those changes legal: `LoopInv`, that a loop visits only members of its own
collection; `FinishInv`, that what is to be completed is active and not also to be
failed; `BatchBounded`; and `PrefillFits`, that a prefill is never too large, without
which the rejection in the second loop would end a running request for a reason that
`RequestLifecycle` does not allow. From it:
- `SchedulerTypeCorrect`: `TypeOK`, with the limits of a batch.
- `RequestsInOnePlace`: `ExactlyOnePlace`.
- `TablesFollowRequests`: `TablesMatchActive`.
- `SchedulerImplementsLifecycle`: `LifecycleSpec`. Each action is shown to be one step
  of the life cycle or none (`NextStep`).

`PrefillFits` also says that the two rejections of the second loop of `schedule()`
(lines 160-176) are dead code.

`Scheduler_proofs`, the batches: `Inv` is strengthened once for each question. All but `OvertakenBySmaller`
assume outputs about the batch (`~PartialOutputs`), which `BatchesStayTogether` says the
pipeline lets through.
- `BatchesSound`: `BatchSound`, from `SoundInv`. `SizeInv` says that the blocks of a
  sequence reach up to its latest token; `BatchInv` that entries of the pass under way
  are current.
- `NobodyPassedOver`: `ActiveAlwaysScheduled`, from `FairInv`: the members of the
  previous batch fit the limits as decodes, one token each, so that the loops never
  break.
- `NobodyWaitsInVain`: `DeferredMeansWaiting` for a threshold below one, from `IdleInv`:
  a pass that finds nothing active has the whole pool, and what fits the watermark then
  starts.
- `OvertakenBySmaller`: `OvertakenOnlyByLess`, from `ScanInv`: what a scan has left, for
  blocks or tokens, only shrinks.
- `ReserveHolds`: `GrowthReserved`, from `ReserveInv`: the blocks reserved for those
  scanned so far are free, and whatever ends in between only adds to them.

`Engine_proofs`, under `EngineAssumption`. `EngineInv` adds to the two invariants
`GeneratedOfStep` (the tokens of a step are of requests that have started, so a stop
sequence never takes the decoder of a waiting one, and they are gone between steps) and
`RunInv` (an idle count above zero means that nothing is running, so a stall fails
everything that is left). From it:
- `RequestsEndOnce`: `EndsOnce`.
- `DecodersFollowRequests`: `DecodersLive`.
- `RunLeavesNothing`: the action property `RunReturnsAll`.
- `ResultsAreTruthful`: `ResultsTruthful`. `OutputInv` says how far an output has come
  by where its request is: none before it starts, short of its budget and without an
  end of sequence while it runs, and full or ended when the update completed it. The
  counters add up since `EndsOnce` makes the entries of a drain as many as their ids.
- `ChunksAddUp`: `StreamedText`, and `ChunksShowNoStop`: `StopNeverStreamed`, from
  `TextInv`. `FedInv` says what a decoder has been given: the output of its request, but
  for the token of the step under way (`Fed`). A direct decoder has streamed the text of
  that, a buffering one nothing. What a decoder gets never shows a stop sequence, since
  the tokens were searched first, and the text of a list with one more token is the text
  of the list and that of the token (`TextAppend`). When the update ends a request, its
  decoder gets its last token later in the same step, which is why the invariant has to
  speak of `Pending` tokens and of decoders that outlive their request by a drain.
- `CutTextIsClean`: `StopCutClean`, under `CharacterTokens`: no token has a text of more
  than one character, which is so for `SimpleTokenizer`. Without it the property is
  false for the code (section 6). `CutTakesLast`: the cut removes the token that
  completed the stop sequence, and the rest was searched a step earlier.

`ExecutionPipeline_proofs`: `AttemptsInv` counts the calls of one batch against its
retries; `OutputInv` says that what is scheduled is alive and listed once. From them:
- `AttemptsAreUsedUp`: `AttemptsUsedUp`, for every limit.
- `BatchesStayTogether`: `AllOrNothing`, for every answer.
- `BatchesContinueContexts`: `ContinuesContext`, and `PositionsAreWrittenOnce`:
  `WrittenOnce`, from `ContextInv`. `FedInv` says how far the earlier batches have fed
  each sequence, all but its latest token, or, if an attempt timed out after it was
  applied, all of it; `BatchInv` that a batch lists each sequence once and in its phase.
  What makes them fit is `Segmented`: in the joined lists of a batch the tokens of a
  sequence are one segment, its context from where it was fed to its end, with the
  positions beside them. `WrittenOnce` then needs that a backend which is not retry-safe
  is called once for a batch.

`Backends_proofs`, about `CpuSpec` and `TinySpec`, the two engines that `Backends`
chooses from. A backend hears of a sequence only from batches and drains, so the lemmas
are about what the scheduler may do in between: nobody disappears before the drain
(`Grows`), and a sequence stays as it is but for new blocks (`Steady`).
- `CpuLeaksNothing`: `NothingLeaks`. `FollowInv`: a recorded table never runs ahead of
  the scheduler's.
- `CpuReadsNothingForeign`: `NoForeignRead`. `CleanInv`: the context of a decoding
  sequence holds nothing of another, since blocks have one owner and a prefill
  overwrites all that it will read.
- `TinyReturnsSlots`: `SlotsReturned`. `SlotInv` with a count of the slots that a batch
  may ask for.
- `TinyReserveSuffices`: `ReserveSuffices`. `BudgetInv`: what was allocated at prefill
  covers the prompt and the reserve.
- `TinyHasSlots`: `SlotForEveryBatch`. `DrainedInv`: as long as nobody leaves, no slot
  is held for a sequence that has ended, so the slots are those of the batch's decodes.
- `CpuReadsItsContext`: `CpuReadsOwnWrites`, about `BackendsSpec`. `OwnInv`: without
  cancels, the context of a decoding sequence is in the cache. `ApartInv` is why: what
  the executor will delete at the drain has no other owner, since a sequence then only
  ends between an execution and its drain, where nobody gets a block.

`Server_proofs`: `ServerInv` follows a candidate from its handler (`HandlerInv`) through
receipt and queue (`ReceiptInv`, `QueueInv`) into the engine (`EngineInv`) and back
(`ChannelInv`). From it:
- `ServerTypes`: `TypeOK`; `WaitersExact`: `RoutesExact`; `EndsAreTold`: `NeverCutOff`.
- `DirectStopsForTheDeaf`: `StopsForTheDeaf`, with decoders that emit at once.

`LoadGen_proofs`: `LoadInv` orders what is in flight by the two counters (`IdsInv`,
`IndexInv`). From it `WindowIsIsolated`: `WindowIsolated`, for any number of workers and
requests.

`Conversation_proofs`, for every set of bodies and command lines of the types that
deserialisation gives them (`ConversationAssumption`):
- `StatusesAreTruthful`: `StatusTruthful`, from `StatusInv`, which says what has been
  found out about a body by where its handler is: a valid configuration once the service
  listens, the handler's checks passed once it submits, everything allowed and within
  the limits once something is generated. The checks are three lists of which the first
  failing one decides (`FirstFails`); `PrepareSays` and `SubmitSays` say what the
  outcome of each list means. That an allowed body which fits is never turned down with
  400 needs all of them at once.
- `RecordsAreTruthful`: `RecordTruthful`, from `StreamInv`. The stream is *read*, *rest*
  and a *tail* that says how it ended (`EndsWith`); what the client has gathered are the
  texts of what is read, and its buffer followed by the wire are the frames of the
  others (`Midway`; `AtEnd` once the final payload is read). The network may have cut
  the bytes anywhere, so the step that reads an event needs `FirstBoundary`: whatever
  part of the bytes has arrived, the first boundary in it, if there is one, is that of
  the first frame, and behind it are the frames of the rest. It holds for LF and CRLF
  because nothing before the end of a frame looks like the end of one.

`SequenceFacts`: the induction theorems of the library are about an operator, which no
installed prover can instantiate. `NatInduct` and `SeqInduct` are about a *set* instead
and are proved from a least counterexample (`LeastElement`), so that an induction is a
definition of the set of those for which a fact holds. With it the recursive function
behind `FlattenSeq` is shown to exist and to be unique (`FlattensExists`,
`FlattensUnique`), and from that what `FlattenSeq` does with an appended part
(`FlattenAppend`), with two lists joined (`FlattenConcat`), with a list cut into parts
(`FlattenCut`) and with two lists of parts of equal lengths (`FlattenPair`). The proofs
about texts, batches and frames rest on these.

Only model-checked: liveness under fairness (`EventuallyReported`, `RunReturns`,
`Returns`, `EveryoneAnswered`, `Reports`), which is beyond the prover. Every invariant
and every action property that a passing run checks is a theorem, under the assumptions
named above.

## 5. Plan

*Done*, in this order: `KVCache`, `Scheduler`, their abstract specifications and proofs;
`Engine` with its proofs; the batches; `Server` with its proofs, the merged streams
included; `ExecutionPipeline`; both backends under the real scheduler; `LoadGen`;
`Requests` and `Conversation`; `SequenceFacts` and with it the proofs about text,
batches and streams.

To come, with what each is for:
1. The engine over the scheduler instead of over `RequestLifecycle`, and the server over
   the engine, as refinements with their step proved.
2. `StopSequences`: `find_stop_sequence` and `tokens_before_char` with their loops, shown
   equal to the definitions of `Engine`, now that inductions can be proved.
3. The safety part of what the liveness properties rest on, as variants: that each pass
   of `schedule()` and each round of `run()` makes something smaller.

## 6. Findings

With a run:

`stop_at_last_token`: `update_sequences` completes a request that reaches `max_tokens`
before the engine looks for stop sequences. When the last token completes one,
`complete_by_stop_sequence` does not find the request among the active ones and the
engine ignores that. The output keeps the stop sequence and the reason is "length";
`src/types/request.rs:37` promises the opposite.

`stop_buffered`: a stop sequence removes the decoder. A buffering one (real models) then
never gives its text away: the client that streams gets nothing, though the result has
the text before the stop. `src/engine.rs:125` says that the chunks joined are the final
text.

`cpu_deletion`: `sequences_finished` of the reference executor deletes the blocks of the
table it recorded at the latest execution. A request cancelled between two steps, or
failed for want of blocks in a pass, frees its blocks at once but is drained only at the
end of the next step, when they may already have a new owner: the drain deletes what
that one wrote, and its next decode fails its batch with "KV cache miss", or attends to
zeros. The comment at `src/cpu_executor.rs:439` says that a block has one owner at a
time, so that deleting is safe.

Found while modelling, not among the runs:
- `EngineConfig::validate` accepts `memory_threshold = 1.0`. Then a prompt that needs
  the whole pool and a growth block passes the test for requests that can never run, but
  `has_prefill_budget` refuses it at every pass even though nothing is running, against
  the comment at `src/scheduler.rs:263`. It ends through the callers' stall limit.
  `NobodyWaitsInVain` proves that this cannot happen below 1.0.
- `tokens_before_char` keeps a token that begins before the stop sequence and contains
  its start; `src/engine.rs:80` says that such a token is removed. `StopCutClean` holds
  with tokens of one character.
- With a buffering decoder the server has nothing to send until the end, so it notices a
  disconnect only then (`src/tokenizer.rs:376`; `tests/server_integration.rs:664`
  expects the cancel for the simple tokenizer).
- After a disconnect of the last request the engine thread blocks before the cancelled
  request is drained (`src/engine.rs:602` says that it is drained by the next step): its
  result and what the backend keeps for it stay until the next submission.
- A body that is not JSON is answered with an error that `errors_total` does not count
  (`src/server.rs:842`; `README.md:217` calls it the number of error responses), and
  `inflight_requests` drops when the handler returns, so a request is not counted while
  it streams (`src/server.rs:837`, `README.md:218`).
- A cancelled sequence keeps its slot of the tiny-llm library until the drain of the
  next step, so a prefill of that step may be refused with its whole batch
  (`SlotForEveryBatch` excludes cancels for this reason); and a batch over the library's
  size fails as a whole (`src/tiny_llm_executor.rs:187`): nothing keeps `max_batch_size`
  of the scheduler below it.
- A prompt that encodes to no token fails the whole batch it is in
  (`src/execution_pipeline.rs:101`).
- The percentiles of the load generator are called nearest rank
  (`src/bin/loadgen.rs:482`) but are `round(p/100 * (n-1))`; a timeout while the body is
  read has the class `stream_error`.
- `from_file` validates the file before the options of tokenizer and port override it
  (`src/main.rs:108`), so a file is refused for the want of a tokenizer path that an
  option gives.
- The special ids of `SimpleTokenizer` come from the configuration and may be those of
  characters (`src/tokenizer.rs:133`).
- The choices of an answer with several candidates are in the order of completion.

## 7. Not modelled

Executors: the numeric kernels of `src/cpu_executor.rs`, out of TLC's reach; the foreign
functions of `src/tiny_llm_ffi.rs`, external; the mock, which keeps a counter.
Tokenizer: which ids a text becomes. Server: the wording of bodies and of `/metrics`;
the `Err` branch of `step_events`, which it never takes; streams of chats and of several
candidates byte by byte (`Conversation` streams one completion, `Server` has the others
by event). Command line: the mode that runs one prompt and prints is `run()` of
`Engine`. Load generator: clock values, the dataset, the token count by a tokenizer
file; files are assumed readable and writable. Errors and types: wording, declarations
and re-exports. Test helpers, the build script, benches and examples: no state of the
served system.

Two hazards have no property. The `f32` rounding of the threshold
(`src/scheduler.rs:249`) differs from the exact fraction only for pools far beyond what
TLC enumerates. An endless stream of requests of high priority starves the others
(`src/scheduler.rs:195`): the code promises nothing against it. Logprobs are left out:
they follow the output tokens.
