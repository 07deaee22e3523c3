--------------------------- MODULE Engine_proofs ---------------------------
(***************************************************************************)
(* Proofs about the engine, for every vocabulary, every set of parameters  *)
(* and either kind of decoder: each request ends once, its decoder lives   *)
(* as long as it does, run() leaves nothing behind, the results and the    *)
(* counters say truly how each request ended, the chunks of a request add  *)
(* up to its text, and none of them shows a stop sequence.                 *)
(***************************************************************************)
EXTENDS Engine, SequenceFacts, FiniteSetTheorems, FunctionTheorems

\* The tokens of a step are of requests that have started, and go with it.
GeneratedOfStep ==
    /\ DOMAIN generated \cap waiting = {}
    /\ pc \notin {"stopping", "decoding", "collecting"} => DOMAIN generated = {}

\* What run() knows when it leaves its loop.
RunInv ==
    /\ idleSteps \in Nat
    /\ pc \in {"loop", "leaving"} => inRun
    /\ pc = "idle" => ~inRun
    /\ pc = "loop" /\ idleSteps > 0 => running = {}
    /\ pc = "leaving" => waiting = {} /\ running = {}

EngineInv ==
    /\ params \in Seq(Params)
    /\ EndsOnce
    /\ DecodersLive
    /\ GeneratedOfStep
    /\ RunInv

-----------------------------------------------------------------------------
(* Ending requests                                                         *)

IdsOf(T) == {c.id : c \in T}

OnePerId(T) == \A c, d \in T : c.id = d.id => c = d

LEMMA TerminalIds ==
    ASSUME NEW S, NEW outcome
    PROVE  IdsOf(Terminal(S, outcome)) = S /\ OnePerId(Terminal(S, outcome))
  <1>1. \A r : [id |-> r, outcome |-> outcome].id = r
    OBVIOUS
  <1>2. IdsOf(Terminal(S, outcome)) = S
    BY <1>1 DEF IdsOf, Terminal
  <1>3. OnePerId(Terminal(S, outcome))
    BY <1>1 DEF OnePerId, Terminal
  <1> QED
    BY <1>2, <1>3

\* Ending requests that have not ended adds their ids and no second entry.
LEMMA TerminalAdds ==
    ASSUME NEW T, OnePerId(T), NEW S, S \cap IdsOf(T) = {}, NEW outcome
    PROVE  /\ IdsOf(T \cup Terminal(S, outcome)) = IdsOf(T) \cup S
           /\ OnePerId(T \cup Terminal(S, outcome))
  <1> DEFINE new == Terminal(S, outcome)
  <1>1. IdsOf(new) = S /\ OnePerId(new)
    BY TerminalIds
  <1> HIDE DEF new
  <1>2. IdsOf(T \cup new) = IdsOf(T) \cup S
    BY <1>1 DEF IdsOf
  <1>3. OnePerId(T \cup new)
    BY <1>1 DEF IdsOf, OnePerId
  <1> QED
    BY <1>2, <1>3 DEF new

LEMMA OnceFacts ==
    ASSUME EndsOnce
    PROVE  /\ OnePerId(finished)
           /\ Drained = IdsOf(finished)
           /\ (waiting \cup running) \cap IdsOf(finished) = {}
  BY DEF EndsOnce, OnePerId, IdsOf, Drained

\* Requests end, or start, and nothing else happens to the places they are in.
LEMMA EndingKeepsOnce ==
    ASSUME EndsOnce, NEW S, S \subseteq waiting \cup running,
           waiting' \cap running' = {},
           waiting' \cup running' = (waiting \cup running) \ S,
           OnePerId(finished'), IdsOf(finished') = IdsOf(finished) \cup S,
           UNCHANGED <<params, results>>
    PROVE  EndsOnce'
  BY DEF EndsOnce, OnePerId, IdsOf, Drained, Submitted

\* The same when running requests end with one outcome.
LEMMA RunningEndOnce ==
    ASSUME EndsOnce, NEW S, S \subseteq running, NEW outcome,
           running' = running \ S, waiting' = waiting,
           finished' = finished \cup Terminal(S, outcome),
           UNCHANGED <<params, results>>
    PROVE  /\ EndsOnce'
           /\ Drained' = Drained \cup S
  <1>1. S \cap IdsOf(finished) = {}
    BY OnceFacts
  <1>2. IdsOf(finished') = IdsOf(finished) \cup S /\ OnePerId(finished')
    BY <1>1, OnceFacts, TerminalAdds
  <1>3. waiting' \cap running' = {} /\ waiting' \cup running' = (waiting \cup running) \ S
    BY DEF EndsOnce
  <1>4. EndsOnce'
    BY <1>2, <1>3, EndingKeepsOnce
  <1> QED
    BY <1>2, <1>4 DEF Drained, IdsOf

\* And when waiting ones do.
LEMMA WaitingEndOnce ==
    ASSUME EndsOnce, NEW S, S \subseteq waiting, NEW outcome,
           waiting' = waiting \ S, running' = running,
           finished' = finished \cup Terminal(S, outcome),
           UNCHANGED <<params, results>>
    PROVE  /\ EndsOnce'
           /\ Drained' = Drained \cup S
  <1>1. S \cap IdsOf(finished) = {}
    BY OnceFacts
  <1>2. IdsOf(finished') = IdsOf(finished) \cup S /\ OnePerId(finished')
    BY <1>1, OnceFacts, TerminalAdds
  <1>3. waiting' \cap running' = {} /\ waiting' \cup running' = (waiting \cup running) \ S
    BY DEF EndsOnce
  <1>4. EndsOnce'
    BY <1>2, <1>3, EndingKeepsOnce
  <1> QED
    BY <1>2, <1>4 DEF Drained, IdsOf

-----------------------------------------------------------------------------
(* Each action keeps EngineInv                                             *)

LEMMA InitInv == Init => EngineInv
  <1> SUFFICES ASSUME Init PROVE EngineInv
    OBVIOUS
  <1>1. params \in Seq(Params) /\ Submitted = {}
    BY DEF Init, Submitted
  <1>2. EndsOnce /\ DecodersLive
    BY <1>1 DEF Init, EndsOnce, DecodersLive, Drained
  <1>3. GeneratedOfStep /\ RunInv
    BY DEF Init, GeneratedOfStep, RunInv
  <1> QED
    BY <1>1, <1>2, <1>3 DEF EngineInv

LEMMA SubmitInv ==
    ASSUME EngineInv, NEW p \in Params, Submit(p)
    PROVE  EngineInv'
  <1> DEFINE r == Len(params) + 1
  <1>1. params' = Append(params, p) /\ waiting' = waiting \cup {r} /\ decoders' = decoders \cup {r}
    BY DEF Submit
  <1>2. params' \in Seq(Params) /\ Submitted' = Submitted \cup {r} /\ r \notin Submitted
    BY <1>1 DEF EngineInv, Submitted
  <1>3. UNCHANGED <<running, finished, results, generated, runVars, pc>> /\ pc = "idle"
    BY DEF Submit, resultVars
  <1> HIDE DEF r
  <1>4. EndsOnce'
    BY <1>1, <1>2, <1>3 DEF EngineInv, EndsOnce, Drained
  <1>5. DecodersLive'
    BY <1>1, <1>3 DEF EngineInv, DecodersLive, Drained
  <1>6. GeneratedOfStep' /\ RunInv'
    BY <1>3 DEF EngineInv, GeneratedOfStep, RunInv, runVars
  <1> QED
    BY <1>2, <1>4, <1>5, <1>6 DEF EngineInv

LEMMA CancelInv ==
    ASSUME EngineInv, NEW r \in Ids, Cancel(r)
    PROVE  EngineInv'
  <1>1. /\ r \in waiting \cup running
        /\ waiting' = waiting \ {r} /\ running' = running \ {r}
        /\ finished' = finished \cup Terminal({r}, "cancelled")
        /\ UNCHANGED <<params, decoders, results, generated, runVars, pc>> /\ pc = "idle"
    BY DEF Cancel, decoderVars, resultVars
  <1>2. {r} \cap IdsOf(finished) = {}
    BY <1>1, OnceFacts DEF EngineInv
  <1>3. IdsOf(finished') = IdsOf(finished) \cup {r} /\ OnePerId(finished')
    BY <1>1, <1>2, OnceFacts, TerminalAdds DEF EngineInv
  <1>4. /\ waiting' \cap running' = {}
        /\ waiting' \cup running' = (waiting \cup running) \ {r}
    BY <1>1 DEF EngineInv, EndsOnce
  <1>5. EndsOnce'
    BY <1>1, <1>3, <1>4, EndingKeepsOnce DEF EngineInv
  <1>6. DecodersLive'
    BY <1>1, <1>3 DEF EngineInv, DecodersLive, Drained, IdsOf
  <1>7. GeneratedOfStep' /\ RunInv'
    BY <1>1 DEF EngineInv, GeneratedOfStep, RunInv, runVars
  <1> QED
    BY <1>1, <1>5, <1>6, <1>7 DEF EngineInv

LEMMA FailPendingRequestsInv ==
    ASSUME EngineInv, FailPendingRequests
    PROVE  EngineInv'
  <1>1. /\ waiting' = waiting \ waiting /\ running' = running
        /\ finished' = finished \cup Terminal(waiting, "stalled")
        /\ UNCHANGED <<params, decoders, results, generated, runVars, pc>> /\ pc = "idle"
    BY DEF FailPendingRequests, decoderVars, resultVars
  <1>2. EndsOnce' /\ Drained' = Drained \cup waiting
    BY <1>1, WaitingEndOnce DEF EngineInv
  <1>3. DecodersLive'
    BY <1>1, <1>2 DEF EngineInv, DecodersLive
  <1>4. GeneratedOfStep' /\ RunInv'
    BY <1>1 DEF EngineInv, GeneratedOfStep, RunInv, runVars
  <1> QED
    BY <1>1, <1>2, <1>3, <1>4 DEF EngineInv

LEMMA ScheduleInv ==
    ASSUME EngineInv, NEW starting \in SUBSET waiting, NEW lost \in SUBSET running,
           NEW rejected \in SUBSET (waiting \ starting), Schedule(starting, rejected, lost)
    PROVE  EngineInv'
  <1> DEFINE first == finished \cup Terminal(rejected, "rejected")
  <1>1. /\ pc \in {"idle", "loop"}
        /\ waiting' = waiting \ (starting \cup rejected)
        /\ running' = (running \ lost) \cup starting
        /\ finished' = first \cup Terminal(lost, "outOfBlocks")
        /\ pc' \in {"executing", "stopping"}
        /\ UNCHANGED <<params, decoders, results, generated, idleSteps>>
    BY DEF Schedule, decoderVars, resultVars, runVars
  <1>2. IdsOf(first) = IdsOf(finished) \cup rejected /\ OnePerId(first)
    BY OnceFacts, TerminalAdds DEF EngineInv
  <1>3. lost \cap IdsOf(first) = {}
    BY <1>2, OnceFacts DEF EngineInv, EndsOnce
  <1> HIDE DEF first
  <1>4. /\ IdsOf(finished') = IdsOf(finished) \cup (rejected \cup lost)
        /\ OnePerId(finished')
    <2>1. /\ IdsOf(first \cup Terminal(lost, "outOfBlocks")) = IdsOf(first) \cup lost
          /\ OnePerId(first \cup Terminal(lost, "outOfBlocks"))
      BY <1>2, <1>3, TerminalAdds
    <2> QED
      BY <1>1, <1>2, <2>1
  <1>5. /\ waiting' \cap running' = {}
        /\ waiting' \cup running' = (waiting \cup running) \ (rejected \cup lost)
    BY <1>1 DEF EngineInv, EndsOnce
  <1>6. EndsOnce'
    BY <1>1, <1>4, <1>5, EndingKeepsOnce DEF EngineInv
  <1>7. DecodersLive'
    BY <1>1, <1>4, <1>5 DEF EngineInv, DecodersLive, Drained, IdsOf
  <1>8. GeneratedOfStep' /\ RunInv'
    BY <1>1 DEF EngineInv, GeneratedOfStep, RunInv
  <1> QED
    BY <1>1, <1>6, <1>7, <1>8 DEF EngineInv

LEMMA ExecuteInv ==
    ASSUME EngineInv, NEW tokens \in [running -> Tokens], Execute(tokens)
    PROVE  EngineInv'
  <1> DEFINE complete == {r \in running : IsComplete(output'[r], params[r])}
  <1>1. /\ running' = running \ complete /\ waiting' = waiting
        /\ finished' = finished \cup Terminal(complete, "completed")
        /\ generated' = tokens
        /\ pc' = "stopping"
        /\ UNCHANGED <<params, decoders, results, idleSteps>>
    BY DEF Execute, decoderVars, resultVars, runVars
  <1>2. complete \subseteq running
    OBVIOUS
  <1> HIDE DEF complete
  <1>3. EndsOnce' /\ Drained' = Drained \cup complete
    BY <1>1, <1>2, RunningEndOnce DEF EngineInv
  <1>4. DecodersLive'
    BY <1>1, <1>2, <1>3 DEF EngineInv, DecodersLive
  <1>5. GeneratedOfStep'
    BY <1>1 DEF EngineInv, EndsOnce, GeneratedOfStep
  <1>6. RunInv'
    BY <1>1 DEF EngineInv, RunInv
  <1> QED
    BY <1>1, <1>3, <1>4, <1>5, <1>6 DEF EngineInv

LEMMA ExecutionErrorInv ==
    ASSUME EngineInv, ExecutionError
    PROVE  EngineInv'
  <1>1. /\ running' = running \ running /\ waiting' = waiting
        /\ finished' = finished \cup Terminal(running, "execution")
        /\ pc' = "collecting"
        /\ UNCHANGED <<params, decoders, results, generated, idleSteps>>
    BY DEF ExecutionError, decoderVars, resultVars, runVars
  <1>2. EndsOnce' /\ Drained' = Drained \cup running
    BY <1>1, RunningEndOnce DEF EngineInv
  <1>3. DecodersLive'
    BY <1>1, <1>2 DEF EngineInv, DecodersLive
  <1>4. GeneratedOfStep' /\ RunInv'
    BY <1>1 DEF EngineInv, GeneratedOfStep, RunInv
  <1> QED
    BY <1>1, <1>2, <1>3, <1>4 DEF EngineInv

\* A stop sequence takes the decoder of a request that has a token of this step,
\* which is not a waiting one.
LEMMA ApplyStopSequencesInv ==
    ASSUME EngineInv, ApplyStopSequences
    PROVE  EngineInv'
  <1> DEFINE S == running \cap Hits
  <1>1. /\ running' = running \ S /\ waiting' = waiting
        /\ finished' = finished \cup Terminal(S, "stopped")
        /\ decoders' = decoders \ Hits
        /\ pc' = "decoding"
        /\ UNCHANGED <<params, results, generated, idleSteps>>
    BY DEF ApplyStopSequences, decoderVars, resultVars, runVars
  <1>2. Hits \cap waiting = {}
    BY DEF EngineInv, GeneratedOfStep, Hits
  <1>3. running' \cap Hits = {}
    BY <1>1
  <1>4. S \subseteq running
    OBVIOUS
  <1> HIDE DEF S
  <1>5. EndsOnce' /\ Drained' = Drained \cup S
    BY <1>1, <1>4, RunningEndOnce DEF EngineInv
  <1>6. DecodersLive'
    BY <1>1, <1>2, <1>3, <1>5 DEF EngineInv, DecodersLive
  <1>7. GeneratedOfStep' /\ RunInv'
    BY <1>1 DEF EngineInv, GeneratedOfStep, RunInv
  <1> QED
    BY <1>1, <1>5, <1>6, <1>7 DEF EngineInv

LEMMA DecodeGeneratedInv ==
    ASSUME EngineInv, DecodeGenerated
    PROVE  EngineInv'
  <1>1. /\ pc' = "collecting"
        /\ UNCHANGED <<params, waiting, decoders, results, generated, idleSteps>>
    BY DEF DecodeGenerated, resultVars, runVars
  <1>2. EndsOnce' /\ \E S \in SUBSET running : running' = running \ S /\ Drained' = Drained \cup S
    <2>1. CASE PushBuffered
      <3>1. UNCHANGED <<running, finished>>
        BY <2>1 DEF PushBuffered
      <3> QED
        BY <1>1, <3>1 DEF EngineInv, EndsOnce, Drained, Submitted
    <2>2. CASE PushDirect
      <3> DEFINE failing == {r \in DOMAIN generated \cap decoders : generated[r] \in Undecodable}
                 S == running \cap failing
      <3>1. running' = running \ S /\ finished' = finished \cup Terminal(S, "undecodable")
        BY <2>2 DEF PushDirect
      <3>2. S \in SUBSET running
        OBVIOUS
      <3> HIDE DEF S
      <3> QED
        BY <1>1, <3>1, <3>2, RunningEndOnce DEF EngineInv
    <2> QED
      BY <2>1, <2>2 DEF DecodeGenerated
  <1>3. DecodersLive'
    BY <1>1, <1>2 DEF EngineInv, DecodersLive
  <1>4. GeneratedOfStep' /\ RunInv'
    BY <1>1 DEF EngineInv, GeneratedOfStep, RunInv
  <1> QED
    BY <1>1, <1>2, <1>3, <1>4 DEF EngineInv

\* The drain turns what has ended into results, and its decoders go.
LEMMA CollectCompletedOnce ==
    ASSUME EngineInv, CollectCompleted
    PROVE  /\ EndsOnce' /\ DecodersLive'
           /\ DOMAIN results' = DOMAIN results \cup Drained
           /\ UNCHANGED <<params, waiting, running>>
  <1>1. /\ DOMAIN results' = DOMAIN results \cup Drained
        /\ decoders' = decoders \ Drained
        /\ finished' = {}
        /\ UNCHANGED <<params, waiting, running>>
    BY DEF CollectCompleted
  <1>2. Drained' = {}
    BY <1>1 DEF Drained
  <1>3. EndsOnce'
    BY <1>1, <1>2 DEF EngineInv, EndsOnce, Submitted
  <1>4. DecodersLive'
    BY <1>1, <1>2 DEF EngineInv, EndsOnce, DecodersLive
  <1> QED
    BY <1>1, <1>3, <1>4

LEMMA EndStepInv ==
    ASSUME EngineInv, EndStep
    PROVE  EngineInv'
  <1>1. EndsOnce' /\ DecodersLive' /\ UNCHANGED <<params, waiting, running>>
    BY CollectCompletedOnce DEF EndStep
  <1>2. GeneratedOfStep'
    BY <1>1 DEF EndStep, GeneratedOfStep
  <1>3. RunInv'
    BY <1>1 DEF EndStep, EngineInv, RunInv
  <1> QED
    BY <1>1, <1>2, <1>3 DEF EngineInv

LEMMA StartRunInv ==
    ASSUME EngineInv, StartRun
    PROVE  EngineInv'
  <1>1. EndsOnce' /\ DecodersLive' /\ UNCHANGED <<params, waiting, running>>
    BY CollectCompletedOnce DEF StartRun
  <1>2. GeneratedOfStep' /\ RunInv'
    BY <1>1 DEF StartRun, EngineInv, GeneratedOfStep, RunInv
  <1> QED
    BY <1>1, <1>2 DEF EngineInv

\* The stall limit is positive, so a run that stalls has nothing running.
LEMMA StallInv ==
    ASSUME EngineInv, Stall
    PROVE  EngineInv'
  <1>1. /\ waiting' = waiting \ waiting /\ running' = running
        /\ finished' = finished \cup Terminal(waiting, "stalled")
        /\ UNCHANGED <<params, decoders, results, generated, inRun, idleSteps>>
        /\ pc = "loop" /\ pc' = "leaving" /\ idleSteps >= StallLimit
    BY DEF Stall, decoderVars, resultVars, runVars
  <1>2. EndsOnce' /\ Drained' = Drained \cup waiting
    BY <1>1, WaitingEndOnce DEF EngineInv
  <1>3. DecodersLive'
    BY <1>1, <1>2 DEF EngineInv, DecodersLive
  <1>4. GeneratedOfStep'
    BY <1>1 DEF EngineInv, GeneratedOfStep
  <1>5. RunInv'
    BY <1>1, EngineAssumption DEF EngineInv, RunInv
  <1> QED
    BY <1>1, <1>2, <1>3, <1>4, <1>5 DEF EngineInv

LEMMA LeaveLoopInv ==
    ASSUME EngineInv, LeaveLoop
    PROVE  EngineInv'
  <1>1. /\ UNCHANGED <<params, waiting, running, finished, decoders, results, generated,
                       inRun, idleSteps>>
        /\ waiting = {} /\ running = {} /\ pc = "loop" /\ pc' = "leaving"
    BY DEF LeaveLoop, requestVars, decoderVars, resultVars, runVars
  <1>2. EndsOnce' /\ DecodersLive'
    BY <1>1 DEF EngineInv, EndsOnce, DecodersLive, Drained, Submitted
  <1>3. GeneratedOfStep' /\ RunInv'
    BY <1>1 DEF EngineInv, GeneratedOfStep, RunInv
  <1> QED
    BY <1>1, <1>2, <1>3 DEF EngineInv

LEMMA ReturnInv ==
    ASSUME EngineInv, Return
    PROVE  /\ EngineInv'
           /\ DOMAIN results' = Submitted
  <1>1. /\ EndsOnce' /\ DecodersLive' /\ UNCHANGED <<params, waiting, running>>
        /\ DOMAIN results' = DOMAIN results \cup Drained
    BY CollectCompletedOnce DEF Return
  <1>2. GeneratedOfStep' /\ RunInv'
    BY <1>1 DEF Return, EngineInv, GeneratedOfStep, RunInv
  <1>3. waiting = {} /\ running = {}
    BY DEF Return, EngineInv, RunInv
  <1>4. DOMAIN results' = Submitted
    BY <1>1, <1>3 DEF EngineInv, EndsOnce
  <1> QED
    BY <1>1, <1>2, <1>4 DEF EngineInv

-----------------------------------------------------------------------------
(* The theorems                                                            *)

\* A step keeps the invariant, and one that ends run() leaves a result for
\* every request.
LEMMA NextInv ==
    ASSUME EngineInv, [Next]_vars
    PROVE  /\ EngineInv'
           /\ inRun /\ ~inRun' => DOMAIN results' = Submitted
  <1>1. CASE \E p \in Params : Submit(p)
    BY <1>1, SubmitInv DEF Submit, runVars
  <1>2. CASE \E r \in Ids : Cancel(r)
    BY <1>2, CancelInv DEF Cancel, runVars
  <1>3. CASE AnySchedule
    BY <1>3, ScheduleInv DEF AnySchedule, Schedule, runVars
  <1>4. CASE \E tokens \in [running -> Tokens] : Execute(tokens)
    BY <1>4, ExecuteInv DEF Execute, runVars
  <1>5. CASE ExecutionError
    BY <1>5, ExecutionErrorInv DEF ExecutionError, runVars
  <1>6. CASE ApplyStopSequences
    BY <1>6, ApplyStopSequencesInv DEF ApplyStopSequences, runVars
  <1>7. CASE DecodeGenerated
    BY <1>7, DecodeGeneratedInv DEF DecodeGenerated, runVars
  <1>8. CASE EndStep
    BY <1>8, EndStepInv DEF EndStep
  <1>9. CASE StartRun
    BY <1>9, StartRunInv DEF StartRun
  <1>10. CASE Stall
    BY <1>10, StallInv DEF Stall, runVars
  <1>11. CASE LeaveLoop
    BY <1>11, LeaveLoopInv DEF LeaveLoop, runVars
  <1>12. CASE Return
    BY <1>12, ReturnInv
  <1>13. CASE FailPendingRequests
    BY <1>13, FailPendingRequestsInv DEF FailPendingRequests, runVars
  <1>14. CASE UNCHANGED vars
    <2>1. UNCHANGED <<params, waiting, running, finished, decoders, results, generated,
                      inRun, idleSteps, pc>>
      BY <1>14 DEF vars, requestVars, decoderVars, resultVars, runVars
    <2>2. EndsOnce' /\ DecodersLive'
      BY <2>1 DEF EngineInv, EndsOnce, DecodersLive, Drained, Submitted
    <2>3. GeneratedOfStep' /\ RunInv'
      BY <2>1 DEF EngineInv, GeneratedOfStep, RunInv
    <2> QED
      BY <2>1, <2>2, <2>3 DEF EngineInv
  <1> QED
    BY <1>1, <1>2, <1>3, <1>4, <1>5, <1>6, <1>7, <1>8, <1>9, <1>10, <1>11, <1>12, <1>13,
       <1>14 DEF Next, Continue, Call

LEMMA SpecInv == Spec => []EngineInv
  <1>1. EngineInv /\ [Next]_vars => EngineInv'
    BY NextInv
  <1> QED
    BY InitInv, <1>1, PTL DEF Spec

\* A request is in one place and ends once, although the update, a stop
\* sequence, the decoder, a cancel and the stall limit may all want to end it
\* (InferenceEngine::step_events).
THEOREM RequestsEndOnce == Spec => []EndsOnce
  <1>1. EngineInv => EndsOnce
    BY DEF EngineInv
  <1> QED
    BY <1>1, SpecInv, PTL

\* Every request in the scheduler has its decoder, and no way to end leaves one
\* behind (InferenceEngine::collect_completed_requests, apply_stop_sequences).
THEOREM DecodersFollowRequests == Spec => []DecodersLive
  <1>1. EngineInv => DecodersLive
    BY DEF EngineInv
  <1> QED
    BY <1>1, SpecInv, PTL

\* When run() returns, also by its stall limit, every request submitted before
\* has its result (InferenceEngine::run).
THEOREM RunLeavesNothing == Spec => RunReturnsAll
  <1>1. EngineInv /\ [Next]_vars => [inRun /\ ~inRun' => DOMAIN results' = Submitted]_vars
    BY NextInv
  <1> QED
    BY <1>1, SpecInv, PTL DEF Spec, RunReturnsAll

-----------------------------------------------------------------------------
(* What the results say                                                    *)

\* The output of a request that may go on, and of one that is_complete ended.
Within(tokens, limit) ==
    tokens \in Seq(Tokens) /\ EOS \notin Range(tokens) /\ Len(tokens) < limit

Complete(tokens, limit) ==
    \/ tokens # <<>> /\ Last(tokens) = EOS
    \/ EOS \notin Range(tokens) /\ Len(tokens) = limit

\* How far the output of a request has come, by where the request is.
OutputInv ==
    /\ Submitted \subseteq Ids
    /\ \A r \in Ids \ (running \cup Drained \cup DOMAIN results) : output[r] = <<>>
    /\ \A r \in running : Within(output[r], params[r].maxTokens)
    /\ \A c \in finished :
          c.outcome = "completed" => Complete(output[c.id], params[c.id].maxTokens)

TruthInv == EngineInv /\ OutputInv /\ ResultsTruthful

LEMMA InitTruth == Init => TruthInv
  <1> SUFFICES ASSUME Init PROVE TruthInv
    OBVIOUS
  <1>1. /\ params = <<>> /\ running = {} /\ finished = {}
        /\ output = [r \in Ids |-> <<>>] /\ results = [r \in {} |-> {}]
        /\ completedCount = 0 /\ failedCount = 0
    BY DEF Init
  <1>2. OutputInv
    BY <1>1 DEF OutputInv, Submitted
  <1>3. ResultsTruthful
    <2>1. /\ {r \in DOMAIN results : results[r].success} = {}
          /\ {r \in DOMAIN results : ~results[r].success} = {}
      BY <1>1
    <2> QED
      BY <1>1, <2>1, FS_EmptySet DEF ResultsTruthful
  <1> QED
    BY <1>2, <1>3, InitInv DEF TruthInv

\* Requests end otherwise than by the update, or start, and no output changes.
LEMMA EndingKeepsOutput ==
    ASSUME TruthInv, NEW started, started \subseteq waiting,
           running' \subseteq running \cup started,
           running \ running' \subseteq Drained',
           Drained \subseteq Drained',
           \A c \in finished' : c.outcome = "completed" => c \in finished,
           UNCHANGED <<params, output, results>>
    PROVE  OutputInv'
  <1>1. Submitted' = Submitted
    BY DEF Submitted
  <1>2. \A r \in started : Within(output[r], params[r].maxTokens)
    <2> SUFFICES ASSUME NEW r \in started PROVE Within(output[r], params[r].maxTokens)
      OBVIOUS
    <2>1. r \in Submitted /\ r \in Ids \ (running \cup Drained \cup DOMAIN results)
      BY DEF TruthInv, EngineInv, EndsOnce, OutputInv
    <2>2. output[r] = <<>>
      BY <2>1 DEF TruthInv, OutputInv
    <2>3. params[r].maxTokens \in Nat \ {0}
      BY <2>1, EngineAssumption DEF TruthInv, EngineInv, Submitted
    <2>4. <<>> \in Seq(Tokens) /\ Range(<<>>) = {} /\ Len(<<>>) = 0
      BY DEF Range
    <2> QED
      BY <2>2, <2>3, <2>4 DEF Within
  <1>3. \A r \in running' : Within(output[r], params[r].maxTokens)
    BY <1>2 DEF TruthInv, OutputInv
  <1>4. \A r \in Ids \ (running' \cup Drained' \cup DOMAIN results') : output'[r] = <<>>
    BY DEF TruthInv, OutputInv
  <1> QED
    BY <1>1, <1>3, <1>4 DEF TruthInv, OutputInv

LEMMA TerminalOutcome ==
    ASSUME NEW T, NEW S, NEW outcome, outcome # "completed"
    PROVE  \A c \in T \cup Terminal(S, outcome) : c.outcome = "completed" => c \in T
  BY DEF Terminal

LEMMA TerminalJoins ==
    ASSUME NEW T, NEW S, NEW outcome
    PROVE  IdsOf(T \cup Terminal(S, outcome)) = IdsOf(T) \cup S
  <1> DEFINE new == Terminal(S, outcome)
  <1>1. IdsOf(new) = S
    BY TerminalIds
  <1> HIDE DEF new
  <1>2. IdsOf(T \cup new) = IdsOf(T) \cup S
    BY <1>1 DEF IdsOf
  <1> QED
    BY <1>2 DEF new

\* Nothing but a drain touches the results.
LEMMA TruthKept ==
    ASSUME ResultsTruthful, UNCHANGED resultVars,
           \A r \in DOMAIN results : output'[r] = output[r] /\ params'[r] = params[r]
    PROVE  ResultsTruthful'
  BY DEF ResultsTruthful, resultVars

LEMMA ExecuteTruth ==
    ASSUME TruthInv, NEW tokens \in [running -> Tokens], Execute(tokens)
    PROVE  OutputInv' /\ ResultsTruthful'
  <1> DEFINE complete == {r \in running : IsComplete(output'[r], params[r])}
  <1>1. /\ running' = running \ complete /\ waiting' = waiting
        /\ finished' = finished \cup Terminal(complete, "completed")
        /\ output' = [r \in Ids |-> IF r \in running THEN Append(output[r], tokens[r])
                                                    ELSE output[r]]
        /\ UNCHANGED <<params, resultVars, results>>
    BY DEF Execute, resultVars
  <1>2. running \subseteq Ids /\ Drained \subseteq Ids /\ DOMAIN results \subseteq Ids
    BY DEF TruthInv, EngineInv, EndsOnce, OutputInv
  <1>3. ASSUME NEW r \in running
        PROVE  IF r \in complete THEN Complete(output'[r], params[r].maxTokens)
                                 ELSE Within(output'[r], params[r].maxTokens)
    <2>1. output[r] \in Seq(Tokens) /\ Within(output[r], params[r].maxTokens)
      BY DEF TruthInv, OutputInv, Within
    <2>2. output'[r] = Append(output[r], tokens[r]) /\ tokens[r] \in Tokens
      BY <1>1, <1>2
    <2>3. params[r].maxTokens \in Nat
      BY EngineAssumption DEF TruthInv, EngineInv, EndsOnce, Submitted
    <2>4. /\ output'[r] \in Seq(Tokens) /\ output'[r] # <<>>
          /\ Len(output'[r]) = Len(output[r]) + 1
          /\ Last(output'[r]) = tokens[r]
      BY <2>1, <2>2 DEF Last
    <2>5. Range(output'[r]) = Range(output[r]) \cup {tokens[r]}
      BY <2>1, <2>2 DEF Range
    <2>6. r \in complete <=> (Len(output'[r]) >= params[r].maxTokens \/ tokens[r] = EOS)
      BY <2>4 DEF IsComplete
    <2>7. Len(output[r]) \in Nat /\ Len(output[r]) < params[r].maxTokens
      BY <2>1 DEF Within
    <2> HIDE DEF complete
    <2>8. CASE tokens[r] = EOS
      BY <2>4, <2>6, <2>8 DEF Complete
    <2>9. CASE tokens[r] # EOS
      <3>1. EOS \notin Range(output'[r])
        BY <2>1, <2>5, <2>9 DEF Within
      <3> QED
        BY <2>3, <2>4, <2>6, <2>7, <2>9, <3>1 DEF Complete, Within
    <2> QED
      BY <2>8, <2>9
  <1>4. complete \subseteq running
    OBVIOUS
  <1> HIDE DEF complete
  <1>5. \A r \in Ids \ running : output'[r] = output[r]
    BY <1>1
  <1>6. /\ Drained \cap running = {} /\ DOMAIN results \cap running = {}
        /\ Drained' = Drained \cup complete
    BY <1>1, <1>4, RunningEndOnce DEF TruthInv, EngineInv, EndsOnce
  <1>7. \A r \in running' : Within(output'[r], params'[r].maxTokens)
    BY <1>1, <1>3
  <1>8. ASSUME NEW c \in finished', c.outcome = "completed"
        PROVE  Complete(output'[c.id], params'[c.id].maxTokens)
    <2>1. CASE c \in finished
      <3>1. c.id \in Drained
        BY <2>1 DEF Drained
      <3>2. output'[c.id] = output[c.id]
        BY <3>1, <1>2, <1>5, <1>6
      <3> QED
        BY <1>1, <1>8, <2>1, <3>2 DEF TruthInv, OutputInv
    <2>2. CASE c \in Terminal(complete, "completed")
      <3>1. PICK r \in complete : c = [id |-> r, outcome |-> "completed"]
        BY <2>2 DEF Terminal
      <3>2. c.id = r /\ r \in running
        BY <1>4, <3>1
      <3> QED
        BY <1>1, <1>3, <3>1, <3>2
    <2> QED
      BY <1>1, <1>8, <2>1, <2>2
  <1>9. \A r \in Ids \ (running' \cup Drained' \cup DOMAIN results') : output'[r] = <<>>
    BY <1>1, <1>5, <1>6 DEF TruthInv, OutputInv
  <1>10. OutputInv'
    <2>1. Submitted' = Submitted
      BY <1>1 DEF Submitted
    <2> QED
      BY <1>7, <1>8, <1>9, <2>1 DEF TruthInv, OutputInv
  <1>11. ResultsTruthful'
    BY <1>1, <1>2, <1>5, <1>6, TruthKept DEF TruthInv
  <1> QED
    BY <1>10, <1>11

LEMMA ApplyStopSequencesTruth ==
    ASSUME TruthInv, ApplyStopSequences
    PROVE  OutputInv' /\ ResultsTruthful'
  <1> DEFINE S == running \cap Hits
  <1>1. /\ running' = running \ S /\ waiting' = waiting
        /\ finished' = finished \cup Terminal(S, "stopped")
        /\ output' = CutOutput
        /\ UNCHANGED <<params, resultVars, results>>
    BY DEF ApplyStopSequences, resultVars
  <1>2. running \subseteq Ids /\ Drained \subseteq Ids /\ DOMAIN results \subseteq Ids
    BY DEF TruthInv, EngineInv, EndsOnce, OutputInv
  <1>3. \A r \in Ids \ S : output'[r] = output[r]
    BY <1>1 DEF CutOutput
  <1>4. S \subseteq running
    OBVIOUS
  <1> HIDE DEF S
  <1>5. /\ Drained \cap running = {} /\ DOMAIN results \cap running = {}
        /\ Drained' = Drained \cup S
    BY <1>1, <1>4, RunningEndOnce DEF TruthInv, EngineInv, EndsOnce
  <1>6. ASSUME NEW c \in finished', c.outcome = "completed"
        PROVE  Complete(output'[c.id], params'[c.id].maxTokens)
    <2>1. c \in finished
      BY <1>1, <1>6, TerminalOutcome
    <2>2. c.id \in Drained
      BY <2>1 DEF Drained
    <2>3. output'[c.id] = output[c.id]
      BY <2>2, <1>2, <1>3, <1>4, <1>5
    <2> QED
      BY <1>1, <1>6, <2>1, <2>3 DEF TruthInv, OutputInv
  <1>7. \A r \in running' : Within(output'[r], params'[r].maxTokens)
    BY <1>1, <1>2, <1>3 DEF TruthInv, OutputInv
  <1>8. \A r \in Ids \ (running' \cup Drained' \cup DOMAIN results') : output'[r] = <<>>
    BY <1>1, <1>3, <1>5 DEF TruthInv, OutputInv
  <1>9. OutputInv'
    <2>1. Submitted' = Submitted
      BY <1>1 DEF Submitted
    <2> QED
      BY <1>6, <1>7, <1>8, <2>1 DEF TruthInv, OutputInv
  <1>10. ResultsTruthful'
    BY <1>1, <1>2, <1>3, <1>4, <1>5, TruthKept DEF TruthInv
  <1> QED
    BY <1>9, <1>10

-----------------------------------------------------------------------------
(* The drain                                                               *)

\* With one entry an id, entries are as many as the requests they end.
LEMMA EntriesCounted ==
    ASSUME NEW T, OnePerId(T), IsFiniteSet(IdsOf(T))
    PROVE  IsFiniteSet(T) /\ Cardinality(T) = Cardinality(IdsOf(T))
  <1> DEFINE f == [i \in IdsOf(T) |-> CHOOSE c \in T : c.id = i]
  <1>1. \A i \in IdsOf(T) : f[i] \in T /\ f[i].id = i
    BY DEF IdsOf
  <1>2. \A c \in T : c.id \in IdsOf(T) /\ f[c.id] = c
    BY <1>1 DEF IdsOf, OnePerId
  <1>3. f \in Bijection(IdsOf(T), T)
    <2>1. f \in [IdsOf(T) -> T]
      BY <1>1
    <2>2. \A a, b \in IdsOf(T) : f[a] = f[b] => a = b
      BY <1>1
    <2>3. \A c \in T : \E i \in IdsOf(T) : f[i] = c
      BY <1>2
    <2> HIDE DEF f
    <2> QED
      BY <2>1, <2>2, <2>3, Fun_IsBij
  <1> HIDE DEF f
  <1>4. ExistsBijection(IdsOf(T), T)
    BY <1>3 DEF ExistsBijection
  <1> QED
    BY <1>4, FS_Bijection

\* Results of ids that had none add up.
LEMMA CountsAdd ==
    ASSUME NEW S, IsFiniteSet(S), NEW U, OnePerId(U), IsFiniteSet(IdsOf(U)),
           S \cap IdsOf(U) = {}
    PROVE  Cardinality(S \cup IdsOf(U)) = Cardinality(S) + Cardinality(U)
  <1>1. Cardinality(U) = Cardinality(IdsOf(U))
    BY EntriesCounted
  <1>2. Cardinality(S \cap IdsOf(U)) = 0
    BY FS_EmptySet
  <1>3. Cardinality(S) \in Nat /\ Cardinality(IdsOf(U)) \in Nat
    BY FS_CardinalityType
  <1>4. Cardinality(S \cup IdsOf(U))
            = Cardinality(S) + Cardinality(IdsOf(U)) - Cardinality(S \cap IdsOf(U))
    BY FS_Union, Zenon
  <1> QED
    BY <1>1, <1>2, <1>3, <1>4

LEMMA CollectCompletedTruth ==
    ASSUME TruthInv, CollectCompleted
    PROVE  OutputInv' /\ ResultsTruthful'
  <1> DEFINE good == {c \in finished : Result(c).success}
             bad == finished \ good
             done == {r \in DOMAIN results : results[r].success}
             failed == {r \in DOMAIN results : ~results[r].success}
  <1>1. /\ results' = [r \in DOMAIN results \cup Drained |->
                          IF r \in Drained THEN Result(CHOOSE c \in finished : c.id = r)
                                           ELSE results[r]]
        /\ finished' = {}
        /\ completedCount' = completedCount + Cardinality(good)
        /\ failedCount' = failedCount + Cardinality(finished \ good)
        /\ UNCHANGED <<params, waiting, running, output>>
    BY DEF CollectCompleted, Count
  <1>2. OnePerId(finished) /\ Drained = IdsOf(finished) /\ Drained \cap DOMAIN results = {}
    BY OnceFacts DEF TruthInv, EngineInv, EndsOnce
  <1>3. \A c \in finished : c.id \in Drained /\ results'[c.id] = Result(c)
    <2> SUFFICES ASSUME NEW c \in finished PROVE c.id \in Drained /\ results'[c.id] = Result(c)
      OBVIOUS
    <2>1. c.id \in Drained
      BY DEF Drained
    <2>2. (CHOOSE d \in finished : d.id = c.id) = c
      BY <1>2 DEF OnePerId
    <2> QED
      BY <1>1, <2>1, <2>2
  <1>4. \A r \in DOMAIN results : results'[r] = results[r]
    BY <1>1, <1>2
  <1>5. DOMAIN results' = DOMAIN results \cup IdsOf(finished)
    BY <1>1, <1>2
  <1>6. IsFiniteSet(DOMAIN results) /\ IsFiniteSet(IdsOf(finished))
    <2>1. Submitted = 1 .. Len(params) /\ Len(params) \in Nat
      BY DEF TruthInv, EngineInv, Submitted
    <2>2. IsFiniteSet(Submitted)
      BY <2>1, FS_Interval
    <2>3. DOMAIN results \subseteq Submitted /\ IdsOf(finished) \subseteq Submitted
      BY <1>2 DEF TruthInv, EngineInv, EndsOnce
    <2> QED
      BY <2>2, <2>3, FS_Subset
  <1>7. \A U \in SUBSET finished :
            OnePerId(U) /\ IdsOf(U) \subseteq IdsOf(finished) /\ IsFiniteSet(IdsOf(U))
    <2> SUFFICES ASSUME NEW U \in SUBSET finished
                 PROVE  OnePerId(U) /\ IdsOf(U) \subseteq IdsOf(finished) /\ IsFiniteSet(IdsOf(U))
      OBVIOUS
    <2>1. OnePerId(U) /\ IdsOf(U) \subseteq IdsOf(finished)
      BY <1>2 DEF OnePerId, IdsOf
    <2> QED
      BY <1>6, <2>1, FS_Subset
  <1>8. /\ {r \in DOMAIN results' : results'[r].success} = done \cup IdsOf(good)
        /\ {r \in DOMAIN results' : ~results'[r].success} = failed \cup IdsOf(finished \ good)
    <2>1. /\ \A c \in finished : c \in good <=> results'[c.id].success
          /\ \A r \in DOMAIN results : r \in done <=> results'[r].success
          /\ \A r \in DOMAIN results : r \in failed <=> ~results'[r].success
      BY <1>3, <1>4
    <2>2. good \subseteq finished /\ done \cup failed \subseteq DOMAIN results
      OBVIOUS
    <2> HIDE DEF good, done, failed
    <2>3. \A r \in IdsOf(finished) :
             /\ r \in IdsOf(good) <=> results'[r].success
             /\ r \in IdsOf(finished \ good) <=> ~results'[r].success
      BY <1>2, <2>1, <2>2 DEF IdsOf, OnePerId
    <2>4. /\ IdsOf(good) \subseteq IdsOf(finished)
          /\ IdsOf(finished \ good) \subseteq IdsOf(finished)
          /\ IdsOf(finished) \cap DOMAIN results = {}
      BY <1>2, <2>2 DEF IdsOf
    <2> QED
      BY <1>5, <2>1, <2>2, <2>3, <2>4
  <1>9. completedCount' = Cardinality(done \cup IdsOf(good))
    <2>1. IsFiniteSet(done) /\ done \cap IdsOf(good) = {}
      BY <1>2, <1>6, <1>7, FS_Subset
    <2> QED
      BY <1>1, <1>7, <2>1, CountsAdd DEF TruthInv, ResultsTruthful
  <1>10. failedCount' = Cardinality(failed \cup IdsOf(finished \ good))
    <2>1. IsFiniteSet(failed) /\ failed \cap IdsOf(finished \ good) = {}
      BY <1>2, <1>6, <1>7, FS_Subset
    <2> QED
      BY <1>1, <1>7, <2>1, CountsAdd DEF TruthInv, ResultsTruthful
  <1>11. ASSUME NEW c \in finished
         PROVE  /\ Result(c).reason = "length" =>
                      /\ Result(c).outcome = "completed"
                      /\ Len(output[c.id]) = params[c.id].maxTokens
                      /\ EOS \notin Range(output[c.id])
                /\ Result(c).reason = "none" <=> ~Result(c).success
    <2>1. c.outcome = "completed" => Complete(output[c.id], params[c.id].maxTokens)
      BY DEF TruthInv, OutputInv
    <2> QED
      BY <2>1 DEF Result, Complete
  <1>12. ASSUME NEW r \in DOMAIN results'
         PROVE  /\ results'[r].reason = "length" =>
                      /\ results'[r].outcome = "completed"
                      /\ Len(output'[r]) = params'[r].maxTokens
                      /\ EOS \notin Range(output'[r])
                /\ results'[r].reason = "none" <=> ~results'[r].success
    <2>1. CASE r \in DOMAIN results
      BY <1>1, <1>4, <2>1 DEF TruthInv, ResultsTruthful
    <2>2. CASE r \in IdsOf(finished)
      <3>1. PICK c \in finished : r = c.id
        BY <2>2 DEF IdsOf
      <3> QED
        BY <1>1, <1>3, <1>11, <3>1
    <2> QED
      BY <1>5, <2>1, <2>2
  <1>13. ResultsTruthful'
    BY <1>8, <1>9, <1>10, <1>12 DEF ResultsTruthful
  <1>14. OutputInv'
    <2>1. Submitted' = Submitted /\ Drained' = {}
      BY <1>1 DEF Submitted, Drained
    <2> QED
      BY <1>1, <1>2, <1>5, <2>1 DEF TruthInv, OutputInv
  <1> QED
    BY <1>13, <1>14

-----------------------------------------------------------------------------
LEMMA NextTruth ==
    ASSUME TruthInv, [Next]_vars
    PROVE  TruthInv'
  <1>1. EngineInv'
    BY NextInv DEF TruthInv
  <1>2. CASE \E p \in Params : Submit(p)
    <2>1. PICK p \in Params : Submit(p)
      BY <1>2
    <2>2. /\ Len(params) + 1 \in Ids /\ params' = Append(params, p)
          /\ UNCHANGED <<running, finished, output, results, resultVars>>
      BY <2>1 DEF Submit, resultVars
    <2>3. /\ Submitted' = Submitted \cup {Len(params) + 1}
          /\ \A r \in Submitted : params'[r] = params[r]
      BY <2>2 DEF TruthInv, EngineInv, Submitted
    <2>4. running \subseteq Submitted /\ Drained \subseteq Submitted /\ DOMAIN results \subseteq Submitted
      BY DEF TruthInv, EngineInv, EndsOnce
    <2>5. ResultsTruthful'
      BY <2>2, <2>3, <2>4, TruthKept DEF TruthInv
    <2>6. \A c \in finished : c.id \in Submitted
      BY <2>4 DEF Drained
    <2>7. OutputInv'
      <3>1. Submitted' \subseteq Ids /\ Drained' = Drained
        BY <2>2, <2>3 DEF TruthInv, OutputInv, Drained
      <3>2. \A r \in running' : Within(output'[r], params'[r].maxTokens)
        BY <2>2, <2>3, <2>4 DEF TruthInv, OutputInv
      <3>3. \A c \in finished' : c.outcome = "completed" =>
                Complete(output'[c.id], params'[c.id].maxTokens)
        BY <2>2, <2>3, <2>6 DEF TruthInv, OutputInv
      <3>4. \A r \in Ids \ (running' \cup Drained' \cup DOMAIN results') : output'[r] = <<>>
        BY <2>2, <3>1 DEF TruthInv, OutputInv
      <3> QED
        BY <3>1, <3>2, <3>3, <3>4 DEF OutputInv
    <2> QED
      BY <1>1, <2>5, <2>7 DEF TruthInv
  <1>3. CASE \E r \in Ids : Cancel(r)
    <2>1. PICK r \in Ids : Cancel(r)
      BY <1>3
    <2>2. /\ finished' = finished \cup Terminal({r}, "cancelled")
          /\ running' = running \ {r}
          /\ UNCHANGED <<params, output, results, resultVars>>
      BY <2>1 DEF Cancel, resultVars
    <2>3. Drained' = Drained \cup {r}
      BY <2>2, TerminalJoins DEF Drained, IdsOf
    <2>4. OutputInv'
      BY <2>2, <2>3, EndingKeepsOutput, TerminalOutcome
    <2> QED
      BY <1>1, <2>2, <2>4, TruthKept DEF TruthInv
  <1>4. CASE AnySchedule
    <2>1. PICK starting \in SUBSET waiting, lost \in SUBSET running :
              \E rejected \in SUBSET (waiting \ starting) : Schedule(starting, rejected, lost)
      BY <1>4 DEF AnySchedule
    <2>2. PICK rejected \in SUBSET (waiting \ starting) : Schedule(starting, rejected, lost)
      BY <2>1
    <2>3. /\ finished' = (finished \cup Terminal(rejected, "rejected"))
                             \cup Terminal(lost, "outOfBlocks")
          /\ running' = (running \ lost) \cup starting
          /\ UNCHANGED <<params, output, results, resultVars>>
      BY <2>2 DEF Schedule, resultVars
    <2>4. Drained' = (Drained \cup rejected) \cup lost
      BY <2>3, TerminalJoins DEF Drained, IdsOf
    <2>5. \A c \in finished' : c.outcome = "completed" => c \in finished
      BY <2>3 DEF Terminal
    <2>6. running \ running' \subseteq Drained'
      BY <2>3, <2>4
    <2>7. OutputInv'
      BY <2>3, <2>4, <2>5, <2>6, EndingKeepsOutput
    <2> QED
      BY <1>1, <2>3, <2>7, TruthKept DEF TruthInv
  <1>5. CASE \E tokens \in [running -> Tokens] : Execute(tokens)
    BY <1>1, <1>5, ExecuteTruth DEF TruthInv
  <1>6. CASE ExecutionError
    <2>1. /\ finished' = finished \cup Terminal(running, "execution") /\ running' = {}
          /\ UNCHANGED <<params, output, results, resultVars>>
      BY <1>6 DEF ExecutionError, resultVars
    <2>2. Drained' = Drained \cup running
      BY <2>1, TerminalJoins DEF Drained, IdsOf
    <2>3. OutputInv'
      BY <2>1, <2>2, EndingKeepsOutput, TerminalOutcome
    <2> QED
      BY <1>1, <2>1, <2>3, TruthKept DEF TruthInv
  <1>7. CASE ApplyStopSequences
    BY <1>1, <1>7, ApplyStopSequencesTruth DEF TruthInv
  <1>8. CASE DecodeGenerated
    <2>1. UNCHANGED <<params, output, results, resultVars>>
      BY <1>8 DEF DecodeGenerated, resultVars
    <2>2. /\ running' \subseteq running
          /\ running \ running' \subseteq Drained'
          /\ Drained \subseteq Drained'
          /\ \A c \in finished' : c.outcome = "completed" => c \in finished
      <3>1. CASE PushBuffered
        BY <3>1 DEF PushBuffered, Drained
      <3>2. CASE PushDirect
        <4> DEFINE failing == {r \in DOMAIN generated \cap decoders : generated[r] \in Undecodable}
        <4>1. /\ running' = running \ failing
              /\ finished' = finished \cup Terminal(running \cap failing, "undecodable")
          BY <3>2 DEF PushDirect
        <4> HIDE DEF failing
        <4>2. Drained' = Drained \cup (running \cap failing)
          BY <4>1, TerminalJoins DEF Drained, IdsOf
        <4>3. running \ running' \subseteq Drained' /\ Drained \subseteq Drained'
          BY <4>1, <4>2
        <4> QED
          BY <4>1, <4>3, TerminalOutcome
      <3> QED
        BY <1>8, <3>1, <3>2 DEF DecodeGenerated
    <2>3. OutputInv'
      BY <2>1, <2>2, EndingKeepsOutput
    <2> QED
      BY <1>1, <2>1, <2>3, TruthKept DEF TruthInv
  <1>9. CASE EndStep \/ StartRun \/ Return
    BY <1>1, <1>9, CollectCompletedTruth DEF EndStep, StartRun, Return, TruthInv
  <1>10. CASE Stall \/ FailPendingRequests
    <2>1. /\ finished' = finished \cup Terminal(waiting, "stalled") /\ running' = running
          /\ UNCHANGED <<params, output, results, resultVars>>
      BY <1>10 DEF Stall, FailPendingRequests, resultVars
    <2>2. Drained \subseteq Drained'
      BY <2>1 DEF Drained
    <2>3. OutputInv'
      BY <2>1, <2>2, EndingKeepsOutput, TerminalOutcome
    <2> QED
      BY <1>1, <2>1, <2>3, TruthKept DEF TruthInv
  <1>11. CASE LeaveLoop \/ UNCHANGED vars
    <2>1. UNCHANGED <<params, running, finished, output, results, resultVars>>
      BY <1>11 DEF LeaveLoop, vars, requestVars, resultVars
    <2>2. OutputInv'
      BY <2>1, EndingKeepsOutput DEF Drained
    <2> QED
      BY <1>1, <2>1, <2>2, TruthKept DEF TruthInv
  <1> QED
    BY <1>2, <1>3, <1>4, <1>5, <1>6, <1>7, <1>8, <1>9, <1>10, <1>11 DEF Next, Continue, Call

\* A result gives the reason that is true and is counted once by how it reads,
\* although the counters are written at the drain, after the update, a stop
\* sequence or the decoder has ended the request
\* (InferenceEngine::collect_completed_requests).
THEOREM ResultsAreTruthful == Spec => []ResultsTruthful
  <1>1. TruthInv /\ [Next]_vars => TruthInv'
    BY NextTruth
  <1>2. TruthInv => ResultsTruthful
    BY DEF TruthInv
  <1> QED
    BY InitTruth, <1>1, <1>2, PTL DEF Spec

-----------------------------------------------------------------------------
(* The text of tokens                                                      *)

Chars == UNION {Range(TextOf[t]) : t \in Tokens}

Parts(tokens) == [i \in DOMAIN tokens |-> TextOf[tokens[i]]]

LEMMA TokenText ==
    ASSUME NEW t \in Tokens
    PROVE  TextOf[t] \in Seq(Chars)
  <1>1. TextOf[t] \in Seq(Range(TextOf[t]))
    BY EngineAssumption
  <1>2. Range(TextOf[t]) \subseteq Chars
    BY DEF Chars
  <1> QED
    BY <1>1, <1>2, SeqMonotonic

LEMMA PartsType ==
    ASSUME NEW tokens \in Seq(Tokens)
    PROVE  Parts(tokens) \in Seq(Seq(Chars))
  <1>1. \A i \in DOMAIN tokens : tokens[i] \in Tokens
    OBVIOUS
  <1>2. \A i \in DOMAIN tokens : TextOf[tokens[i]] \in Seq(Chars)
    BY <1>1, TokenText
  <1> QED
    BY <1>2 DEF Parts

LEMMA TextType ==
    ASSUME NEW tokens \in Seq(Tokens)
    PROVE  Text(tokens) \in Seq(Chars)
  BY PartsType, FlattenType DEF Text, Parts

LEMMA TextEmpty == Text(<<>>) = <<>>
  <1>1. Parts(<<>>) = <<>>
    BY DEF Parts
  <1> QED
    BY <1>1, FlattenEmpty DEF Text, Parts

LEMMA TextAppend ==
    ASSUME NEW tokens \in Seq(Tokens), NEW t \in Tokens
    PROVE  Text(Append(tokens, t)) = Text(tokens) \o TextOf[t]
  <1>1. Parts(Append(tokens, t)) = Append(Parts(tokens), TextOf[t])
    <2>1. /\ Append(tokens, t) \in Seq(Tokens) /\ Len(Append(tokens, t)) = Len(tokens) + 1
          /\ Append(tokens, t)[Len(tokens) + 1] = t
          /\ \A i \in 1 .. Len(tokens) : Append(tokens, t)[i] = tokens[i]
      OBVIOUS
    <2>2. /\ Parts(Append(tokens, t)) \in Seq(Seq(Chars))
          /\ Parts(tokens) \in Seq(Seq(Chars)) /\ TextOf[t] \in Seq(Chars)
      BY <2>1, PartsType, TokenText
    <2>3. Len(Parts(tokens)) = Len(tokens) /\ Len(Parts(Append(tokens, t))) = Len(tokens) + 1
      BY <2>1 DEF Parts
    <2>4. /\ Append(Parts(tokens), TextOf[t]) \in Seq(Seq(Chars))
          /\ Len(Append(Parts(tokens), TextOf[t])) = Len(tokens) + 1
      BY <2>2, <2>3
    <2>5. ASSUME NEW i \in 1 .. Len(tokens) + 1
          PROVE  Parts(Append(tokens, t))[i] = Append(Parts(tokens), TextOf[t])[i]
      <3>1. Parts(Append(tokens, t))[i] = TextOf[Append(tokens, t)[i]]
        BY <2>1 DEF Parts
      <3>2. CASE i = Len(tokens) + 1
        BY <2>1, <2>2, <2>3, <3>1, <3>2
      <3>3. CASE i \in 1 .. Len(tokens)
        <4>1. Parts(tokens)[i] = TextOf[tokens[i]]
          BY <3>3 DEF Parts
        <4> DEFINE parts == Parts(tokens)
                   S == Seq(Chars)
        <4>2. parts \in Seq(S) /\ TextOf[t] \in S /\ i \in 1 .. Len(parts)
          BY <2>2, <2>3, <3>3
        <4> HIDE DEF parts, S
        <4>3. Append(parts, TextOf[t])[i] = parts[i]
          BY <4>2, AppendProperties
        <4> QED
          BY <2>1, <3>1, <3>3, <4>1, <4>3 DEF parts
      <3>4. i = Len(tokens) + 1 \/ i \in 1 .. Len(tokens)
        OBVIOUS
      <3> QED
        BY Zenon, <3>2, <3>3, <3>4
    <2> QED
      BY <2>2, <2>3, <2>4, <2>5, SeqEqual
  <1>2. Parts(tokens) \in Seq(Seq(Chars)) /\ TextOf[t] \in Seq(Chars)
    BY PartsType, TokenText
  <1> QED
    BY <1>1, <1>2, FlattenAppend DEF Text, Parts

\* The text of the first tokens is where the text of all begins.
LEMMA TextBegins ==
    ASSUME NEW tokens \in Seq(Tokens), NEW n \in 0 .. Len(tokens)
    PROVE  \E rest \in Seq(Chars) : Text(tokens) = Text(SubSeq(tokens, 1, n)) \o rest
  <1> DEFINE Begins(t, k) == \E rest \in Seq(Chars) : Text(t) = Text(SubSeq(t, 1, k)) \o rest
             G == {t \in Seq(Tokens) : \A k \in 0 .. Len(t) : Begins(t, k)}
  <1>1. \A t \in Seq(Tokens) : Begins(t, Len(t))
    <2> SUFFICES ASSUME NEW t \in Seq(Tokens) PROVE Begins(t, Len(t))
      OBVIOUS
    <2>1. SubSeq(t, 1, Len(t)) = t /\ Text(t) \in Seq(Chars) /\ <<>> \in Seq(Chars)
      BY TextType
    <2>2. Text(t) = Text(t) \o <<>>
      BY <2>1
    <2>3. Text(t) = Text(SubSeq(t, 1, Len(t))) \o <<>>
      BY Zenon, <2>1, <2>2
    <2> WITNESS <<>> \in Seq(Chars)
    <2> QED
      BY <2>3
  <1>2. <<>> \in G
    <2>1. \A k \in 0 .. Len(<<>>) : k = Len(<<>>)
      OBVIOUS
    <2> HIDE DEF Begins
    <2>2. <<>> \in Seq(Tokens) /\ Begins(<<>>, Len(<<>>))
      <3>1. <<>> \in Seq(Tokens)
        OBVIOUS
      <3> QED
        BY Zenon, <1>1, <3>1
    <2> QED
      BY <2>1, <2>2
  <1>3. ASSUME NEW t \in Seq(Tokens), NEW e \in Tokens, t \in G PROVE Append(t, e) \in G
    <2>1. ASSUME NEW k \in 0 .. Len(t) PROVE Begins(Append(t, e), k)
      <3>1. PICK rest \in Seq(Chars) : Text(t) = Text(SubSeq(t, 1, k)) \o rest
        BY <1>3
      <3>2. SubSeq(Append(t, e), 1, k) = SubSeq(t, 1, k) /\ SubSeq(t, 1, k) \in Seq(Tokens)
        <4>1. Append(t, e) = t \o <<e>> /\ <<e>> \in Seq(Tokens)
          BY AppendIsConcat
        <4>2. SubSeq(t \o <<e>>, 1, k) = SubSeq(t, 1, k)
          BY <4>1, BeginningOfConcat
        <4> QED
          BY <4>1, <4>2
      <3>3. Text(SubSeq(t, 1, k)) \in Seq(Chars) /\ TextOf[e] \in Seq(Chars)
        BY <3>2, TextType, TokenText
      <3>4. Text(Append(t, e)) = (Text(SubSeq(t, 1, k)) \o rest) \o TextOf[e]
        BY <3>1, TextAppend
      <3>5. /\ Text(Append(t, e)) = Text(SubSeq(t, 1, k)) \o (rest \o TextOf[e])
            /\ rest \o TextOf[e] \in Seq(Chars)
        <4> DEFINE a == Text(SubSeq(t, 1, k))
                   b == TextOf[e]
        <4>1. a \in Seq(Chars) /\ b \in Seq(Chars)
          BY <3>3
        <4> HIDE DEF a, b
        <4>2. (a \o rest) \o b = a \o (rest \o b) /\ rest \o b \in Seq(Chars)
          BY <4>1, ConcatAssociative
        <4> QED
          BY <3>4, <4>2 DEF a, b
      <3> QED
        BY <3>2, <3>5
    <2>2. /\ Append(t, e) \in Seq(Tokens) /\ Len(Append(t, e)) = Len(t) + 1
          /\ \A k \in 0 .. Len(t) + 1 : k \in 0 .. Len(t) \/ k = Len(t) + 1
      OBVIOUS
    <2>3. Begins(Append(t, e), Len(t) + 1)
      BY <1>1, <2>2
    <2> HIDE DEF Begins
    <2> QED
      BY <2>1, <2>2, <2>3
  <1> HIDE DEF G
  <1>4. Seq(Tokens) \subseteq G
    BY <1>2, <1>3, SeqInduct
  <1> QED
    BY <1>4 DEF G

-----------------------------------------------------------------------------
(* Stop sequences                                                          *)

\* A text without stop sequences does not begin with a text that has one.
LEMMA BeginningIsClean ==
    ASSUME NEW p \in Params, NEW a \in Seq(Chars), NEW rest \in Seq(Chars),
           StopStarts(a \o rest, p.stops) = {}
    PROVE  StopStarts(a, p.stops) = {}
  <1>1. SUFFICES ASSUME NEW i \in StopStarts(a, p.stops) PROVE FALSE
    OBVIOUS
  <1>2. PICK s \in p.stops \ {<<>>} :
            i \in 0 .. Len(a) /\ i + Len(s) <= Len(a) /\ SubSeq(a, i + 1, i + Len(s)) = s
    BY <1>1 DEF StopStarts
  <1>3. s \in Seq(Range(s)) /\ Len(s) \in Nat /\ Len(s) > 0
    BY EngineAssumption, <1>2
  <1>4. SubSeq(a \o rest, i + 1, i + Len(s)) = SubSeq(a, i + 1, i + Len(s))
    BY <1>2, <1>3, SubSeqOfConcat1
  <1>5. i \in 0 .. Len(a \o rest) /\ i + Len(s) <= Len(a \o rest)
    BY <1>2, <1>3
  <1> QED
    BY <1>2, <1>4, <1>5 DEF StopStarts

LEMMA NothingIsClean ==
    ASSUME NEW p \in Params
    PROVE  StopStarts(<<>>, p.stops) = {}
  <1>1. SUFFICES ASSUME NEW i \in StopStarts(<<>>, p.stops) PROVE FALSE
    OBVIOUS
  <1>2. PICK s \in p.stops \ {<<>>} : i \in 0 .. 0 /\ i + Len(s) <= 0
    BY <1>1 DEF StopStarts
  <1>3. s \in Seq(Range(s)) /\ Len(s) > 0
    BY EngineAssumption, <1>2
  <1> QED
    BY <1>2, <1>3
LEMMA LastToken ==
    ASSUME NEW S, NEW s \in Seq(S), s # <<>>
    PROVE  /\ Front(s) \in Seq(S) /\ Len(Front(s)) = Len(s) - 1 /\ Last(s) \in S
           /\ s = Append(Front(s), Last(s))
  <1>1. Len(s) \in Nat \ {0}
    OBVIOUS
  <1>2. Front(s) \in Seq(S) /\ Len(Front(s)) = Len(s) - 1
    <2>1. \A i \in 1 .. Len(s) - 1 : s[i] \in S
      OBVIOUS
    <2>2. 1 \in Int /\ Len(s) - 1 \in Int /\ Len(s) - 1 >= 0
      BY <1>1
    <2>3. PICK n \in Nat : n = Len(s) - 1
      BY <2>2
    <2>4. SubSeq(s, 1, n) \in Seq(S) /\ Len(SubSeq(s, 1, n)) = IF 1 <= n THEN n - 1 + 1 ELSE 0
      BY <2>1, <2>3, SubSeqProperties
    <2>5. (IF 1 <= n THEN n - 1 + 1 ELSE 0) = n
      OBVIOUS
    <2>6. Front(s) = SubSeq(s, 1, n)
      BY <2>3 DEF Front
    <2> QED
      BY Zenon, <2>3, <2>4, <2>5, <2>6
  <1>3. Last(s) \in S
    BY <1>1 DEF Last
  <1>4. \A i \in 1 .. Len(s) - 1 : Front(s)[i] = s[i]
    BY <1>1, SubSeqProperties DEF Front
  <1>5. s = Append(Front(s), Last(s))
    <2>1. /\ Append(Front(s), Last(s)) \in Seq(S)
          /\ Len(Append(Front(s), Last(s))) = Len(s)
      BY <1>1, <1>2, <1>3
    <2>2. \A i \in 1 .. Len(s) : s[i] = Append(Front(s), Last(s))[i]
      BY <1>1, <1>2, <1>3, <1>4 DEF Last
    <2> QED
      BY <2>1, <2>2, SeqEqual
  <1> QED
    BY <1>2, <1>3, <1>5

LEMMA FrontOfAppend ==
    ASSUME NEW S, NEW s \in Seq(S), NEW e \in S
    PROVE  /\ Append(s, e) \in Seq(S) /\ Append(s, e) # <<>>
           /\ Last(Append(s, e)) = e /\ Front(Append(s, e)) = s
  <1>1. Append(s, e) \in Seq(S) /\ Append(s, e) # <<>> /\ Last(Append(s, e)) = e
    BY DEF Last
  <1>2. Append(Front(Append(s, e)), Last(Append(s, e))) = Append(s, e)
    BY <1>1, LastToken
  <1>3. Front(Append(s, e)) \in Seq(S)
    BY <1>1, LastToken
  <1>4. Front(Append(s, e)) = s
    BY <1>1, <1>2, <1>3, AppendInjective
  <1> QED
    BY <1>1, <1>4

LEMMA DecodableAppend ==
    ASSUME NEW tokens \in Seq(Tokens), NEW t \in Tokens
    PROVE  Decodable(Append(tokens, t)) <=> Decodable(tokens) /\ t \notin Undecodable
  <1>1. Range(Append(tokens, t)) = Range(tokens) \cup {t}
    <2> DEFINE s == Append(tokens, t)
               n == Len(tokens)
    <2>1. /\ DOMAIN s = 1 .. n + 1 /\ DOMAIN tokens = 1 .. n /\ n \in Nat /\ s[n + 1] = t
          /\ \A i \in 1 .. n : s[i] = tokens[i]
      OBVIOUS
    <2>2. \A i : i \in 1 .. n + 1 <=> i \in 1 .. n \/ i = n + 1
      BY <2>1
    <2> HIDE DEF s, n
    <2>3. Range(s) = Range(tokens) \cup {t}
      BY Zenon, <2>1, <2>2 DEF Range
    <2> QED
      BY <2>3 DEF s
  <1> QED
    BY <1>1 DEF Decodable

LEMMA LeastOf ==
    ASSUME NEW T, T \subseteq Nat, T # {}
    PROVE  Min(T) \in T /\ \A x \in T : Min(T) <= x
  <1>1. \E x \in T : \A y \in T : x <= y
    BY LeastElement
  <1> QED
    BY <1>1 DEF Min

LEMMA BeforeCharRange ==
    ASSUME NEW tokens \in Seq(Tokens), NEW offset
    PROVE  TokensBeforeChar(tokens, offset) \in 0 .. Len(tokens)
  <1> DEFINE T == {i \in 0 .. Len(tokens) : Len(Text(SubSeq(tokens, 1, i))) >= offset}
                      \cup {Len(tokens)}
  <1>1. T \subseteq 0 .. Len(tokens) /\ T \subseteq Nat /\ T # {}
    OBVIOUS
  <1> HIDE DEF T
  <1>2. Min(T) \in T
    BY <1>1, LeastOf
  <1> QED
    BY <1>1, <1>2 DEF T, TokensBeforeChar

-----------------------------------------------------------------------------
(* What the decoders have been given                                       *)

\* Has the request a token of this step that its decoder has not?
Pending(r) == r \in DOMAIN generated /\ pc \in {"stopping", "decoding"}

\* The tokens that a decoder has been given.
Fed(r) == IF Pending(r) THEN Front(output[r]) ELSE output[r]

Clean(tokens, stops) == Decodable(tokens) => StopStarts(Text(tokens), stops) = {}

\* What has been streamed for a request that still has its decoder, and what
\* the decoder will stream next.
FedInv(r) ==
    /\ Pending(r) => output[r] # <<>> /\ Last(output[r]) = generated[r]
    /\ Clean(Fed(r), params[r].stops)
    /\ pc = "decoding" => Clean(output[r], params[r].stops)
    /\ Buffered => stream[r] = <<>> /\ pushed[r] = Fed(r)
    /\ ~Buffered /\ Decodable(Fed(r)) => stream[r] = Text(Fed(r))
    /\ ~Buffered /\ (r \in waiting \cup running \/ Pending(r)) => Decodable(Fed(r))

TextTypes ==
    /\ output \in [Ids -> Seq(Tokens)]
    /\ pushed \in [Ids -> Seq(Tokens)]
    /\ stream \in [Ids -> Seq(Chars)]
    /\ \A r \in DOMAIN generated : generated[r] \in Tokens

TextInv ==
    /\ TextTypes
    /\ \A r \in Ids \ Submitted : output[r] = <<>> /\ stream[r] = <<>> /\ pushed[r] = <<>>
    /\ \A r \in decoders : FedInv(r)
    /\ \A r \in Drained : params[r].stops = {} => r \in decoders
    /\ StopNeverStreamed
    /\ StreamedText

LEMMA InitText == Init => TextInv
  <1> SUFFICES ASSUME Init PROVE TextInv
    OBVIOUS
  <1>1. <<>> \in Seq(Tokens) /\ <<>> \in Seq(Chars)
    OBVIOUS
  <1>2. TextTypes
    BY <1>1 DEF Init, TextTypes
  <1>3. Submitted = {} /\ Drained = {} /\ decoders = {} /\ DOMAIN results = {}
    BY DEF Init, Submitted, Drained
  <1>4. \A r \in Ids \ Submitted : output[r] = <<>> /\ stream[r] = <<>> /\ pushed[r] = <<>>
    BY DEF Init
  <1> QED
    BY <1>2, <1>3, <1>4 DEF TextInv, StopNeverStreamed, StreamedText

LEMMA TextSets ==
    ASSUME TruthInv
    PROVE  /\ Submitted \subseteq Ids
           /\ waiting \cup running \subseteq decoders
           /\ waiting \cup running \subseteq Submitted
           /\ Drained \subseteq Submitted /\ DOMAIN results \subseteq Submitted
           /\ decoders \subseteq Submitted /\ decoders \cap DOMAIN results = {}
           /\ Drained \cap DOMAIN results = {} /\ Drained \cap running = {}
           /\ waiting \cap running = {}
           /\ \A r \in Submitted : params[r] \in Params
  BY DEF TruthInv, EngineInv, EndsOnce, DecodersLive, OutputInv, Submitted

\* Requests end or start between the token and the decoder of a step.
LEMMA TextKept ==
    ASSUME TruthInv, TextInv,
           UNCHANGED <<params, output, stream, pushed, results, generated, decoders>>,
           DOMAIN generated = {} \/ {pc, pc'} \cap {"stopping", "decoding"} = {},
           pc' # "decoding",
           waiting' \cup running' \subseteq waiting \cup running,
           Drained' \subseteq Drained \cup waiting \cup running
    PROVE  TextInv'
  <1>1. Submitted' = Submitted
    BY DEF Submitted
  <1>2. ASSUME NEW r \in decoders PROVE FedInv(r)'
    <2>1. ~Pending(r) /\ ~Pending(r)' /\ Fed(r) = output[r] /\ Fed(r)' = output[r]
      BY DEF Pending, Fed
    <2>2. FedInv(r)
      BY DEF TextInv
    <2> QED
      BY <2>1, <2>2 DEF FedInv
  <1>3. \A r \in Drained' : params'[r].stops = {} => r \in decoders'
    BY TextSets DEF TextInv
  <1>4. TextTypes'
    BY DEF TextInv, TextTypes
  <1>5. StopNeverStreamed' /\ StreamedText'
    BY <1>1 DEF TextInv, StopNeverStreamed, StreamedText
  <1>6. \A r \in Ids \ Submitted' : output'[r] = <<>> /\ stream'[r] = <<>> /\ pushed'[r] = <<>>
    BY <1>1 DEF TextInv
  <1> QED
    BY <1>2, <1>3, <1>4, <1>5, <1>6 DEF TextInv

LEMMA SubmitText ==
    ASSUME TruthInv, TextInv, NEW p \in Params, Submit(p)
    PROVE  TextInv'
  <1>0. PICK new \in Ids : new = Len(params) + 1
    BY DEF Submit
  <1>1. /\ params' = Append(params, p) /\ decoders' = decoders \cup {new}
        /\ waiting' = waiting \cup {new}
        /\ UNCHANGED <<running, finished, output, stream, pushed, results, generated, pc>>
        /\ pc = "idle"
    BY <1>0 DEF Submit, resultVars
  <1>2. /\ Submitted' = Submitted \cup {new} /\ new \notin Submitted
        /\ \A r \in Submitted : params'[r] = params[r]
        /\ params'[new] = p
    BY <1>0, <1>1 DEF TruthInv, EngineInv, Submitted
  <1>3. \A r : ~Pending(r) /\ ~Pending(r)' /\ Fed(r) = output[r] /\ Fed(r)' = output[r]
    BY <1>1 DEF Pending, Fed
  <1>4. ASSUME NEW r \in decoders PROVE FedInv(r)'
    <2>1. r \in Submitted /\ r # new
      BY <1>2, TextSets
    <2>2. FedInv(r)
      BY DEF TextInv
    <2> QED
      BY <1>1, <1>2, <1>3, <2>1, <2>2 DEF FedInv
  <1>5. FedInv(new)'
    <2>1. output[new] = <<>> /\ stream[new] = <<>> /\ pushed[new] = <<>>
      BY <1>1, <1>2 DEF TextInv
    <2>2. Decodable(<<>>) /\ Text(<<>>) = <<>> /\ StopStarts(<<>>, p.stops) = {}
      BY TextEmpty, NothingIsClean DEF Decodable, Range
    <2>3. /\ Fed(new)' = <<>> /\ output'[new] = <<>> /\ params'[new] = p
          /\ stream'[new] = <<>> /\ pushed'[new] = <<>>
      BY <1>1, <1>2, <1>3, <2>1
    <2>4. Clean(Fed(new), params[new].stops)' /\ Decodable(Fed(new))' /\ Text(Fed(new))' = <<>>
      BY <2>2, <2>3 DEF Clean
    <2> QED
      BY <1>1, <1>3, <2>3, <2>4 DEF FedInv
  <1>6. Drained' = Drained
    BY <1>1 DEF Drained
  <1>7. \A r \in Drained' : params'[r].stops = {} => r \in decoders'
    BY <1>1, <1>2, <1>6, TextSets DEF TextInv
  <1>8. TextTypes'
    BY <1>1 DEF TextInv, TextTypes
  <1>9. StopNeverStreamed'
    <2>1. stream[new] = <<>>
      BY <1>1, <1>2 DEF TextInv
    <2> QED
      BY <1>1, <1>2, <2>1, NothingIsClean DEF TextInv, StopNeverStreamed
  <1>10. StreamedText'
    BY <1>1, <1>2, TextSets DEF TextInv, StreamedText
  <1>11. \A r \in Ids \ Submitted' : output'[r] = <<>> /\ stream'[r] = <<>> /\ pushed'[r] = <<>>
    BY <1>1, <1>2 DEF TextInv
  <1>12. \A r \in decoders' : FedInv(r)'
    BY <1>1, <1>4, <1>5
  <1> QED
    BY <1>7, <1>8, <1>9, <1>10, <1>11, <1>12 DEF TextInv

\* The tokens of a step are appended to what the decoders have been given.
LEMMA ExecuteText ==
    ASSUME TruthInv, TextInv, NEW tokens \in [running -> Tokens], Execute(tokens)
    PROVE  TextInv'
  <1>1. /\ output' = [r \in Ids |-> IF r \in running THEN Append(output[r], tokens[r])
                                                    ELSE output[r]]
        /\ generated' = tokens /\ running' \subseteq running
        /\ pc = "executing" /\ pc' = "stopping"
        /\ UNCHANGED <<params, waiting, stream, pushed, results, decoders>>
    BY DEF Execute, decoderVars, resultVars
  <1>2. Submitted' = Submitted
    BY <1>1 DEF Submitted
  <1>3. \A r \in running : r \in Ids /\ output[r] \in Seq(Tokens) /\ tokens[r] \in Tokens
    BY TextSets DEF TextInv, TextTypes
  <1>4. \A r \in running : /\ output'[r] = Append(output[r], tokens[r])
                           /\ output'[r] \in Seq(Tokens) /\ output'[r] # <<>>
                           /\ Last(output'[r]) = tokens[r] /\ Front(output'[r]) = output[r]
    BY <1>1, <1>3, FrontOfAppend
  <1>5. \A r \in Ids \ running : output'[r] = output[r]
    BY <1>1
  <1>6. TextTypes'
    BY <1>1, <1>4, <1>5 DEF TextInv, TextTypes
  <1>7. ASSUME NEW r \in decoders PROVE FedInv(r)'
    <2>1. FedInv(r) /\ r \in Ids /\ ~Pending(r) /\ Fed(r) = output[r]
      BY <1>1, TextSets DEF TextInv, Pending, Fed
    <2>2. Pending(r)' <=> r \in running
      BY <1>1 DEF Pending
    <2>3. Fed(r)' = output[r]
      BY <1>4, <1>5, <2>1, <2>2 DEF Fed
    <2>4. Pending(r)' => output'[r] # <<>> /\ Last(output'[r]) = generated'[r]
      BY <1>1, <1>4, <2>2
    <2> QED
      BY <1>1, <2>1, <2>2, <2>3, <2>4 DEF FedInv
  <1>8. Drained' \subseteq Drained \cup running
    <2> DEFINE complete == {r \in running : IsComplete(output'[r], params[r])}
    <2>1. finished' = finished \cup Terminal(complete, "completed") /\ complete \subseteq running
      BY DEF Execute
    <2> HIDE DEF complete
    <2>2. Drained' = Drained \cup complete
      BY <2>1, TerminalJoins DEF Drained, IdsOf
    <2> QED
      BY <2>1, <2>2
  <1>9. \A r \in Drained' : params'[r].stops = {} => r \in decoders'
    BY <1>1, <1>8, TextSets DEF TextInv
  <1>10. StopNeverStreamed' /\ StreamedText'
    BY <1>1, <1>2 DEF TextInv, StopNeverStreamed, StreamedText
  <1>11. \A r \in Ids \ Submitted' : output'[r] = <<>> /\ stream'[r] = <<>> /\ pushed'[r] = <<>>
    BY <1>1, <1>2, <1>5, TextSets DEF TextInv
  <1>12. \A r \in decoders' : FedInv(r)'
    BY <1>1, <1>7
  <1> QED
    BY <1>6, <1>9, <1>10, <1>11, <1>12 DEF TextInv

\* A decoder that stays is about to be given a token that completes no stop
\* sequence.
LEMMA ApplyStopSequencesText ==
    ASSUME TruthInv, TextInv, ApplyStopSequences
    PROVE  TextInv'
  <1>1. /\ output' = CutOutput /\ decoders' = decoders \ Hits
        /\ running' = running \ Hits
        /\ finished' = finished \cup Terminal(running \cap Hits, "stopped")
        /\ pc = "stopping" /\ pc' = "decoding"
        /\ UNCHANGED <<params, waiting, stream, pushed, results, generated>>
    BY DEF ApplyStopSequences, resultVars
  <1>2. Submitted' = Submitted
    BY <1>1 DEF Submitted
  <1>3. \A r \in Ids \ (running \cap Hits) : output'[r] = output[r]
    BY <1>1 DEF CutOutput
  <1>4. TextTypes'
    <2>1. ASSUME NEW r \in Ids PROVE CutOutput[r] \in Seq(Tokens)
      <3>1. output[r] \in Seq(Tokens)
        BY DEF TextInv, TextTypes
      <3>2. CASE r \in running \cap Hits
        <4> DEFINE n == TokensBeforeChar(output[r],
                                 FindStopSequence(Text(output[r]), params[r].stops))
        <4>1. n \in 0 .. Len(output[r])
          BY <3>1, BeforeCharRange
        <4>2. CutOutput[r] = SubSeq(output[r], 1, n)
          BY <3>2 DEF CutOutput
        <4> HIDE DEF n
        <4> QED
          BY <3>1, <4>1, <4>2
      <3>3. CASE r \notin running \cap Hits
        BY <3>1, <3>3 DEF CutOutput
      <3> QED
        BY <3>2, <3>3
    <2>2. CutOutput \in [Ids -> Seq(Tokens)]
      BY <2>1 DEF CutOutput
    <2> QED
      BY <1>1, <2>2 DEF TextInv, TextTypes
  <1>5. ASSUME NEW r \in decoders \ Hits PROVE FedInv(r)'
    <2>1. FedInv(r) /\ r \in Ids /\ output'[r] = output[r]
      BY <1>3, TextSets DEF TextInv
    <2>2. (Pending(r)' <=> Pending(r)) /\ Fed(r)' = Fed(r)
      BY <1>1, <2>1 DEF Pending, Fed
    <2>3. Clean(output[r], params[r].stops)
      <3>1. CASE r \in DOMAIN generated
        BY <3>1 DEF Hits, Clean
      <3>2. CASE r \notin DOMAIN generated
        BY <2>1, <3>2 DEF FedInv, Fed, Pending
      <3> QED
        BY <3>1, <3>2
    <2>4. r \in waiting' \cup running' => r \in waiting \cup running
      BY <1>1
    <2> QED
      BY <1>1, <2>1, <2>2, <2>3, <2>4 DEF FedInv
  <1>6. ASSUME NEW r \in Hits PROVE params[r].stops # {}
    BY DEF Hits, StopStarts
  <1>7. Drained' = Drained \cup (running \cap Hits)
    BY <1>1, TerminalJoins DEF Drained, IdsOf
  <1>8. \A r \in Drained' : params'[r].stops = {} => r \in decoders'
    BY <1>1, <1>6, <1>7, TextSets DEF TextInv
  <1>9. StopNeverStreamed' /\ StreamedText'
    BY <1>1, <1>2 DEF TextInv, StopNeverStreamed, StreamedText
  <1>10. \A r \in Ids \ Submitted' : output'[r] = <<>> /\ stream'[r] = <<>> /\ pushed'[r] = <<>>
    BY <1>1, <1>2, <1>3, TextSets DEF TextInv
  <1>11. \A r \in decoders' : FedInv(r)'
    BY <1>1, <1>5
  <1> QED
    BY <1>4, <1>8, <1>9, <1>10, <1>11 DEF TextInv

LEMMA DecodeGeneratedText ==
    ASSUME TruthInv, TextInv, DecodeGenerated
    PROVE  TextInv'
  <1>1. /\ pc = "decoding" /\ pc' = "collecting"
        /\ UNCHANGED <<params, waiting, output, results, generated, decoders>>
    BY DEF DecodeGenerated, resultVars
  <1>2. Submitted' = Submitted
    BY <1>1 DEF Submitted
  <1> DEFINE pushing == DOMAIN generated \cap decoders
  <1>3. ASSUME NEW r \in pushing
        PROVE  /\ r \in Ids /\ output[r] \in Seq(Tokens) /\ generated[r] \in Tokens
               /\ Fed(r) \in Seq(Tokens) /\ output[r] = Append(Fed(r), generated[r])
    <2>1. r \in Ids /\ FedInv(r) /\ output[r] \in Seq(Tokens) /\ generated[r] \in Tokens
      BY TextSets DEF TextInv, TextTypes
    <2>2. Pending(r) /\ Fed(r) = Front(output[r])
      BY <1>1 DEF Pending, Fed
    <2>3. output[r] # <<>> /\ Last(output[r]) = generated[r]
      BY <2>1, <2>2 DEF FedInv
    <2> QED
      BY <2>1, <2>2, <2>3, LastToken
  <1>4. \A r : ~Pending(r)' /\ Fed(r)' = output[r]
    BY <1>1 DEF Pending, Fed
  <1>5. \A r \in decoders \ pushing : ~Pending(r) /\ Fed(r) = output[r] /\ r \in Ids
    BY TextSets DEF Pending, Fed
  <1>6. \A r \in Ids \ decoders : r \notin pushing
    OBVIOUS
  <1>7. decoders \subseteq Submitted /\ decoders \cap DOMAIN results = {} /\ Submitted \subseteq Ids
    BY TextSets
  <1> SUFFICES /\ pushed' \in [Ids -> Seq(Tokens)] /\ stream' \in [Ids -> Seq(Chars)]
               /\ \A r \in Ids \ pushing : pushed'[r] = pushed[r] /\ stream'[r] = stream[r]
               /\ \A r \in pushing : StopStarts(stream'[r], params[r].stops) = {}
               /\ \A r \in decoders : FedInv(r)'
               /\ Drained' \subseteq Drained \cup running
    <2>1. TextTypes'
      BY <1>1 DEF TextInv, TextTypes
    <2>2. \A r \in Drained' : params'[r].stops = {} => r \in decoders'
      BY <1>1, TextSets DEF TextInv
    <2>3. StopNeverStreamed' /\ StreamedText'
      BY <1>1, <1>2, <1>7, TextSets DEF TextInv, StopNeverStreamed, StreamedText
    <2>4. \A r \in Ids \ Submitted' : output'[r] = <<>> /\ stream'[r] = <<>> /\ pushed'[r] = <<>>
      BY <1>1, <1>2, <1>7 DEF TextInv
    <2>5. \A r \in decoders' : FedInv(r)'
      BY <1>1
    <2> HIDE DEF pushing
    <2> QED
      BY <2>1, <2>2, <2>3, <2>4, <2>5 DEF TextInv
  <1>8. CASE PushBuffered
    <2>1. /\ pushed' = [r \in Ids |-> IF r \in pushing THEN Append(pushed[r], generated[r])
                                                      ELSE pushed[r]]
          /\ UNCHANGED <<running, finished, stream>> /\ Buffered
      BY <1>8 DEF PushBuffered
    <2>2. ASSUME NEW r \in pushing PROVE pushed'[r] = output[r] /\ stream[r] = <<>>
      <3>1. FedInv(r)
        BY DEF TextInv
      <3> QED
        BY <1>3, <2>1, <3>1 DEF FedInv
    <2>3. \A r \in Ids \ pushing : pushed'[r] = pushed[r]
      BY <2>1
    <2>4. pushed' \in [Ids -> Seq(Tokens)]
      <3>1. \A r \in Ids : pushed'[r] \in Seq(Tokens)
        BY <1>3, <2>2, <2>3 DEF TextInv, TextTypes
      <3> QED
        BY <2>1, <3>1
    <2>5. ASSUME NEW r \in decoders PROVE FedInv(r)'
      <3>1. FedInv(r)
        BY DEF TextInv
      <3>2. CASE r \in pushing
        BY <1>1, <1>4, <2>1, <2>2, <3>1, <3>2 DEF FedInv
      <3>3. CASE r \notin pushing
        <4>1. pushed'[r] = pushed[r] /\ Fed(r) = output[r]
          BY <1>5, <2>3, <3>3
        <4> QED
          BY <1>1, <1>4, <2>1, <3>1, <4>1 DEF FedInv
      <3> QED
        BY <3>2, <3>3
    <2>6. \A r \in pushing : StopStarts(stream'[r], params[r].stops) = {}
      BY <1>7, <2>1 DEF TextInv, StopNeverStreamed
    <2>7. Drained' = Drained
      BY <2>1 DEF Drained
    <2> HIDE DEF pushing
    <2> QED
      BY <2>1, <2>3, <2>4, <2>5, <2>6, <2>7 DEF TextInv, TextTypes
  <1>9. CASE PushDirect
    <2> DEFINE failing == {r \in pushing : generated[r] \in Undecodable}
    <2>1. /\ stream' = [r \in Ids |-> IF r \in pushing \ failing
                                      THEN stream[r] \o TextOf[generated[r]] ELSE stream[r]]
          /\ running' = running \ failing
          /\ finished' = finished \cup Terminal(running \cap failing, "undecodable")
          /\ pushed' = pushed /\ ~Buffered
      BY <1>9 DEF PushDirect
    <2>2. ASSUME NEW r \in pushing \ failing
          PROVE  /\ stream'[r] = Text(output[r]) /\ stream'[r] \in Seq(Chars)
                 /\ Decodable(output[r])
                 /\ StopStarts(stream'[r], params[r].stops) = {}
                 /\ FedInv(r)'
      <3>1. FedInv(r) /\ Pending(r)
        BY <1>1 DEF TextInv, Pending
      <3>2. Decodable(Fed(r)) /\ stream[r] = Text(Fed(r)) /\ Clean(output[r], params[r].stops)
        BY <1>1, <2>1, <3>1 DEF FedInv
      <3>3. r \in pushing /\ generated[r] \notin Undecodable
        OBVIOUS
      <3>4. Decodable(output[r]) /\ Text(output[r]) = stream[r] \o TextOf[generated[r]]
        <4> DEFINE fed == Fed(r)
                   token == generated[r]
        <4>1. fed \in Seq(Tokens) /\ token \in Tokens /\ output[r] = Append(fed, token)
          BY <1>3, <3>3
        <4>2. Decodable(fed) /\ stream[r] = Text(fed) /\ token \notin Undecodable
          BY <3>2, <3>3
        <4> HIDE DEF fed, token
        <4>3. Decodable(output[r]) /\ Text(output[r]) = stream[r] \o TextOf[token]
          BY <4>1, <4>2, DecodableAppend, TextAppend
        <4> QED
          BY <4>3 DEF token
      <3>5. stream'[r] = Text(output[r]) /\ stream'[r] \in Seq(Chars)
        BY <1>3, <2>1, <3>4, TextType
      <3>6. StopStarts(stream'[r], params[r].stops) = {}
        BY <3>2, <3>4, <3>5 DEF Clean
      <3> HIDE DEF pushing, failing
      <3>7. FedInv(r)'
        BY <1>1, <1>4, <2>1, <3>2, <3>4, <3>5 DEF FedInv
      <3> QED
        BY <3>4, <3>5, <3>6, <3>7
    <2>3. \A r \in Ids \ (pushing \ failing) : stream'[r] = stream[r]
      BY <2>1
    <2>4. ASSUME NEW r \in failing PROVE FedInv(r)'
      <3>1. FedInv(r) /\ r \in pushing /\ r \in Ids /\ generated[r] \in Undecodable
        BY <1>3 DEF TextInv
      <3>2. ~Decodable(output[r])
        BY <1>3, <3>1, DecodableAppend
      <3>3. r \notin waiting' \cup running'
        BY <1>1, <2>1, <3>1 DEF TruthInv, EngineInv, GeneratedOfStep
      <3> HIDE DEF pushing, failing
      <3> QED
        BY <1>1, <1>4, <2>1, <3>2, <3>3 DEF FedInv, Clean
    <2>5. ASSUME NEW r \in decoders \ pushing PROVE FedInv(r)'
      <3>1. FedInv(r) /\ Fed(r) = output[r] /\ r \in Ids
        BY <1>5 DEF TextInv
      <3>2. stream'[r] = stream[r] /\ running' \subseteq running
        BY <2>1, <2>3, <3>1
      <3> HIDE DEF pushing, failing
      <3> QED
        BY <1>1, <1>4, <2>1, <3>1, <3>2 DEF FedInv
    <2>6. \A r \in decoders : FedInv(r)'
      BY <2>2, <2>4, <2>5
    <2>7. \A r \in pushing : StopStarts(stream'[r], params[r].stops) = {}
      <3>1. \A r \in failing : r \in Submitted /\ stream'[r] = stream[r]
        BY <1>7, <2>3
      <3> QED
        BY <2>2, <3>1 DEF TextInv, StopNeverStreamed
    <2>8. stream' \in [Ids -> Seq(Chars)]
      <3>1. \A r \in Ids : stream'[r] \in Seq(Chars)
        BY <2>2, <2>3 DEF TextInv, TextTypes
      <3> QED
        BY <2>1, <3>1
    <2> HIDE DEF failing
    <2>9. Drained' = Drained \cup (running \cap failing)
      BY <2>1, TerminalJoins DEF Drained, IdsOf
    <2> HIDE DEF pushing
    <2> QED
      BY <2>1, <2>3, <2>6, <2>7, <2>8, <2>9 DEF TextInv, TextTypes
  <1> QED
    BY <1>8, <1>9 DEF DecodeGenerated

\* The drain streams what a buffering decoder holds: all of the output.
LEMMA CollectCompletedText ==
    ASSUME TruthInv, TextInv, CollectCompleted,
           \A r : ~Pending(r) /\ ~Pending(r)', pc' # "decoding",
           generated' = generated \/ DOMAIN generated' = {}
    PROVE  TextInv'
  <1> DEFINE flushed == {r \in Drained \cap decoders : results'[r].success /\ Buffered}
  <1>1. /\ results' = [r \in DOMAIN results \cup Drained |->
                          IF r \in Drained THEN Result(CHOOSE c \in finished : c.id = r)
                                           ELSE results[r]]
        /\ stream' = [r \in Ids |-> IF r \in flushed THEN stream[r] \o Text(pushed[r])
                                                     ELSE stream[r]]
        /\ decoders' = decoders \ Drained /\ finished' = {}
        /\ UNCHANGED <<params, waiting, running, output, pushed>>
    BY DEF CollectCompleted
  <1>2. Submitted' = Submitted /\ Drained' = {}
    BY <1>1 DEF Submitted, Drained
  <1>3. \A r : Fed(r) = output[r] /\ Fed(r)' = output[r]
    BY <1>1 DEF Fed
  <1>4. ASSUME NEW r \in Drained
        PROVE  /\ results'[r].success => Decodable(output[r])
               /\ results'[r].success => results'[r].text = Text(output[r])
    <2>1. PICK c \in finished : c.id = r /\ results'[r] = Result(c)
      <3>1. \E c \in finished : c.id = r
        BY DEF Drained
      <3> QED
        BY <1>1, <3>1
    <2>2. /\ Result(c).success => Decodable(output[c.id])
          /\ Decodable(output[c.id]) => Result(c).text = Text(output[c.id])
      BY Zenon DEF Result
    <2> QED
      BY Zenon, <2>1, <2>2
  <1>5. ASSUME NEW r \in decoders
        PROVE  /\ r \in Ids /\ output[r] \in Seq(Tokens)
               /\ Clean(output[r], params[r].stops)
               /\ Buffered => stream[r] = <<>> /\ pushed[r] = output[r]
               /\ ~Buffered /\ Decodable(output[r]) => stream[r] = Text(output[r])
    <2>1. FedInv(r) /\ r \in Ids
      BY TextSets DEF TextInv
    <2> QED
      BY <1>3, <2>1 DEF FedInv, TextInv, TextTypes
  <1>6. ASSUME NEW r \in flushed
        PROVE  /\ r \in Ids /\ stream'[r] = Text(output[r]) /\ stream'[r] \in Seq(Chars)
               /\ StopStarts(stream'[r], params[r].stops) = {}
    <2>1. r \in Drained /\ r \in decoders /\ Decodable(output[r]) /\ Buffered
      BY <1>4
    <2>2. Text(output[r]) \in Seq(Chars) /\ stream[r] = <<>> /\ pushed[r] = output[r]
      BY <1>5, <2>1, TextType
    <2>3. stream'[r] = <<>> \o Text(output[r])
      BY <1>1, <1>5, <2>1, <2>2
    <2>4. stream'[r] = Text(output[r])
      BY <2>2, <2>3
    <2> QED
      BY <1>5, <2>1, <2>2, <2>4 DEF Clean
  <1>7. \A r \in Ids \ flushed : stream'[r] = stream[r]
    BY <1>1
  <1>8. flushed \subseteq Drained
    OBVIOUS
  <1>9. ASSUME NEW r \in DOMAIN results', results'[r].success, params[r].stops = {}
        PROVE  stream'[r] = results'[r].text
    <2>1. CASE r \in Drained
      <3>1. r \in decoders /\ results'[r].text = Text(output[r]) /\ Decodable(output[r])
        BY <1>4, <1>9, <2>1 DEF TextInv
      <3>2. CASE Buffered
        BY <1>6, <1>9, <2>1, <3>1, <3>2
      <3>3. CASE ~Buffered
        BY <1>5, <1>7, <3>1, <3>3
      <3> QED
        BY <3>2, <3>3
    <2>2. CASE r \notin Drained
      <3>1. r \in DOMAIN results /\ results'[r] = results[r] /\ r \in Ids
        BY <1>1, <2>2, TextSets
      <3> QED
        BY <1>7, <1>8, <1>9, <2>2, <3>1 DEF TextInv, StreamedText
    <2> QED
      BY <2>1, <2>2
  <1> HIDE DEF flushed
  <1>10. stream' \in [Ids -> Seq(Chars)]
    <2>1. \A r \in Ids : stream'[r] \in Seq(Chars)
      BY <1>6, <1>7 DEF TextInv, TextTypes
    <2> QED
      BY <1>1, <2>1
  <1>11. TextTypes'
    BY <1>1, <1>10 DEF TextInv, TextTypes
  <1>12. StopNeverStreamed'
    <2>1. ASSUME NEW r \in Submitted PROVE StopStarts(stream'[r], params[r].stops) = {}
      BY <1>6, <1>7, TextSets DEF TextInv, StopNeverStreamed
    <2> QED
      BY <1>1, <1>2, <2>1 DEF StopNeverStreamed
  <1>13. StreamedText'
    BY <1>1, <1>9 DEF StreamedText
  <1>14. ASSUME NEW r \in decoders \ Drained PROVE FedInv(r)'
    <2>1. FedInv(r) /\ r \in Ids
      BY TextSets DEF TextInv
    <2>2. stream'[r] = stream[r]
      BY <1>7, <1>8, <2>1
    <2> QED
      BY <1>1, <1>3, <2>1, <2>2 DEF FedInv
  <1>15. \A r \in Ids \ Submitted' : output'[r] = <<>> /\ stream'[r] = <<>> /\ pushed'[r] = <<>>
    BY <1>1, <1>2, <1>7, <1>8, TextSets DEF TextInv
  <1>16. \A r \in decoders' : FedInv(r)'
    BY <1>1, <1>14
  <1> QED
    BY <1>2, <1>11, <1>12, <1>13, <1>15, <1>16 DEF TextInv

LEMMA NextText ==
    ASSUME TruthInv, TextInv, [Next]_vars
    PROVE  TextInv'
  <1>1. CASE \E p \in Params : Submit(p)
    BY <1>1, SubmitText
  <1>2. CASE \E r \in Ids : Cancel(r)
    <2>1. PICK r \in Ids : Cancel(r)
      BY <1>2
    <2>2. /\ r \in waiting \cup running /\ pc = "idle" /\ pc' = "idle"
          /\ waiting' = waiting \ {r} /\ running' = running \ {r}
          /\ finished' = finished \cup Terminal({r}, "cancelled")
          /\ UNCHANGED <<params, output, stream, pushed, results, generated, decoders>>
      BY <2>1 DEF Cancel, decoderVars, resultVars
    <2>3. Drained' = Drained \cup {r}
      BY <2>2, TerminalJoins DEF Drained, IdsOf
    <2> QED
      BY <2>2, <2>3, TextKept
  <1>3. CASE AnySchedule
    <2>1. PICK starting \in SUBSET waiting, lost \in SUBSET running :
              \E rejected \in SUBSET (waiting \ starting) : Schedule(starting, rejected, lost)
      BY <1>3 DEF AnySchedule
    <2>2. PICK rejected \in SUBSET (waiting \ starting) : Schedule(starting, rejected, lost)
      BY <2>1
    <2>3. /\ finished' = (finished \cup Terminal(rejected, "rejected"))
                             \cup Terminal(lost, "outOfBlocks")
          /\ waiting' = waiting \ (starting \cup rejected)
          /\ running' = (running \ lost) \cup starting
          /\ pc \in {"idle", "loop"} /\ pc' \in {"executing", "stopping"}
          /\ UNCHANGED <<params, output, stream, pushed, results, generated, decoders>>
      BY <2>2 DEF Schedule, decoderVars, resultVars
    <2>4. Drained' = (Drained \cup rejected) \cup lost
      BY <2>3, TerminalJoins DEF Drained, IdsOf
    <2>5. DOMAIN generated = {}
      BY <2>3 DEF TruthInv, EngineInv, GeneratedOfStep
    <2>6. waiting' \cup running' \subseteq waiting \cup running
      BY <2>3
    <2> QED
      BY <2>3, <2>4, <2>5, <2>6, TextKept
  <1>4. CASE \E tokens \in [running -> Tokens] : Execute(tokens)
    BY <1>4, ExecuteText
  <1>5. CASE ExecutionError
    <2>1. /\ finished' = finished \cup Terminal(running, "execution")
          /\ running' = {} /\ pc = "executing" /\ pc' = "collecting"
          /\ UNCHANGED <<params, waiting, output, stream, pushed, results, generated, decoders>>
      BY <1>5 DEF ExecutionError, decoderVars, resultVars
    <2>2. Drained' = Drained \cup running
      BY <2>1, TerminalJoins DEF Drained, IdsOf
    <2> QED
      BY <2>1, <2>2, TextKept
  <1>6. CASE ApplyStopSequences
    BY <1>6, ApplyStopSequencesText
  <1>7. CASE DecodeGenerated
    BY <1>7, DecodeGeneratedText
  <1>8. CASE EndStep \/ StartRun \/ Return
    <2>1. /\ CollectCompleted /\ pc \notin {"stopping", "decoding"} /\ pc' \in {"loop", "idle"}
          /\ generated' = generated \/ DOMAIN generated' = {}
      BY <1>8 DEF EndStep, StartRun, Return
    <2>2. \A r : ~Pending(r) /\ ~Pending(r)'
      BY <2>1 DEF Pending
    <2> QED
      BY <2>1, <2>2, CollectCompletedText
  <1>9. CASE Stall \/ FailPendingRequests
    <2>1. /\ finished' = finished \cup Terminal(waiting, "stalled")
          /\ waiting' = {} /\ running' = running
          /\ pc \in {"loop", "idle"} /\ pc' \in {"leaving", "idle"}
          /\ UNCHANGED <<params, output, stream, pushed, results, generated, decoders>>
      BY <1>9 DEF Stall, FailPendingRequests, decoderVars, resultVars
    <2>2. Drained' = Drained \cup waiting
      BY <2>1, TerminalJoins DEF Drained, IdsOf
    <2> QED
      BY <2>1, <2>2, TextKept
  <1>10. CASE LeaveLoop
    <2>1. /\ pc = "loop" /\ pc' = "leaving"
          /\ UNCHANGED <<params, waiting, running, finished, output, stream, pushed, results,
                         generated, decoders>>
      BY <1>10 DEF LeaveLoop, requestVars, decoderVars, resultVars
    <2> QED
      BY <2>1, TextKept DEF Drained
  <1>11. CASE UNCHANGED vars
    <2>1. UNCHANGED <<params, waiting, running, finished, output, stream, pushed, results,
                      generated, decoders, pc>>
      BY <1>11 DEF vars, requestVars, decoderVars, resultVars
    <2>2. \A r : (Pending(r)' <=> Pending(r)) /\ Fed(r)' = Fed(r)
      BY <2>1 DEF Pending, Fed
    <2>3. ASSUME NEW r \in decoders PROVE FedInv(r)'
      <3>1. FedInv(r)
        BY DEF TextInv
      <3> QED
        BY <2>1, <2>2, <3>1 DEF FedInv
    <2>4. TextTypes' /\ StopNeverStreamed' /\ StreamedText' /\ Drained' = Drained
          /\ Submitted' = Submitted
      BY <2>1 DEF TextInv, TextTypes, StopNeverStreamed, StreamedText, Drained, Submitted
    <2> QED
      BY <2>1, <2>3, <2>4 DEF TextInv
  <1> QED
    BY <1>1, <1>2, <1>3, <1>4, <1>5, <1>6, <1>7, <1>8, <1>9, <1>10, <1>11
       DEF Next, Continue, Call

LEMMA SpecText == Spec => [](TruthInv /\ TextInv)
  <1>1. TruthInv /\ TextInv /\ [Next]_vars => (TruthInv /\ TextInv)'
    BY NextTruth, NextText
  <1> QED
    BY InitTruth, InitText, <1>1, PTL DEF Spec

\* Without stop sequences the chunks of a request that succeeds add up to the
\* text of its result, whether its decoder buffers or not, also when the update
\* ended the request before the decoder had its last token
\* (InferenceEngine::collect_completed_requests).
THEOREM ChunksAddUp == Spec => []StreamedText
  <1>1. TruthInv /\ TextInv => StreamedText
    BY DEF TextInv
  <1> QED
    BY <1>1, SpecText, PTL

\* No chunk, nor any number of them together, shows a stop sequence: what
\* completes one is found before the decoder is given it
\* (InferenceEngine::apply_stop_sequences).
THEOREM ChunksShowNoStop == Spec => []StopNeverStreamed
  <1>1. TruthInv /\ TextInv => StopNeverStreamed
    BY DEF TextInv
  <1> QED
    BY <1>1, SpecText, PTL

-----------------------------------------------------------------------------
(* The cut at a stop sequence                                              *)

\* No token has more than one character, as in SimpleTokenizer.
CharacterTokens == \A t \in Tokens : Len(TextOf[t]) <= 1

CutInv ==
    \A c \in finished :
        c.outcome = "stopped" => StopStarts(Text(output[c.id]), params[c.id].stops) = {}

\* A cut takes the last token, which completed the stop sequence.
LEMMA CutTakesLast ==
    ASSUME CharacterTokens, NEW p \in Params, NEW tokens \in Seq(Tokens), NEW t \in Tokens,
           NEW start \in StopStarts(Text(Append(tokens, t)), p.stops)
    PROVE  TokensBeforeChar(Append(tokens, t), start) \in 0 .. Len(tokens)
  <1> DEFINE all == Append(tokens, t)
             T == {i \in 0 .. Len(all) : Len(Text(SubSeq(all, 1, i))) >= start} \cup {Len(all)}
  <1>1. /\ all \in Seq(Tokens) /\ Len(all) = Len(tokens) + 1 /\ Len(tokens) \in Nat
        /\ Text(all) = Text(tokens) \o TextOf[t]
        /\ Text(tokens) \in Seq(Chars) /\ TextOf[t] \in Seq(Chars) /\ Len(TextOf[t]) <= 1
    BY TextAppend, TextType, TokenText DEF CharacterTokens
  <1>2. PICK s \in p.stops \ {<<>>} : start \in Nat /\ start + Len(s) <= Len(Text(all))
    BY DEF StopStarts
  <1>3. s \in Seq(Range(s)) /\ Len(s) \in Nat /\ Len(s) > 0
    BY EngineAssumption, <1>2
  <1>4. start <= Len(Text(tokens))
    BY <1>1, <1>2, <1>3
  <1>5. SubSeq(all, 1, Len(tokens)) = tokens
    <2>1. all = tokens \o <<t>> /\ <<t>> \in Seq(Tokens)
      BY AppendIsConcat
    <2>2. SubSeq(tokens \o <<t>>, 1, Len(tokens)) = SubSeq(tokens, 1, Len(tokens))
      BY <1>1, <2>1, BeginningOfConcat
    <2> QED
      BY <2>1, <2>2
  <1>6. Len(tokens) \in T
    <2>1. Len(tokens) \in 0 .. Len(all)
      BY <1>1
    <2>2. Len(Text(SubSeq(all, 1, Len(tokens)))) >= start
      BY <1>1, <1>2, <1>4, <1>5
    <2> HIDE DEF all
    <2> QED
      BY <2>1, <2>2
  <1>7. T \subseteq Nat
    BY <1>1
  <1>8. TokensBeforeChar(all, start) = Min(T)
    BY DEF TokensBeforeChar
  <1> HIDE DEF T, all
  <1>9. Min(T) \in T /\ Min(T) <= Len(tokens)
    BY <1>6, <1>7, LeastOf
  <1>10. Min(T) \in 0 .. Len(tokens)
    <2>1. Min(T) \in Nat
      BY Zenon, <1>7, <1>9
    <2>2. Len(tokens) \in Nat
      OBVIOUS
    <2> QED
      BY <1>9, <2>1, <2>2
  <1> QED
    BY <1>8, <1>10 DEF all

LEMMA CutIsClean ==
    ASSUME CharacterTokens, NEW p \in Params, NEW tokens \in Seq(Tokens), NEW t \in Tokens,
           StopStarts(Text(tokens), p.stops) = {},
           StopStarts(Text(Append(tokens, t)), p.stops) # {},
           NEW n, n = TokensBeforeChar(Append(tokens, t),
                          FindStopSequence(Text(Append(tokens, t)), p.stops))
    PROVE  StopStarts(Text(SubSeq(Append(tokens, t), 1, n)), p.stops) = {}
  <1> DEFINE starts == StopStarts(Text(Append(tokens, t)), p.stops)
  <1>1. starts \subseteq Nat
    BY DEF StopStarts
  <1>2. Min(starts) \in starts
    BY <1>1, LeastOf
  <1>3. n \in 0 .. Len(tokens)
    BY <1>2, CutTakesLast DEF FindStopSequence
  <1>4. SubSeq(Append(tokens, t), 1, n) = SubSeq(tokens, 1, n)
    <2>1. Append(tokens, t) = tokens \o <<t>> /\ <<t>> \in Seq(Tokens)
      BY AppendIsConcat
    <2> QED
      BY <1>3, <2>1, BeginningOfConcat
  <1>5. SubSeq(tokens, 1, n) \in Seq(Tokens)
    BY <1>3
  <1>6. PICK rest \in Seq(Chars) : Text(tokens) = Text(SubSeq(tokens, 1, n)) \o rest
    BY <1>3, TextBegins
  <1>7. Text(SubSeq(tokens, 1, n)) \in Seq(Chars)
    BY <1>5, TextType
  <1>8. StopStarts(Text(SubSeq(tokens, 1, n)), p.stops) = {}
    BY <1>6, <1>7, BeginningIsClean
  <1> QED
    BY <1>4, <1>8

LEMMA ApplyStopSequencesCut ==
    ASSUME CharacterTokens, TruthInv, TextInv, ApplyStopSequences,
           NEW r \in running \cap Hits
    PROVE  StopStarts(Text(output'[r]), params[r].stops) = {}
  <1>1. /\ pc = "stopping" /\ r \in DOMAIN generated /\ r \in decoders /\ r \in Ids
        /\ params[r] \in Params
    BY TextSets DEF ApplyStopSequences, Hits
  <1>2. FedInv(r) /\ output[r] \in Seq(Tokens) /\ generated[r] \in Tokens
    BY <1>1 DEF TextInv, TextTypes
  <1>3. Pending(r) /\ Fed(r) = Front(output[r])
    BY <1>1 DEF Pending, Fed
  <1> DEFINE fed == Fed(r)
             token == generated[r]
  <1>4. fed \in Seq(Tokens) /\ token \in Tokens /\ output[r] = Append(fed, token)
    BY <1>2, <1>3, LastToken DEF FedInv
  <1>5. Decodable(output[r]) /\ StopStarts(Text(output[r]), params[r].stops) # {}
    BY DEF Hits
  <1>6. Clean(fed, params[r].stops)
    BY <1>2 DEF FedInv
  <1>7. output'[r] = SubSeq(output[r], 1,
                        TokensBeforeChar(output[r],
                            FindStopSequence(Text(output[r]), params[r].stops)))
    BY <1>1 DEF ApplyStopSequences, CutOutput
  <1> HIDE DEF fed, token
  <1>8. StopStarts(Text(fed), params[r].stops) = {}
    BY <1>4, <1>5, <1>6, DecodableAppend DEF Clean
  <1> QED
    BY <1>1, <1>4, <1>5, <1>7, <1>8, CutIsClean

\* The drain shows the text of what was cut, or nothing.
LEMMA CollectCompletedCut ==
    ASSUME TruthInv, CutInv, StopCutClean, CollectCompleted
    PROVE  StopCutClean' /\ CutInv'
  <1>1. /\ results' = [r \in DOMAIN results \cup Drained |->
                          IF r \in Drained THEN Result(CHOOSE c \in finished : c.id = r)
                                           ELSE results[r]]
        /\ finished' = {} /\ UNCHANGED <<params, output>>
    BY DEF CollectCompleted
  <1>2. ASSUME NEW r \in DOMAIN results', results'[r].outcome = "stopped"
        PROVE  StopStarts(results'[r].text, params'[r].stops) = {}
    <2>1. CASE r \in Drained
      <3>1. PICK c \in finished : c.id = r /\ results'[r] = Result(c)
        <4>1. \E c \in finished : c.id = r
          BY <2>1 DEF Drained
        <4> QED
          BY <1>1, <2>1, <4>1
      <3>2. /\ Result(c).outcome = c.outcome
            /\ Result(c).text = IF Decodable(output[c.id]) THEN Text(output[c.id]) ELSE <<>>
        BY DEF Result
      <3>3. params[r] \in Params
        BY <2>1, TextSets
      <3> QED
        BY <1>1, <1>2, <3>1, <3>2, <3>3, NothingIsClean DEF CutInv
    <2>2. CASE r \notin Drained
      BY <1>1, <1>2, <2>2 DEF StopCutClean
    <2> QED
      BY <2>1, <2>2
  <1>3. StopCutClean'
    BY <1>2 DEF StopCutClean
  <1> QED
    BY <1>1, <1>3 DEF CutInv

\* A request that ends otherwise is not cut, and no output of one that has
\* ended changes.
LEMMA EndingKeepsCut ==
    ASSUME CutInv, StopCutClean,
           \A c \in finished' : c.outcome = "stopped" => c \in finished,
           \A r \in Drained : output'[r] = output[r] /\ params'[r] = params[r],
           \A r \in DOMAIN results : params'[r] = params[r],
           UNCHANGED results
    PROVE  StopCutClean' /\ CutInv'
  <1>1. \A c \in finished : c.id \in Drained
    BY DEF Drained
  <1>2. CutInv'
    BY <1>1 DEF CutInv
  <1> QED
    BY <1>2 DEF StopCutClean

LEMMA NextCut ==
    ASSUME CharacterTokens, TruthInv, TextInv, CutInv, StopCutClean, [Next]_vars
    PROVE  CutInv' /\ StopCutClean'
  <1>1. CASE \E p \in Params : Submit(p)
    <2>1. PICK p \in Params : Submit(p)
      BY <1>1
    <2>2. params' = Append(params, p) /\ UNCHANGED <<finished, output, results>>
      BY <2>1 DEF Submit, resultVars
    <2>3. \A r \in Submitted : params'[r] = params[r]
      BY <2>2 DEF TruthInv, EngineInv, Submitted
    <2> QED
      BY <2>2, <2>3, TextSets, EndingKeepsCut
  <1>2. CASE \/ \E r \in Ids : Cancel(r)
             \/ ExecutionError \/ Stall \/ FailPendingRequests \/ AnySchedule
             \/ LeaveLoop \/ DecodeGenerated \/ UNCHANGED vars
    <2>1. UNCHANGED <<params, output, results>>
      BY <1>2 DEF Cancel, ExecutionError, Stall, FailPendingRequests, AnySchedule, Schedule,
                  LeaveLoop, DecodeGenerated, vars, requestVars, resultVars
    <2>2. \A c \in finished' : c.outcome = "stopped" => c \in finished
      <3>1. CASE \E r \in Ids : Cancel(r)
        BY <3>1 DEF Cancel, Terminal
      <3>2. CASE ExecutionError
        BY <3>2 DEF ExecutionError, Terminal
      <3>3. CASE Stall \/ FailPendingRequests
        BY <3>3 DEF Stall, FailPendingRequests, Terminal
      <3>4. CASE AnySchedule
        BY <3>4 DEF AnySchedule, Schedule, Terminal
      <3>5. CASE LeaveLoop \/ UNCHANGED vars
        BY <3>5 DEF LeaveLoop, vars, requestVars
      <3>6. CASE DecodeGenerated
        <4>1. CASE PushBuffered
          BY <4>1 DEF PushBuffered
        <4>2. CASE PushDirect
          BY <4>2 DEF PushDirect, Terminal
        <4> QED
          BY <3>6, <4>1, <4>2 DEF DecodeGenerated
      <3> QED
        BY <1>2, <3>1, <3>2, <3>3, <3>4, <3>5, <3>6
    <2> QED
      BY <2>1, <2>2, EndingKeepsCut
  <1>3. CASE \E tokens \in [running -> Tokens] : Execute(tokens)
    <2>1. PICK tokens \in [running -> Tokens] : Execute(tokens)
      BY <1>3
    <2>2. /\ output' = [r \in Ids |-> IF r \in running THEN Append(output[r], tokens[r])
                                                      ELSE output[r]]
          /\ UNCHANGED <<params, results>>
      BY <2>1 DEF Execute, resultVars
    <2>3. \A c \in finished' : c.outcome = "stopped" => c \in finished
      <3> DEFINE complete == {r \in running : IsComplete(output'[r], params[r])}
      <3>1. finished' = finished \cup Terminal(complete, "completed")
        BY <2>1 DEF Execute
      <3> HIDE DEF complete
      <3> QED
        BY <3>1 DEF Terminal
    <2> QED
      BY <2>2, <2>3, TextSets, EndingKeepsCut
  <1>4. CASE ApplyStopSequences
    <2>1. /\ finished' = finished \cup Terminal(running \cap Hits, "stopped")
          /\ output' = CutOutput /\ UNCHANGED <<params, results>>
      BY <1>4 DEF ApplyStopSequences, resultVars
    <2>2. \A r \in running \cap Hits : StopStarts(Text(output'[r]), params'[r].stops) = {}
      BY <1>4, <2>1, ApplyStopSequencesCut
    <2>3. \A c \in finished : output'[c.id] = output[c.id]
      <3>1. \A c \in finished : c.id \in Drained
        BY DEF Drained
      <3> QED
        BY <2>1, <3>1, TextSets DEF CutOutput
    <2>4. CutInv'
      <3> SUFFICES ASSUME NEW c \in finished', c.outcome = "stopped"
                   PROVE  StopStarts(Text(output'[c.id]), params'[c.id].stops) = {}
        BY DEF CutInv
      <3>1. CASE c \in finished
        BY <2>1, <2>3, <3>1 DEF CutInv
      <3>2. CASE c \in Terminal(running \cap Hits, "stopped")
        <4>1. c.id \in running \cap Hits
          BY <3>2 DEF Terminal
        <4> QED
          BY <2>2, <4>1
      <3> QED
        BY <2>1, <3>1, <3>2
    <2> QED
      BY <2>1, <2>4 DEF StopCutClean
  <1>5. CASE EndStep \/ StartRun \/ Return
    BY <1>5, CollectCompletedCut DEF EndStep, StartRun, Return
  <1> QED
    BY <1>1, <1>2, <1>3, <1>4, <1>5 DEF Next, Continue, Call

\* With one character a token, the text of a request that was cut at a stop
\* sequence does not show it: the cut falls before the token that completed it,
\* and the text until there was searched a step earlier
\* (InferenceEngine::tokens_before_char).
THEOREM CutTextIsClean ==
    ASSUME CharacterTokens
    PROVE  Spec => []StopCutClean
  <1> DEFINE Inv == TruthInv /\ TextInv /\ CutInv /\ StopCutClean
  <1>1. Init => Inv
    <2>1. Init => CutInv /\ StopCutClean
      BY DEF Init, CutInv, StopCutClean
    <2> QED
      BY <2>1, InitTruth, InitText
  <1>2. Inv /\ [Next]_vars => Inv'
    BY NextTruth, NextText, NextCut
  <1> QED
    BY <1>1, <1>2, PTL DEF Spec
=============================================================================
