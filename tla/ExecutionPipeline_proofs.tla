----------------------- MODULE ExecutionPipeline_proofs -----------------------
(***************************************************************************)
(* Proofs about the pipeline, for any number of sequences and attempts:    *)
(* what the calls of one batch add up to, that no answer a backend may     *)
(* give takes a batch apart, that a batch continues the context of each of *)
(* its sequences, and that no position is written twice.  The first two    *)
(* need the list of ids of a batch, the others its data, as segments       *)
(* (Segmented).                                                            *)
(***************************************************************************)
EXTENDS ExecutionPipeline, SequenceFacts, FiniteSetTheorems

\* The calls of a batch are its retries and the latest one; a timeout is only
\* reported when none is left.
AttemptsInv ==
    /\ retrySafe \in BOOLEAN
    /\ retries \in 0 .. MaxRetryAttempts /\ calls \in Nat
    /\ ~retrySafe => retries = 0
    /\ pc \in {"idle", "building", "calling"}
    /\ pc = "building" => retries = 0 /\ calls = 0
    /\ pc = "calling" => calls = retries
    /\ pc = "idle" => calls \in 0 .. retries + 1
    /\ pc # "idle" => failure # "timeout"
    /\ failure = "timeout" => ~MayRetry /\ calls = retries + 1

\* A batch lists sequences of the engine.
OutputInv ==
    /\ generated \in [SeqIds -> Nat]
    /\ phase \in [SeqIds -> {"prefill", "decode", "ended"}]
    /\ output.prefill \in Seq(SeqIds) /\ output.decode \in Seq(SeqIds)

PipelineInv == AttemptsInv /\ OutputInv

-----------------------------------------------------------------------------
(* Facts                                                                   *)

LEMMA OrdersAreSequences == Orders \subseteq Seq(SeqIds)
  BY DEF Orders, BoundedSeq, SeqOf

\* The ids of a batch are those of the scheduler's output.
LEMMA BatchIds ==
    ASSUME OutputInv
    PROVE  /\ Scheduled \subseteq SeqIds
           /\ Build(output).seqIds = output.prefill \o output.decode
           /\ Range(Build(output).seqIds) = Scheduled
  <1> DEFINE p == output.prefill
             d == output.decode
  <1>1. p \in Seq(SeqIds) /\ d \in Seq(SeqIds)
    BY DEF OutputInv
  <1>2. Build(output).seqIds = p \o d
    BY DEF Build
  <1>3. Scheduled = Range(p) \cup Range(d)
    BY DEF Scheduled
  <1> HIDE DEF p, d
  <1>4. Range(p) \subseteq SeqIds /\ Range(d) \subseteq SeqIds
    BY <1>1 DEF Range
  <1>5. Range(p \o d) = Range(p) \cup Range(d)
    <2>1. ASSUME NEW x \in Range(p) PROVE x \in Range(p \o d)
      <3>1. PICK i \in 1 .. Len(p) : p[i] = x
        BY <1>1 DEF Range
      <3>2. i \in 1 .. Len(p \o d) /\ (p \o d)[i] = x
        BY <1>1, <3>1
      <3> QED
        BY <1>1, <3>2 DEF Range
    <2>2. ASSUME NEW x \in Range(d) PROVE x \in Range(p \o d)
      <3>1. PICK i \in 1 .. Len(d) : d[i] = x
        BY <1>1 DEF Range
      <3>2. Len(p) + i \in 1 .. Len(p \o d) /\ (p \o d)[Len(p) + i] = x
        BY <1>1, <3>1
      <3> QED
        BY <1>1, <3>2 DEF Range
    <2>3. ASSUME NEW x \in Range(p \o d) PROVE x \in Range(p) \cup Range(d)
      <3>1. PICK i \in 1 .. Len(p \o d) : (p \o d)[i] = x
        BY <1>1 DEF Range
      <3>2. CASE i <= Len(p)
        BY <1>1, <3>1, <3>2 DEF Range
      <3>3. CASE i > Len(p)
        <4>1. i - Len(p) \in 1 .. Len(d) /\ d[i - Len(p)] = x
          BY <1>1, <3>1, <3>3
        <4> QED
          BY <1>1, <4>1 DEF Range
      <3> QED
        BY <1>1, <3>1, <3>2, <3>3
    <2> QED
      BY <2>1, <2>2, <2>3
  <1> QED
    BY <1>2, <1>3, <1>4, <1>5 DEF p, d

\* What an answer has to be to be let through is that it names the batch, and
\* then every sequence of the batch has its token.
LEMMA AcceptedNamesBatch ==
    ASSUME OutputInv, NEW answer \in Answers, Accepts(Build(output), answer)
    PROVE  Range(SubSeq(answer.ids, 1, answer.tokens)) \cap SeqIds = Scheduled
  <1>1. answer.ids \in Seq(SeqIds \cup {Stranger})
    BY DEF Answers, BoundedSeq, SeqOf
  <1>2. answer.tokens = Len(answer.ids) /\ Range(answer.ids) = Range(Build(output).seqIds)
    BY DEF Accepts
  <1>3. SubSeq(answer.ids, 1, Len(answer.ids)) = answer.ids
    BY <1>1
  <1> QED
    BY <1>2, <1>3, BatchIds

-----------------------------------------------------------------------------
(* The actions                                                             *)

LEMMA InitPipeline == Init => PipelineInv
  <1> SUFFICES ASSUME Init PROVE PipelineInv
    OBVIOUS
  <1>1. AttemptsInv
    BY PipelineAssumption DEF Init, AttemptsInv
  <1>2. OutputInv
    BY DEF Init, OutputInv
  <1> QED
    BY <1>1, <1>2 DEF PipelineInv

\* The counters, action by action.
LEMMA AttemptsKept ==
    ASSUME AttemptsInv, [Next]_vars
    PROVE  AttemptsInv'
  <1> USE PipelineAssumption DEF AttemptsInv, MayRetry
  <1>1. ASSUME NEW prefills, NEW decodes, Schedule(prefills, decodes) PROVE AttemptsInv'
    BY <1>1 DEF Schedule
  <1>2. CASE Prepare \/ RejectShape
    BY <1>2 DEF Prepare, RejectShape, Fail
  <1>3. ASSUME NEW answer, Succeed(answer) \/ RejectAnswer(answer) PROVE AttemptsInv'
    BY <1>3 DEF Succeed, RejectAnswer, Fail, Call
  <1>4. CASE Retry
    BY <1>4 DEF Retry, Call
  <1>5. CASE TimeOut
    BY <1>5 DEF TimeOut, Fail, Call
  <1>6. CASE BackendError
    BY <1>6 DEF BackendError, Fail, Call
  <1>7. CASE UNCHANGED vars
    BY <1>7 DEF vars
  <1> QED
    BY <1>1, <1>2, <1>3, <1>4, <1>5, <1>6, <1>7 DEF Next, Execute

LEMMA OutputKept ==
    ASSUME OutputInv, [Next]_vars
    PROVE  OutputInv'
  <1>1. ASSUME NEW prefills \in Orders, NEW decodes \in Orders, Schedule(prefills, decodes)
        PROVE  OutputInv'
    BY <1>1, OrdersAreSequences DEF Schedule, OutputInv
  <1>2. CASE Prepare \/ Retry
    BY <1>2 DEF Prepare, Retry, OutputInv
  <1>3. ASSUME NEW error, Fail(error) PROVE OutputInv'
    BY <1>3 DEF Fail, OutputInv
  <1>4. CASE RejectShape \/ TimeOut \/ BackendError \/ \E answer \in Answers : RejectAnswer(answer)
    BY <1>3, <1>4 DEF RejectShape, TimeOut, BackendError, RejectAnswer
  <1>5. ASSUME NEW answer, Succeed(answer) PROVE OutputInv'
    BY <1>5 DEF Succeed, OutputInv
  <1>6. CASE UNCHANGED vars
    BY <1>6 DEF vars, OutputInv
  <1> QED
    BY <1>1, <1>2, <1>4, <1>5, <1>6 DEF Next, Execute

LEMMA SpecPipeline == Spec => []PipelineInv
  <1>1. PipelineInv /\ [Next]_vars => PipelineInv'
    BY AttemptsKept, OutputKept DEF PipelineInv
  <1> QED
    BY <1>1, InitPipeline, PTL DEF Spec

-----------------------------------------------------------------------------
(* The theorems                                                            *)

\* A backend that is not safe to retry is called once a batch, another one at
\* most max_retry_attempts + 1 times, and a timeout is final only when all of
\* these were used, however the batches before it went.
THEOREM AttemptsAreUsedUp == Spec => []AttemptsUsedUp
  <1>1. PipelineInv => AttemptsUsedUp
    BY PipelineAssumption DEF PipelineInv, AttemptsInv, AttemptsUsedUp, MayRetry
  <1> QED
    BY <1>1, SpecPipeline, PTL

\* Whatever a backend answers, and however it fails, no step leaves a part of
\* its batch behind: each sequence has one more token, or all have ended.
THEOREM BatchesStayTogether == Spec => AllOrNothing
  <1> DEFINE Together ==
        pc = "calling" /\ pc' = "idle" =>
          \/ \A s \in Scheduled : phase'[s] = "ended" /\ generated'[s] = generated[s]
          \/ \A s \in Scheduled : generated'[s] = generated[s] + 1
  <1>1. PipelineInv /\ [Next]_vars => [Together]_vars
    <2> SUFFICES ASSUME OutputInv, Next, pc = "calling", pc' = "idle" PROVE Together
      BY DEF PipelineInv
    <2>1. Scheduled \subseteq SeqIds
      BY BatchIds
    <2>2. ASSUME NEW error, Fail(error) PROVE Together
      BY <2>1, <2>2 DEF Fail
    <2>3. ASSUME NEW answer \in Answers, Succeed(answer) PROVE Together
      <3> DEFINE advanced == Range(SubSeq(answer.ids, 1, answer.tokens)) \cap SeqIds
      <3>1. advanced = Scheduled
        BY <2>3, AcceptedNamesBatch DEF Succeed
      <3>2. generated' = [s \in SeqIds |-> generated[s] + (IF s \in advanced THEN 1 ELSE 0)]
        BY <2>3 DEF Succeed
      <3> HIDE DEF advanced
      <3>3. \A s \in Scheduled : generated'[s] = generated[s] + 1
        BY <2>1, <3>1, <3>2
      <3> QED
        BY <3>3
    <2>4. \/ \E answer \in Answers : Succeed(answer) \/ RejectAnswer(answer)
          \/ TimeOut \/ BackendError
      BY DEF Next, Execute, Schedule, Prepare, RejectShape, Retry
    <2> QED
      BY <2>2, <2>3, <2>4 DEF RejectAnswer, TimeOut, BackendError
  <1> QED
    BY <1>1, SpecPipeline, PTL DEF Spec, AllOrNothing

-----------------------------------------------------------------------------
(* What has been written                                                   *)

\* How much of its context a sequence has been fed by earlier batches.
FedLen(s) == IF phase[s] = "prefill" THEN 0 ELSE ContextLen(s) - 1

\* A sequence that goes on has been fed all but its last token, or, before it
\* is prefilled, nothing; a batch that is tried again may be there already.
FedInv ==
    /\ prompt \in [SeqIds -> Nat]
    /\ DOMAIN written = SeqIds
    /\ \A s \in SeqIds : phase[s] # "ended" =>
          /\ \/ DOMAIN written[s] = 0 .. FedLen(s) - 1
             \/ /\ pc = "calling" /\ calls > 0 /\ s \in Scheduled
                /\ DOMAIN written[s] = 0 .. ContextLen(s) - 1
          /\ phase[s] = "prefill" => generated[s] = 0
          /\ phase[s] = "decode" => generated[s] > 0

\* A batch lists a sequence once, in its phase.
BatchInv ==
    /\ pc # "idle" =>
          /\ IsInjective(output.prefill) /\ IsInjective(output.decode)
          /\ \A s \in Range(output.prefill) : phase[s] = "prefill"
          /\ \A s \in Range(output.decode) : phase[s] = "decode"
    /\ pc = "calling" => ValidShape(Build(output))

ContextInv == FedInv /\ BatchInv /\ WrittenOnce

-----------------------------------------------------------------------------
(* The segments of a batch                                                 *)

BatchList == output.prefill \o output.decode

TokenParts == [i \in DOMAIN output.prefill |-> PrefillTokens(output.prefill[i])]
                  \o [i \in DOMAIN output.decode |-> DecodeTokens(output.decode[i])]

PositionParts == [i \in DOMAIN output.prefill |-> PrefillPositions(output.prefill[i])]
                     \o [i \in DOMAIN output.decode |-> DecodePositions(output.decode[i])]

LEMMA BatchIs ==
    /\ Build(output).seqIds = BatchList
    /\ Build(output).inputTokens = FlattenSeq(TokenParts)
    /\ Build(output).positions = FlattenSeq(PositionParts)
  BY DEF Build, BatchList, TokenParts, PositionParts

\* A sequence of a batch, by its place in the list.
LEMMA BatchListAt ==
    ASSUME OutputInv, BatchInv, pc # "idle"
    PROVE  /\ BatchList \in Seq(SeqIds) /\ Len(BatchList) = Len(output.prefill) + Len(output.decode)
           /\ \A k \in 1 .. Len(BatchList) :
                 IF k <= Len(output.prefill)
                 THEN BatchList[k] = output.prefill[k] /\ phase[BatchList[k]] = "prefill"
                 ELSE /\ BatchList[k] = output.decode[k - Len(output.prefill)]
                      /\ phase[BatchList[k]] = "decode"
           /\ \A k, l \in 1 .. Len(BatchList) : BatchList[k] = BatchList[l] => k = l
  <1> DEFINE p == output.prefill
             d == output.decode
  <1>1. p \in Seq(SeqIds) /\ d \in Seq(SeqIds) /\ BatchList = p \o d
    BY DEF OutputInv, BatchList
  <1>2. /\ \A i, j \in 1 .. Len(p) : p[i] = p[j] => i = j
        /\ \A i, j \in 1 .. Len(d) : d[i] = d[j] => i = j
        /\ \A i \in 1 .. Len(p) : phase[p[i]] = "prefill"
        /\ \A i \in 1 .. Len(d) : phase[d[i]] = "decode"
    BY <1>1 DEF BatchInv, IsInjective, Range
  <1> HIDE DEF p, d
  <1>3. /\ p \o d \in Seq(SeqIds) /\ Len(p \o d) = Len(p) + Len(d)
        /\ Len(p) \in Nat /\ Len(d) \in Nat
    BY <1>1
  <1>4. ASSUME NEW k \in 1 .. Len(p) + Len(d)
        PROVE  IF k <= Len(p) THEN (p \o d)[k] = p[k] /\ k \in 1 .. Len(p)
               ELSE (p \o d)[k] = d[k - Len(p)] /\ k - Len(p) \in 1 .. Len(d)
    BY <1>1, <1>3
  <1>5. ASSUME NEW k \in 1 .. Len(p) + Len(d), NEW l \in 1 .. Len(p) + Len(d),
               (p \o d)[k] = (p \o d)[l]
        PROVE  k = l
    <2>1. CASE k <= Len(p) /\ l <= Len(p)
      BY <1>2, <1>4, <1>5, <2>1
    <2>2. CASE ~(k <= Len(p)) /\ ~(l <= Len(p))
      <3>1. k - Len(p) = l - Len(p)
        BY <1>2, <1>4, <1>5, <2>2
      <3> QED
        BY <1>3, <3>1
    <2>3. CASE k <= Len(p) /\ ~(l <= Len(p))
      BY <1>2, <1>4, <1>5, <2>3
    <2>4. CASE ~(k <= Len(p)) /\ l <= Len(p)
      BY <1>2, <1>4, <1>5, <2>4
    <2> QED
      BY <2>1, <2>2, <2>3, <2>4
  <1>6. ASSUME NEW k \in 1 .. Len(p) + Len(d)
        PROVE  IF k <= Len(p) THEN (p \o d)[k] = p[k] /\ phase[(p \o d)[k]] = "prefill"
               ELSE (p \o d)[k] = d[k - Len(p)] /\ phase[(p \o d)[k]] = "decode"
    BY <1>2, <1>4
  <1> QED
    BY <1>1, <1>3, <1>5, <1>6 DEF p, d

\* The tokens and positions of one sequence, of a prefill or of a decode.
LEMMA SequencePart ==
    ASSUME OutputInv, FedInv, NEW s \in SeqIds
    PROVE  /\ phase[s] = "prefill" =>
                 /\ PrefillTokens(s) \in Seq(SeqIds \X Int) /\ PrefillPositions(s) \in Seq(Int)
                 /\ Len(PrefillTokens(s)) = ContextLen(s) - FedLen(s)
                 /\ Len(PrefillPositions(s)) = ContextLen(s) - FedLen(s)
                 /\ ContextLen(s) - FedLen(s) = prompt[s]
                 /\ \A j \in 1 .. prompt[s] :
                       /\ PrefillTokens(s)[j] = Token(s, FedLen(s) + j - 1)
                       /\ PrefillPositions(s)[j] = FedLen(s) + j - 1
           /\ phase[s] = "decode" =>
                 /\ DecodeTokens(s) \in Seq(SeqIds \X Int) /\ DecodePositions(s) \in Seq(Int)
                 /\ Len(DecodeTokens(s)) = ContextLen(s) - FedLen(s)
                 /\ Len(DecodePositions(s)) = ContextLen(s) - FedLen(s)
                 /\ ContextLen(s) - FedLen(s) = 1
                 /\ DecodeTokens(s)[1] = Token(s, FedLen(s))
                 /\ DecodePositions(s)[1] = FedLen(s)
           /\ ContextLen(s) \in Nat /\ (phase[s] # "ended" => FedLen(s) \in Nat)
  <1>1. prompt[s] \in Nat /\ generated[s] \in Nat
    BY DEF OutputInv, FedInv
  <1>2. ContextLen(s) \in Nat /\ FedLen(s) \in Int /\ (phase[s] # "ended" => FedLen(s) \in Nat)
    BY <1>1 DEF ContextLen, FedLen, FedInv, OutputInv
  <1>3. ASSUME phase[s] = "prefill"
        PROVE  FedLen(s) = 0 /\ ContextLen(s) = prompt[s]
    BY <1>1, <1>3 DEF FedLen, ContextLen, FedInv
  <1>4. ASSUME phase[s] = "decode"
        PROVE  FedLen(s) = prompt[s] + generated[s] - 1 /\ ContextLen(s) - FedLen(s) = 1
               /\ generated[s] > 0
    BY <1>1, <1>4 DEF FedLen, ContextLen, FedInv
  <1>5. ASSUME phase[s] = "prefill"
        PROVE  /\ PrefillTokens(s) \in Seq(SeqIds \X Int) /\ PrefillPositions(s) \in Seq(Int)
               /\ Len(PrefillTokens(s)) = prompt[s] /\ Len(PrefillPositions(s)) = prompt[s]
               /\ \A j \in 1 .. prompt[s] :
                       /\ PrefillTokens(s)[j] = Token(s, j - 1)
                       /\ PrefillPositions(s)[j] = j - 1
    <2> DEFINE S == SeqIds \X Int
               m == prompt[s]
    <2>1. m \in Nat /\ \A i \in 1 .. m : <<s, i - 1>> \in S /\ i - 1 \in Int
      BY <1>1
    <2>2. /\ PrefillTokens(s) = [i \in 1 .. m |-> <<s, i - 1>>]
          /\ PrefillPositions(s) = [i \in 1 .. m |-> i - 1]
      BY DEF PrefillTokens, PrefillPositions, Token
    <2> HIDE DEF S, m
    <2>3. \A T : \A f \in [1 .. m -> T] : f \in Seq(T) /\ Len(f) = m
      BY <2>1
    <2>4. PrefillTokens(s) \in [1 .. m -> S] /\ PrefillPositions(s) \in [1 .. m -> Int]
      BY <2>1, <2>2
    <2>5. \A j \in 1 .. m : PrefillTokens(s)[j] = Token(s, j - 1) /\ PrefillPositions(s)[j] = j - 1
      BY <2>2 DEF Token
    <2> QED
      BY Zenon, <2>3, <2>4, <2>5 DEF S, m
  <1>6. ASSUME phase[s] = "decode"
        PROVE  /\ DecodeTokens(s) \in Seq(SeqIds \X Int) /\ DecodePositions(s) \in Seq(Int)
               /\ Len(DecodeTokens(s)) = 1 /\ Len(DecodePositions(s)) = 1
               /\ DecodeTokens(s)[1] = Token(s, FedLen(s))
               /\ DecodePositions(s)[1] = FedLen(s)
    <2>1. DecodeTokens(s) = <<Token(s, FedLen(s))>>
      BY <1>1, <1>4, <1>6 DEF DecodeTokens
    <2>2. DecodePositions(s) = <<FedLen(s)>>
      BY <1>6 DEF DecodePositions, FedLen
    <2>3. Token(s, FedLen(s)) \in SeqIds \X Int
      BY <1>2 DEF Token
    <2> QED
      BY <1>2, <2>1, <2>2, <2>3
  <1>7. ASSUME phase[s] = "prefill", NEW j \in 1 .. prompt[s]
        PROVE  FedLen(s) + j - 1 = j - 1
    BY <1>1, <1>3, <1>7
  <1>8. ASSUME phase[s] = "prefill"
        PROVE  /\ Len(PrefillTokens(s)) = ContextLen(s) - FedLen(s)
               /\ Len(PrefillPositions(s)) = ContextLen(s) - FedLen(s)
               /\ ContextLen(s) - FedLen(s) = prompt[s]
    BY <1>1, <1>3, <1>5, <1>8
  <1>9. ASSUME phase[s] = "prefill", NEW j \in 1 .. prompt[s]
        PROVE  /\ PrefillTokens(s)[j] = Token(s, FedLen(s) + j - 1)
               /\ PrefillPositions(s)[j] = FedLen(s) + j - 1
    BY <1>5, <1>7, <1>9
  <1>10. ASSUME phase[s] = "decode"
         PROVE  /\ Len(DecodeTokens(s)) = ContextLen(s) - FedLen(s)
                /\ Len(DecodePositions(s)) = ContextLen(s) - FedLen(s)
                /\ ContextLen(s) - FedLen(s) = 1
    BY <1>4, <1>6, <1>10
  <1> QED
    BY Zenon, <1>2, <1>5, <1>6, <1>8, <1>9, <1>10

LEMMA PartsAt ==
    ASSUME OutputInv, FedInv, BatchInv, pc # "idle"
    PROVE  /\ TokenParts \in Seq(Seq(SeqIds \X Int)) /\ Len(TokenParts) = Len(BatchList)
           /\ PositionParts \in Seq(Seq(Int)) /\ Len(PositionParts) = Len(BatchList)
           /\ \A k \in 1 .. Len(BatchList) :
                 LET s == BatchList[k]
                 IN  /\ Len(TokenParts[k]) = ContextLen(s) - FedLen(s)
                     /\ Len(PositionParts[k]) = ContextLen(s) - FedLen(s)
                     /\ \A j \in 1 .. ContextLen(s) - FedLen(s) :
                           /\ TokenParts[k][j] = Token(s, FedLen(s) + j - 1)
                           /\ PositionParts[k][j] = FedLen(s) + j - 1
  <1> DEFINE p == output.prefill
             d == output.decode
             Q == Seq(SeqIds \X Int)
             Z == Seq(Int)
             pt == [i \in DOMAIN p |-> PrefillTokens(p[i])]
             dt == [i \in DOMAIN d |-> DecodeTokens(d[i])]
             pp == [i \in DOMAIN p |-> PrefillPositions(p[i])]
             dp == [i \in DOMAIN d |-> DecodePositions(d[i])]
  <1>1. p \in Seq(SeqIds) /\ d \in Seq(SeqIds) /\ Len(p) \in Nat /\ Len(d) \in Nat
    BY DEF OutputInv
  <1>2. TokenParts = pt \o dt /\ PositionParts = pp \o dp
    BY DEF TokenParts, PositionParts
  <1>3. /\ \A i \in 1 .. Len(p) : p[i] \in SeqIds /\ phase[p[i]] = "prefill"
        /\ \A i \in 1 .. Len(d) : d[i] \in SeqIds /\ phase[d[i]] = "decode"
    BY <1>1 DEF BatchInv, Range
  <1>4. /\ pt \in Seq(Q) /\ Len(pt) = Len(p) /\ \A i \in 1 .. Len(p) : pt[i] = PrefillTokens(p[i])
        /\ pp \in Seq(Z) /\ Len(pp) = Len(p) /\ \A i \in 1 .. Len(p) : pp[i] = PrefillPositions(p[i])
    <2>1. \A i \in 1 .. Len(p) : PrefillTokens(p[i]) \in Q /\ PrefillPositions(p[i]) \in Z
      BY <1>3, SequencePart
    <2>2. DOMAIN p = 1 .. Len(p)
      BY <1>1
    <2> HIDE DEF p, Q, Z
    <2> QED
      BY <1>1, <2>1, <2>2
  <1>5. /\ dt \in Seq(Q) /\ Len(dt) = Len(d) /\ \A i \in 1 .. Len(d) : dt[i] = DecodeTokens(d[i])
        /\ dp \in Seq(Z) /\ Len(dp) = Len(d) /\ \A i \in 1 .. Len(d) : dp[i] = DecodePositions(d[i])
    <2>1. \A i \in 1 .. Len(d) : DecodeTokens(d[i]) \in Q /\ DecodePositions(d[i]) \in Z
      BY <1>3, SequencePart
    <2>2. DOMAIN d = 1 .. Len(d)
      BY <1>1
    <2> HIDE DEF d, Q, Z
    <2> QED
      BY <1>1, <2>1, <2>2
  <1>6. BatchList \in Seq(SeqIds) /\ Len(BatchList) = Len(p) + Len(d)
    BY BatchListAt
  <1>7. ASSUME NEW k \in 1 .. Len(BatchList)
        PROVE  IF k <= Len(p) THEN BatchList[k] = p[k] /\ phase[BatchList[k]] = "prefill"
               ELSE BatchList[k] = d[k - Len(p)] /\ phase[BatchList[k]] = "decode"
    BY BatchListAt
  <1> HIDE DEF p, d, Q, Z, pt, dt, pp, dp
  <1>8. /\ pt \o dt \in Seq(Q) /\ Len(pt \o dt) = Len(p) + Len(d)
        /\ pp \o dp \in Seq(Z) /\ Len(pp \o dp) = Len(p) + Len(d)
    <2>1. pt \o dt \in Seq(Q) /\ Len(pt \o dt) = Len(pt) + Len(dt)
      BY <1>4, <1>5, ConcatProperties
    <2>2. pp \o dp \in Seq(Z) /\ Len(pp \o dp) = Len(pp) + Len(dp)
      BY <1>4, <1>5, ConcatProperties
    <2> QED
      BY <1>4, <1>5, <2>1, <2>2
  <1>9. ASSUME NEW k \in 1 .. Len(p) + Len(d)
        PROVE  IF k <= Len(p) THEN (pt \o dt)[k] = PrefillTokens(p[k]) /\ (pp \o dp)[k] = PrefillPositions(p[k])
               ELSE /\ (pt \o dt)[k] = DecodeTokens(d[k - Len(p)])
                    /\ (pp \o dp)[k] = DecodePositions(d[k - Len(p)])
    <2>1. CASE k <= Len(p)
      <3>1. k \in 1 .. Len(p)
        BY <1>1, <2>1
      <3>2. (pt \o dt)[k] = pt[k]
        BY <1>4, <1>5, <3>1
      <3>3. (pp \o dp)[k] = pp[k]
        BY <1>4, <1>5, <3>1
      <3> QED
        BY <1>4, <2>1, <3>1, <3>2, <3>3
    <2>2. CASE ~(k <= Len(p))
      <3>1. k - Len(p) \in 1 .. Len(d) /\ k = Len(p) + (k - Len(p))
        BY <1>1, <2>2
      <3>2. PICK j \in 1 .. Len(d) : j = k - Len(p) /\ k = Len(p) + j
        BY <3>1
      <3>3. (pt \o dt)[Len(pt) + j] = dt[j]
        BY <1>4, <1>5, <3>2, SecondOfConcat
      <3>4. (pp \o dp)[Len(pp) + j] = dp[j]
        BY <1>4, <1>5, <3>2, SecondOfConcat
      <3> QED
        BY <1>4, <1>5, <2>2, <3>2, <3>3, <3>4
    <2> QED
      BY <2>1, <2>2
  <1>10. ASSUME NEW k \in 1 .. Len(BatchList), NEW s \in SeqIds, s = BatchList[k]
         PROVE  /\ Len(TokenParts[k]) = ContextLen(s) - FedLen(s)
                /\ Len(PositionParts[k]) = ContextLen(s) - FedLen(s)
                /\ \A j \in 1 .. ContextLen(s) - FedLen(s) :
                      /\ TokenParts[k][j] = Token(s, FedLen(s) + j - 1)
                      /\ PositionParts[k][j] = FedLen(s) + j - 1
    <2>1. CASE k <= Len(p)
      <3>1. /\ phase[s] = "prefill" /\ TokenParts[k] = PrefillTokens(s)
            /\ PositionParts[k] = PrefillPositions(s)
        BY <1>2, <1>6, <1>7, <1>9, <1>10, <2>1
      <3> QED
        BY <3>1, SequencePart
    <2>2. CASE ~(k <= Len(p))
      <3>1. /\ phase[s] = "decode" /\ TokenParts[k] = DecodeTokens(s)
            /\ PositionParts[k] = DecodePositions(s)
        BY <1>2, <1>6, <1>7, <1>9, <1>10, <2>2
      <3>2. ContextLen(s) - FedLen(s) = 1 /\ FedLen(s) \in Nat
        BY <3>1, SequencePart
      <3>3. /\ Len(DecodeTokens(s)) = 1 /\ Len(DecodePositions(s)) = 1
            /\ DecodeTokens(s)[1] = Token(s, FedLen(s)) /\ DecodePositions(s)[1] = FedLen(s)
        BY <3>1, <3>2, SequencePart
      <3>4. ASSUME NEW j \in 1 .. ContextLen(s) - FedLen(s)
            PROVE  j = 1 /\ FedLen(s) + j - 1 = FedLen(s)
        BY <3>2
      <3> QED
        BY <3>1, <3>2, <3>3, <3>4
    <2> QED
      BY <2>1, <2>2
  <1>11. \A k \in 1 .. Len(BatchList) : BatchList[k] \in SeqIds
    BY <1>6
  <1> QED
    BY <1>2, <1>6, <1>8, <1>10, <1>11 DEF Q, Z

Tokens == Build(output).inputTokens

\* The places of the tokens of a sequence.
PlacesOf(s) == {i \in DOMAIN Tokens : Tokens[i][1] = s}

\* The tokens of a batch come with their positions, and those of a sequence
\* are one segment: its context from where it was fed to the end.
Segmented ==
    /\ Len(Build(output).positions) = Len(Tokens)
    /\ DOMAIN Tokens = 1 .. Len(Tokens) /\ Len(Tokens) \in Nat
    /\ \A i \in DOMAIN Tokens :
          Tokens[i][2] = Build(output).positions[i] /\ Tokens[i][1] \in Scheduled
    /\ \A s \in Scheduled : \E first \in DOMAIN Tokens :
          /\ PlacesOf(s) = first .. first + (ContextLen(s) - FedLen(s)) - 1
          /\ \A i \in PlacesOf(s) : Tokens[i] = Token(s, FedLen(s) + (i - first))

LEMMA ScheduledAt ==
    ASSUME OutputInv
    PROVE  /\ \A k \in 1 .. Len(BatchList) : BatchList[k] \in Scheduled
           /\ \A s \in Scheduled : \E k \in 1 .. Len(BatchList) : BatchList[k] = s
  <1>1. BatchList \in Seq(SeqIds)
    BY DEF OutputInv, BatchList
  <1>2. Range(BatchList) = Scheduled
    BY BatchIds DEF BatchList
  <1> QED
    BY <1>1, <1>2 DEF Range

LEMMA BatchSegmented ==
    ASSUME OutputInv, FedInv, BatchInv, pc = "calling"
    PROVE  Segmented
  <1> DEFINE ids == BatchList
             all == FlattenSeq(TokenParts)
             places == FlattenSeq(PositionParts)
             R == {<<Token(s, q), q>> : s \in SeqIds, q \in Int}
             LenOf(s) == ContextLen(s) - FedLen(s)
  <1>1. /\ TokenParts \in Seq(Seq(SeqIds \X Int)) /\ Len(TokenParts) = Len(ids)
        /\ PositionParts \in Seq(Seq(Int)) /\ Len(PositionParts) = Len(ids)
        /\ \A k \in 1 .. Len(ids) :
              /\ Len(TokenParts[k]) = LenOf(ids[k]) /\ Len(PositionParts[k]) = LenOf(ids[k])
              /\ \A j \in 1 .. LenOf(ids[k]) :
                    /\ TokenParts[k][j] = Token(ids[k], FedLen(ids[k]) + j - 1)
                    /\ PositionParts[k][j] = FedLen(ids[k]) + j - 1
    BY PartsAt
  <1>2. ids \in Seq(SeqIds) /\ \A k \in 1 .. Len(ids) : ids[k] \in SeqIds
    <2>1. ids \in Seq(SeqIds)
      BY BatchListAt
    <2> HIDE DEF ids
    <2> QED
      BY <2>1
  <1>3. \A k, l \in 1 .. Len(ids) : ids[k] = ids[l] => k = l
    BY BatchListAt
  <1>4. ASSUME NEW k \in 1 .. Len(ids)
        PROVE  /\ phase[ids[k]] # "ended" /\ FedLen(ids[k]) \in Nat /\ LenOf(ids[k]) \in Nat \ {0}
    <2>1. IF k <= Len(output.prefill) THEN phase[ids[k]] = "prefill" ELSE phase[ids[k]] = "decode"
      BY BatchListAt
    <2>2. phase[ids[k]] # "ended" /\ FedLen(ids[k]) \in Nat
      BY <1>2, <2>1, SequencePart
    <2>3. CASE k <= Len(output.prefill)
      <3>1. LenOf(ids[k]) = prompt[ids[k]] /\ prompt[ids[k]] \in Nat
        BY <1>2, <2>1, <2>3, SequencePart DEF FedInv
      <3>2. DOMAIN ids = 1 .. Len(ids) /\ Build(output).seqIds = ids
        BY <1>2, BatchIs
      <3>3. Build(output).seqLens = [i \in DOMAIN ids |->
                             IF i <= Len(output.prefill) THEN prompt[ids[i]] ELSE 1]
        BY DEF Build, BatchList
      <3>4. Build(output).seqLens[k] > 0
        BY <3>2 DEF BatchInv, ValidShape
      <3>5. Build(output).seqLens[k] = prompt[ids[k]]
        BY <2>3, <3>2, <3>3
      <3> QED
        BY <2>2, <3>1, <3>4, <3>5
    <2>4. CASE ~(k <= Len(output.prefill))
      <3>1. LenOf(ids[k]) = 1
        BY <1>2, <2>1, <2>4, SequencePart
      <3> QED
        BY <2>2, <3>1
    <2> QED
      BY <2>3, <2>4
  <1>5. PICK first \in [1 .. Len(TokenParts) -> Nat \ {0}] : CutAt(TokenParts, first)
    BY <1>1, FlattenCut
  <1>6. all \in Seq(SeqIds \X Int) /\ places \in Seq(Int)
    BY <1>1, FlattenType
  <1>7. Tokens = all /\ Build(output).positions = places
    BY BatchIs DEF Tokens
  <1>8. Related(TokenParts, PositionParts, R)
    <2>1. ASSUME NEW k \in 1 .. Len(ids), NEW j \in 1 .. LenOf(ids[k])
          PROVE  <<TokenParts[k][j], PositionParts[k][j]>> \in R
      <3>1. FedLen(ids[k]) + j - 1 \in Int
        BY <1>4
      <3>2. /\ TokenParts[k][j] = Token(ids[k], FedLen(ids[k]) + j - 1)
            /\ PositionParts[k][j] = FedLen(ids[k]) + j - 1
        BY <1>1
      <3> HIDE DEF ids, LenOf
      <3> QED
        BY <1>2, <3>1, <3>2
    <2> HIDE DEF R, LenOf, ids
    <2> QED
      BY <1>1, <2>1 DEF Related
  <1>9. /\ Len(all) = Len(places)
        /\ \A i \in 1 .. Len(all) : <<all[i], places[i]>> \in R
    <2> DEFINE S == SeqIds \X Int
    <2>1. TokenParts \in Seq(Seq(S)) /\ PositionParts \in Seq(Seq(Int))
      BY <1>1
    <2> HIDE DEF R, S
    <2> QED
      BY Zenon, <1>8, <2>1, FlattenPair
  <1>10. \A i \in 1 .. Len(all) : all[i][2] = places[i]
    <2> SUFFICES ASSUME NEW i \in 1 .. Len(all) PROVE all[i][2] = places[i]
      OBVIOUS
    <2>1. <<all[i], places[i]>> \in R
      BY <1>9
    <2> HIDE DEF all, places
    <2> QED
      BY <2>1 DEF Token
  <1>11. ASSUME NEW k \in 1 .. Len(ids), NEW j \in 1 .. LenOf(ids[k])
         PROVE  /\ first[k] + j - 1 \in 1 .. Len(all)
                /\ all[first[k] + j - 1] = Token(ids[k], FedLen(ids[k]) + j - 1)
    <2>1. k \in 1 .. Len(TokenParts) /\ j \in 1 .. Len(TokenParts[k])
      BY Zenon, <1>1
    <2>2. /\ first[k] + j - 1 \in 1 .. Len(all)
          /\ all[first[k] + j - 1] = TokenParts[k][j]
      BY Zenon, <1>5, <2>1 DEF CutAt
    <2> QED
      BY Zenon, <1>1, <2>2
  <1>12. ASSUME NEW i \in 1 .. Len(all)
         PROVE  \E k \in 1 .. Len(ids) : \E j \in 1 .. LenOf(ids[k]) : i = first[k] + j - 1
    <2>1. \E k \in 1 .. Len(TokenParts) : \E j \in 1 .. Len(TokenParts[k]) : i = first[k] + j - 1
      BY Zenon, <1>5 DEF CutAt
    <2> QED
      BY Zenon, <1>1, <2>1
  <1>13. ASSUME NEW i \in 1 .. Len(all), NEW k \in 1 .. Len(ids),
                NEW j \in 1 .. LenOf(ids[k]), i = first[k] + j - 1
         PROVE  all[i][1] = ids[k] /\ ids[k] \in Scheduled
    <2>1. all[i] = Token(ids[k], FedLen(ids[k]) + j - 1)
      BY Zenon, <1>11, <1>13
    <2>2. ids[k] \in Scheduled
      BY Zenon, ScheduledAt
    <2> HIDE DEF all, ids
    <2> QED
      BY <2>1, <2>2 DEF Token
  <1>14. \A k \in 1 .. Len(ids) : first[k] \in Nat \ {0}
    BY <1>1, <1>5
  <1> HIDE DEF ids, all, places, R
  <1>15. ASSUME NEW s \in Scheduled
         PROVE  \E f \in 1 .. Len(all) :
                   /\ {i \in 1 .. Len(all) : all[i][1] = s} = f .. f + LenOf(s) - 1
                   /\ \A i \in f .. f + LenOf(s) - 1 : all[i] = Token(s, FedLen(s) + (i - f))
    <2>1. PICK k \in 1 .. Len(ids) : ids[k] = s
      BY ScheduledAt DEF ids
    <2>2. PICK f \in Nat \ {0} : f = first[k]
      BY <1>14
    <2>3. LenOf(s) \in Nat \ {0} /\ FedLen(s) \in Nat
      BY <1>4, <2>1
    <2> HIDE DEF LenOf
    <2>4. ASSUME NEW i \in f .. f + LenOf(s) - 1
          PROVE  i \in 1 .. Len(all) /\ all[i] = Token(s, FedLen(s) + (i - f))
      <3>1. PICK j \in 1 .. LenOf(s) : i = f + j - 1
        <4>1. i - f + 1 \in 1 .. LenOf(s) /\ i = f + (i - f + 1) - 1
          BY <2>3
        <4> QED
          BY <4>1
      <3>2. i \in 1 .. Len(all) /\ all[i] = Token(s, FedLen(s) + j - 1)
        BY <1>11, <2>1, <2>2, <3>1
      <3>3. FedLen(s) + j - 1 = FedLen(s) + (i - f)
        BY <2>3, <3>1
      <3> QED
        BY Zenon, <3>2, <3>3
    <2>5. ASSUME NEW i \in 1 .. Len(all), all[i][1] = s
          PROVE  i \in f .. f + LenOf(s) - 1
      <3>1. PICK l \in 1 .. Len(ids) : \E j \in 1 .. LenOf(ids[l]) : i = first[l] + j - 1
        BY <1>12
      <3>2. all[i][1] = ids[l]
        BY Zenon, <1>13, <3>1
      <3>3. l = k
        BY <1>3, <2>1, <2>5, <3>2
      <3> QED
        BY <2>1, <2>2, <2>3, <3>1, <3>3
    <2>6. {i \in 1 .. Len(all) : all[i][1] = s} = f .. f + LenOf(s) - 1
      <3>1. \A i \in f .. f + LenOf(s) - 1 : all[i][1] = s
        BY <2>4 DEF Token
      <3> QED
        BY <2>4, <2>5, <3>1
    <2>7. f \in f .. f + LenOf(s) - 1
      BY <2>3
    <2> QED
      BY <2>4, <2>6, <2>7
  <1>16. DOMAIN Tokens = 1 .. Len(Tokens) /\ Len(Tokens) \in Nat
    BY <1>6, <1>7
  <1>17. \A i \in DOMAIN Tokens :
            Tokens[i][2] = Build(output).positions[i] /\ Tokens[i][1] \in Scheduled
    <2>1. \A i \in 1 .. Len(all) : all[i][1] \in Scheduled
      BY Zenon, <1>12, <1>13
    <2> QED
      BY <1>7, <1>10, <1>16, <2>1
  <1>18. ASSUME NEW s \in Scheduled
         PROVE  \E f \in DOMAIN Tokens :
                   /\ PlacesOf(s) = f .. f + (ContextLen(s) - FedLen(s)) - 1
                   /\ \A i \in PlacesOf(s) : Tokens[i] = Token(s, FedLen(s) + (i - f))
    <2>1. PICK f \in 1 .. Len(all) :
                   /\ {i \in 1 .. Len(all) : all[i][1] = s} = f .. f + LenOf(s) - 1
                   /\ \A i \in f .. f + LenOf(s) - 1 : all[i] = Token(s, FedLen(s) + (i - f))
      BY <1>15
    <2>2. PlacesOf(s) = f .. f + LenOf(s) - 1 /\ f \in DOMAIN Tokens
      BY <1>7, <1>16, <2>1 DEF PlacesOf
    <2> QED
      BY <1>7, <2>1, <2>2
  <1> QED
    BY <1>7, <1>9, <1>16, <1>17, <1>18 DEF Segmented

-----------------------------------------------------------------------------
(* What a write adds                                                       *)

LEMMA WriteAt ==
    ASSUME Segmented, Write, NEW s \in SeqIds
    PROVE  /\ DOMAIN written'[s] = DOMAIN written[s]
                                       \cup {Build(output).positions[i] : i \in PlacesOf(s)}
           /\ \A p \in DOMAIN written'[s] :
                 written'[s][p] = (IF p \in DOMAIN written[s] THEN written[s][p] ELSE 0)
                     + Cardinality({i \in PlacesOf(s) : Build(output).positions[i] = p})
           /\ DOMAIN written' = SeqIds
  BY DEF Write, PlacesOf, Tokens

\* A sequence that the batch does not list is left alone.
LEMMA WriteElsewhere ==
    ASSUME Segmented, Write, NEW s \in SeqIds \ Scheduled
    PROVE  /\ DOMAIN written'[s] = DOMAIN written[s]
           /\ \A p \in DOMAIN written[s] : written[s][p] = 1 => written'[s][p] = 1
  <1>1. PlacesOf(s) = {}
    BY DEF Segmented, PlacesOf
  <1>2. DOMAIN written'[s] = DOMAIN written[s]
    BY <1>1, WriteAt
  <1>3. ASSUME NEW p \in DOMAIN written[s], written[s][p] = 1
        PROVE  written'[s][p] = 1
    <2>1. {i \in PlacesOf(s) : Build(output).positions[i] = p} = {}
      BY <1>1
    <2>2. Cardinality({}) = 0
      BY FS_EmptySet
    <2>3. written'[s][p] = 1 + Cardinality({i \in PlacesOf(s) : Build(output).positions[i] = p})
      BY <1>2, <1>3, WriteAt
    <2> QED
      BY <2>1, <2>2, <2>3
  <1> QED
    BY <1>2, <1>3

\* The positions that a batch has for a sequence: each once.
LEMMA PositionsOf ==
    ASSUME Segmented, OutputInv, FedInv, NEW s \in Scheduled, phase[s] # "ended"
    PROVE  /\ {Build(output).positions[i] : i \in PlacesOf(s)} = FedLen(s) .. ContextLen(s) - 1
           /\ \A p \in FedLen(s) .. ContextLen(s) - 1 :
                 Cardinality({i \in PlacesOf(s) : Build(output).positions[i] = p}) = 1
           /\ \A p : p \notin FedLen(s) .. ContextLen(s) - 1 =>
                 Cardinality({i \in PlacesOf(s) : Build(output).positions[i] = p}) = 0
  <1> DEFINE n == ContextLen(s)
             m == FedLen(s)
             At(i) == Build(output).positions[i]
  <1>1. s \in SeqIds /\ n \in Nat /\ m \in Nat
    BY BatchIds, SequencePart
  <1>2. PICK f \in DOMAIN Tokens :
            /\ PlacesOf(s) = f .. f + (n - m) - 1
            /\ \A i \in PlacesOf(s) : Tokens[i] = Token(s, m + (i - f))
    BY DEF Segmented
  <1>3. f \in Int /\ \A i \in PlacesOf(s) : i \in DOMAIN Tokens
    BY DEF Segmented, PlacesOf
  <1>4. ASSUME NEW i \in PlacesOf(s) PROVE At(i) = m + (i - f)
    <2>1. Tokens[i][2] = At(i) /\ Tokens[i] = Token(s, m + (i - f))
      BY <1>2, <1>3 DEF Segmented
    <2> HIDE DEF At, m
    <2> QED
      BY <2>1 DEF Token
  <1> HIDE DEF n, m, At
  <1>5. ASSUME NEW p \in m .. n - 1
        PROVE  f + (p - m) \in PlacesOf(s) /\ At(f + (p - m)) = p
    <2>1. f + (p - m) \in f .. f + (n - m) - 1
      BY <1>1, <1>3
    <2>2. At(f + (p - m)) = m + ((f + (p - m)) - f)
      BY <1>2, <1>4, <2>1
    <2> QED
      BY <1>1, <1>2, <1>3, <2>1, <2>2
  <1>6. ASSUME NEW i \in PlacesOf(s) PROVE At(i) \in m .. n - 1 /\ i = f + (At(i) - m)
    BY <1>1, <1>2, <1>3, <1>4
  <1>7. {At(i) : i \in PlacesOf(s)} = m .. n - 1
    BY <1>5, <1>6
  <1>8. ASSUME NEW p \in m .. n - 1 PROVE Cardinality({i \in PlacesOf(s) : At(i) = p}) = 1
    <2>1. {i \in PlacesOf(s) : At(i) = p} = {f + (p - m)}
      BY <1>5, <1>6
    <2> QED
      BY <2>1, FS_Singleton
  <1>9. ASSUME NEW p, p \notin m .. n - 1 PROVE Cardinality({i \in PlacesOf(s) : At(i) = p}) = 0
    <2>1. {i \in PlacesOf(s) : At(i) = p} = {}
      BY <1>6, <1>9
    <2> QED
      BY <2>1, FS_EmptySet
  <1> QED
    BY <1>7, <1>8, <1>9 DEF n, m, At

\* After a write a sequence of the batch has all of its context, and what was
\* there for the first time, once.
LEMMA WriteFills ==
    ASSUME Segmented, OutputInv, FedInv, Write, NEW s \in Scheduled, phase[s] # "ended"
    PROVE  /\ DOMAIN written'[s] = 0 .. ContextLen(s) - 1
           /\ (/\ DOMAIN written[s] = 0 .. FedLen(s) - 1
               /\ \A p \in DOMAIN written[s] : written[s][p] = 1)
              => \A p \in DOMAIN written'[s] : written'[s][p] = 1
  <1>1. s \in SeqIds /\ ContextLen(s) \in Nat /\ FedLen(s) \in Nat
    BY BatchIds, SequencePart
  <1>2. FedLen(s) <= ContextLen(s)
    BY <1>1 DEF FedLen
  <1>3. \/ DOMAIN written[s] = 0 .. FedLen(s) - 1
        \/ DOMAIN written[s] = 0 .. ContextLen(s) - 1
    BY <1>1 DEF FedInv
  <1>4. DOMAIN written'[s] = DOMAIN written[s] \cup (FedLen(s) .. ContextLen(s) - 1)
    BY <1>1, WriteAt, PositionsOf
  <1>5. DOMAIN written'[s] = 0 .. ContextLen(s) - 1
    BY <1>1, <1>2, <1>3, <1>4
  <1>6. ASSUME DOMAIN written[s] = 0 .. FedLen(s) - 1,
               \A p \in DOMAIN written[s] : written[s][p] = 1,
               NEW p \in DOMAIN written'[s]
        PROVE  written'[s][p] = 1
    <2> DEFINE times == Cardinality({i \in PlacesOf(s) : Build(output).positions[i] = p})
    <2>1. written'[s][p] = (IF p \in DOMAIN written[s] THEN written[s][p] ELSE 0) + times
      BY <1>1, WriteAt
    <2>2. CASE p \in DOMAIN written[s]
      <3>1. p \notin FedLen(s) .. ContextLen(s) - 1
        BY <1>1, <1>6, <2>2
      <3>2. times = 0
        BY <3>1, PositionsOf
      <3> HIDE DEF times
      <3> QED
        BY <1>6, <2>1, <2>2, <3>2
    <2>3. CASE p \notin DOMAIN written[s]
      <3>1. p \in FedLen(s) .. ContextLen(s) - 1
        BY <1>4, <2>3
      <3>2. times = 1
        BY <3>1, PositionsOf
      <3> HIDE DEF times
      <3> QED
        BY <2>1, <2>3, <3>2
    <2> QED
      BY <2>2, <2>3
  <1> QED
    BY <1>5, <1>6


-----------------------------------------------------------------------------
(* What a call leaves written                                              *)

LEMMA ScheduledPhase ==
    ASSUME OutputInv, BatchInv, pc # "idle", NEW s \in Scheduled
    PROVE  s \in SeqIds /\ phase[s] # "ended"
  <1>1. PICK k \in 1 .. Len(BatchList) : BatchList[k] = s
    BY ScheduledAt
  <1>2. phase[BatchList[k]] \in {"prefill", "decode"}
    BY BatchListAt
  <1> QED
    BY <1>1, <1>2, BatchIds

\* A call writes all or nothing of a sequence that its batch lists, and nothing
\* of another.
LEMMA CallWrites ==
    ASSUME OutputInv, FedInv, BatchInv, pc = "calling", Write \/ UNCHANGED written
    PROVE  /\ DOMAIN written' = SeqIds
           /\ \A s \in Scheduled : \/ DOMAIN written'[s] = 0 .. ContextLen(s) - 1
                                   \/ written' = written
           /\ Write => \A s \in Scheduled : DOMAIN written'[s] = 0 .. ContextLen(s) - 1
           /\ \A s \in SeqIds \ Scheduled : DOMAIN written'[s] = DOMAIN written[s]
  <1>1. Segmented
    BY BatchSegmented
  <1>2. CASE Write
    <2>1. DOMAIN written' = SeqIds
      BY <1>2 DEF Write
    <2>2. \A s \in Scheduled : DOMAIN written'[s] = 0 .. ContextLen(s) - 1
      BY <1>1, <1>2, ScheduledPhase, WriteFills
    <2>3. \A s \in SeqIds \ Scheduled : DOMAIN written'[s] = DOMAIN written[s]
      BY <1>1, <1>2, WriteElsewhere
    <2> QED
      BY <2>1, <2>2, <2>3
  <1>3. CASE UNCHANGED written /\ ~Write
    BY <1>3 DEF FedInv
  <1> QED
    BY <1>2, <1>3

\* A backend that may not be called again has not been called for this batch.
LEMMA CallWritesOnce ==
    ASSUME PipelineInv, ContextInv, pc = "calling", Write \/ UNCHANGED written, UNCHANGED retrySafe
    PROVE  WrittenOnce'
  <1>1. CASE UNCHANGED written
    BY <1>1 DEF ContextInv, WrittenOnce
  <1>2. CASE Write
    <2>1. Segmented /\ OutputInv /\ FedInv
      BY BatchSegmented DEF PipelineInv, ContextInv
    <2>2. SUFFICES ASSUME ~retrySafe, NEW s \in SeqIds, NEW p \in DOMAIN written'[s]
                   PROVE  written'[s][p] = 1
      BY DEF WrittenOnce
    <2>3. calls = 0 /\ \A q \in DOMAIN written[s] : written[s][q] = 1
      BY <2>2 DEF PipelineInv, AttemptsInv, ContextInv, WrittenOnce
    <2>4. CASE s \in Scheduled
      <3>1. phase[s] # "ended"
        BY <2>4, ScheduledPhase DEF PipelineInv, ContextInv
      <3>2. DOMAIN written[s] = 0 .. FedLen(s) - 1
        BY <2>1, <2>3, <3>1 DEF FedInv
      <3> QED
        BY <1>2, <2>1, <2>2, <2>3, <2>4, <3>1, <3>2, WriteFills
    <2>5. CASE s \notin Scheduled
      BY <1>2, <2>1, <2>2, <2>3, <2>5, WriteElsewhere
    <2> QED
      BY <2>4, <2>5
  <1> QED
    BY <1>1, <1>2

-----------------------------------------------------------------------------
(* The actions, for what has been written                                  *)

LEMMA InitContext == Init => ContextInv
  <1> SUFFICES ASSUME Init PROVE ContextInv
    OBVIOUS
  <1>1. FedInv
    <2>1. /\ prompt \in [SeqIds -> Nat] /\ DOMAIN written = SeqIds
      BY PipelineAssumption DEF Init
    <2>2. ASSUME NEW s \in SeqIds
          PROVE  /\ phase[s] = "prefill" /\ generated[s] = 0 /\ FedLen(s) = 0
                 /\ DOMAIN written[s] = 0 .. -1
      BY DEF Init, FedLen
    <2>3. ASSUME NEW s \in SeqIds
          PROVE  /\ DOMAIN written[s] = 0 .. FedLen(s) - 1
                 /\ phase[s] = "prefill" => generated[s] = 0
                 /\ phase[s] = "decode" => generated[s] > 0
      <3>1. 0 - 1 = -1
        OBVIOUS
      <3> QED
        BY <2>2, <3>1
    <2> QED
      BY Zenon, <2>1, <2>3 DEF FedInv
  <1>2. BatchInv /\ WrittenOnce
    BY DEF Init, BatchInv, WrittenOnce
  <1> QED
    BY <1>1, <1>2 DEF ContextInv

\* An error leaves the sequences that its batch does not list as they were.
LEMMA FailKeepsContext ==
    ASSUME PipelineInv, ContextInv, NEW error, Fail(error),
           \/ pc = "building" /\ UNCHANGED written
           \/ pc = "calling" /\ (Write \/ UNCHANGED written)
    PROVE  ContextInv'
  <1>1. OutputInv /\ FedInv /\ BatchInv
    BY DEF PipelineInv, ContextInv
  <1>2. /\ DOMAIN written' = SeqIds
        /\ \A s \in SeqIds \ Scheduled : DOMAIN written'[s] = DOMAIN written[s]
    BY <1>1, CallWrites DEF FedInv
  <1>3. FedInv'
    <2>1. prompt' \in [SeqIds -> Nat]
      BY <1>1 DEF Fail, FedInv
    <2>2. ASSUME NEW s \in SeqIds, phase'[s] # "ended"
          PROVE  /\ DOMAIN written'[s] = 0 .. FedLen(s)' - 1
                 /\ phase'[s] = "prefill" => generated'[s] = 0
                 /\ phase'[s] = "decode" => generated'[s] > 0
      <3>1. s \notin Scheduled /\ phase'[s] = phase[s]
        BY <2>2 DEF Fail
      <3>2. FedLen(s)' = FedLen(s) /\ generated' = generated
        BY <3>1 DEF Fail, FedLen, ContextLen
      <3> QED
        BY <1>1, <1>2, <2>2, <3>1, <3>2 DEF FedInv
    <2> QED
      BY <1>2, <2>1, <2>2 DEF FedInv
  <1>4. BatchInv'
    BY DEF Fail, BatchInv
  <1>5. WrittenOnce'
    <2>1. UNCHANGED retrySafe
      BY DEF Fail
    <2>2. CASE UNCHANGED written
      BY <2>1, <2>2 DEF ContextInv, WrittenOnce
    <2> QED
      BY <2>1, <2>2, CallWritesOnce
  <1> QED
    BY <1>3, <1>4, <1>5 DEF ContextInv

\* An accepted answer goes on with every sequence of the batch.
LEMMA SuccessKeepsContext ==
    ASSUME PipelineInv, ContextInv, NEW answer \in Answers, Succeed(answer)
    PROVE  ContextInv'
  <1> DEFINE advanced == Range(SubSeq(answer.ids, 1, answer.tokens)) \cap SeqIds
  <1>1. OutputInv /\ FedInv /\ BatchInv /\ pc = "calling" /\ Write /\ UNCHANGED retrySafe
    BY DEF PipelineInv, ContextInv, Succeed, Call
  <1>2. advanced = Scheduled
    BY <1>1, AcceptedNamesBatch DEF Succeed
  <1>3. /\ generated' = [s \in SeqIds |-> generated[s] + (IF s \in advanced THEN 1 ELSE 0)]
        /\ phase' = [s \in SeqIds |->
                        IF s \notin advanced THEN phase[s]
                        ELSE IF generated'[s] >= MaxGenerated THEN "ended" ELSE "decode"]
        /\ pc' = "idle" /\ prompt' = prompt
    BY DEF Succeed
  <1> HIDE DEF advanced
  <1>4. FedInv'
    <2>1. prompt' \in [SeqIds -> Nat] /\ DOMAIN written' = SeqIds
      BY <1>1, <1>3, CallWrites DEF FedInv
    <2>2. ASSUME NEW s \in SeqIds, phase'[s] # "ended"
          PROVE  /\ DOMAIN written'[s] = 0 .. FedLen(s)' - 1
                 /\ phase'[s] = "prefill" => generated'[s] = 0
                 /\ phase'[s] = "decode" => generated'[s] > 0
      <3>1. prompt[s] \in Nat /\ generated[s] \in Nat
        BY <1>1 DEF OutputInv, FedInv
      <3>2. CASE s \in Scheduled
        <4>1. phase'[s] = "decode" /\ generated'[s] = generated[s] + 1
          BY <1>2, <1>3, <2>2, <3>2
        <4>2. FedLen(s)' = ContextLen(s)
          BY <1>3, <3>1, <4>1 DEF FedLen, ContextLen
        <4>3. DOMAIN written'[s] = 0 .. ContextLen(s) - 1
          BY <1>1, <3>2, CallWrites
        <4> QED
          BY <3>1, <4>1, <4>2, <4>3
      <3>3. CASE s \notin Scheduled
        <4>1. phase'[s] = phase[s] /\ generated'[s] = generated[s]
          BY <1>2, <1>3, <3>1, <3>3
        <4>2. FedLen(s)' = FedLen(s)
          BY <1>3, <4>1 DEF FedLen, ContextLen
        <4>3. DOMAIN written'[s] = DOMAIN written[s]
          BY <1>1, <3>3, CallWrites
        <4> QED
          BY <1>1, <2>2, <3>3, <4>1, <4>2, <4>3 DEF FedInv
      <3> QED
        BY <3>2, <3>3
    <2> QED
      BY <2>1, <2>2 DEF FedInv
  <1>5. BatchInv'
    BY <1>3 DEF BatchInv
  <1>6. WrittenOnce'
    BY <1>1, CallWritesOnce
  <1> QED
    BY <1>4, <1>5, <1>6 DEF ContextInv

\* A retry has the batch before it; what the call wrote is all of the contexts.
LEMMA RetryKeepsContext ==
    ASSUME PipelineInv, ContextInv, Retry
    PROVE  ContextInv'
  <1>1. /\ OutputInv /\ FedInv /\ BatchInv /\ pc = "calling" /\ calls \in Nat
        /\ Write \/ UNCHANGED written
        /\ UNCHANGED <<retrySafe, prompt, generated, phase, output, pc>> /\ calls' = calls + 1
    BY DEF PipelineInv, AttemptsInv, ContextInv, Retry, Call
  <1>2. Scheduled' = Scheduled
    BY <1>1 DEF Scheduled
  <1>3. FedInv'
    <2>1. prompt' \in [SeqIds -> Nat] /\ DOMAIN written' = SeqIds
      BY <1>1, CallWrites DEF FedInv
    <2>2. ASSUME NEW s \in SeqIds, phase'[s] # "ended"
          PROVE  /\ \/ DOMAIN written'[s] = 0 .. FedLen(s)' - 1
                    \/ s \in Scheduled' /\ DOMAIN written'[s] = 0 .. ContextLen(s)' - 1
                 /\ phase'[s] = "prefill" => generated'[s] = 0
                 /\ phase'[s] = "decode" => generated'[s] > 0
      <3>1. ContextLen(s)' = ContextLen(s) /\ FedLen(s)' = FedLen(s)
        BY <1>1 DEF FedLen, ContextLen
      <3>2. CASE s \in Scheduled
        BY <1>1, <1>2, <2>2, <3>1, <3>2, CallWrites DEF FedInv
      <3>3. CASE s \notin Scheduled
        BY <1>1, <2>2, <3>1, <3>3, CallWrites DEF FedInv
      <3> QED
        BY <3>2, <3>3
    <2> QED
      BY <1>1, <2>1, <2>2 DEF FedInv
  <1>4. BatchInv'
    <2>1. Build(output)' = Build(output)
      BY <1>1 DEF Build, PrefillTokens, DecodeTokens, PrefillPositions, DecodePositions,
                  NumBlocksOf, ContextLen
    <2>2. ValidShape(Build(output)')
      BY <1>1, <2>1 DEF BatchInv
    <2> QED
      BY <1>1, <2>2 DEF BatchInv, ValidShape
  <1>5. WrittenOnce'
    BY <1>1, CallWritesOnce
  <1> QED
    BY <1>3, <1>4, <1>5 DEF ContextInv

\* Where the batch is made or checked nothing is written.
LEMMA PreparationKeepsContext ==
    ASSUME ContextInv,
           \/ \E prefills, decodes \in Orders : Schedule(prefills, decodes)
           \/ Prepare \/ UNCHANGED vars
    PROVE  ContextInv'
  <1>1. UNCHANGED <<retrySafe, prompt, generated, phase, written>>
    BY DEF Schedule, Prepare, vars
  <1>2. /\ UNCHANGED <<output, calls>> /\ (UNCHANGED pc \/ pc = "building")
        \/ pc = "idle"
    BY DEF Schedule, Prepare, vars
  <1>3. FedInv'
    <2>1. ASSUME NEW s \in SeqIds PROVE ContextLen(s)' = ContextLen(s) /\ FedLen(s)' = FedLen(s)
      BY <1>1 DEF FedLen, ContextLen
    <2>2. output' = output => Scheduled' = Scheduled
      BY DEF Scheduled
    <2> QED
      BY <1>1, <1>2, <2>1, <2>2 DEF ContextInv, FedInv
  <1>4. BatchInv'
    <2>1. ASSUME NEW prefills \in Orders, NEW decodes \in Orders, Schedule(prefills, decodes)
          PROVE  BatchInv'
      BY <1>1, <2>1 DEF Schedule, Orders, BatchInv
    <2>2. CASE Prepare \/ UNCHANGED vars
      <3>1. UNCHANGED <<output, prompt, generated, phase>>
        BY <2>2 DEF Prepare, vars
      <3>2. Build(output)' = Build(output)
        BY <3>1 DEF Build, PrefillTokens, DecodeTokens, PrefillPositions, DecodePositions,
                    NumBlocksOf, ContextLen
      <3>3. pc' = "calling" => ValidShape(Build(output)')
        BY <2>2, <3>2 DEF Prepare, vars, ContextInv, BatchInv
      <3>4. pc' # "idle" => pc # "idle"
        BY <2>2 DEF Prepare, vars
      <3> QED
        BY <3>1, <3>3, <3>4 DEF ContextInv, BatchInv, ValidShape
    <2> QED
      BY <2>1, <2>2
  <1>5. WrittenOnce'
    BY <1>1 DEF ContextInv, WrittenOnce
  <1> QED
    BY <1>3, <1>4, <1>5 DEF ContextInv

LEMMA ContextKept ==
    ASSUME PipelineInv, ContextInv, [Next]_vars
    PROVE  ContextInv'
  <1>1. CASE \/ \E prefills, decodes \in Orders : Schedule(prefills, decodes)
             \/ Prepare \/ UNCHANGED vars
    BY <1>1, PreparationKeepsContext
  <1>2. CASE RejectShape
    BY <1>2, FailKeepsContext DEF RejectShape
  <1>3. ASSUME NEW answer \in Answers, RejectAnswer(answer) PROVE ContextInv'
    BY <1>3, FailKeepsContext DEF RejectAnswer, Call
  <1>4. CASE TimeOut
    BY <1>4, FailKeepsContext DEF TimeOut, Call
  <1>5. CASE BackendError
    BY <1>5, FailKeepsContext DEF BackendError, Call
  <1> QED
    BY <1>1, <1>2, <1>3, <1>4, <1>5, SuccessKeepsContext, RetryKeepsContext DEF Next, Execute

LEMMA SpecContext == Spec => [](PipelineInv /\ ContextInv)
  <1>1. PipelineInv /\ ContextInv /\ [Next]_vars => (PipelineInv /\ ContextInv)'
    BY AttemptsKept, OutputKept, ContextKept DEF PipelineInv
  <1> QED
    BY <1>1, InitPipeline, InitContext, PTL DEF Spec

\* build_execution_batch: whatever the scheduler puts together, and whatever
\* batches came before and failed, the tokens a batch feeds for a sequence are
\* the ones of its context from where it was left to its end, side by side and
\* at their own positions.
THEOREM BatchesContinueContexts == Spec => []ContinuesContext
  <1>1. PipelineInv /\ ContextInv => ContinuesContext
    <2> SUFFICES ASSUME PipelineInv, ContextInv, pc = "calling", calls = 0
                 PROVE  ContinuesContext
      BY DEF ContinuesContext
    <2>1. OutputInv /\ FedInv /\ BatchInv /\ Segmented
      BY BatchSegmented DEF PipelineInv, ContextInv
    <2>2. \A i \in DOMAIN Tokens : Tokens[i][2] = Build(output).positions[i]
      BY <2>1 DEF Segmented
    <2>3. ASSUME NEW s \in Scheduled PROVE Cardinality(DOMAIN written[s]) = FedLen(s)
      <3>1. s \in SeqIds /\ phase[s] # "ended"
        BY <2>1, ScheduledPhase
      <3>2. DOMAIN written[s] = 0 .. FedLen(s) - 1
        BY <2>1, <3>1 DEF FedInv
      <3>3. FedLen(s) \in Nat
        BY <2>1, <3>1, SequencePart
      <3> HIDE DEF FedLen
      <3>4. Cardinality(0 .. FedLen(s) - 1) = FedLen(s)
        BY <3>3, FS_Interval
      <3> QED
        BY <3>2, <3>4
    <2>4. ASSUME NEW s \in Scheduled
          PROVE  \E first \in DOMAIN Tokens :
                    /\ PlacesOf(s)
                          = first .. first + (ContextLen(s) - Cardinality(DOMAIN written[s])) - 1
                    /\ \A i \in PlacesOf(s) :
                          Tokens[i] = Token(s, Cardinality(DOMAIN written[s]) + (i - first))
      <3>1. \E first \in DOMAIN Tokens :
                    /\ PlacesOf(s) = first .. first + (ContextLen(s) - FedLen(s)) - 1
                    /\ \A i \in PlacesOf(s) : Tokens[i] = Token(s, FedLen(s) + (i - first))
        BY Zenon, <2>1 DEF Segmented
      <3>2. Cardinality(DOMAIN written[s]) = FedLen(s)
        BY <2>3
      <3> HIDE DEF FedLen, Segmented
      <3> QED
        BY Zenon, <3>1, <3>2
    <2> QED
      BY Zenon, <2>2, <2>4 DEF ContinuesContext, Tokens, PlacesOf
  <1> QED
    BY <1>1, SpecContext, PTL

\* execute with a backend that is not safe to retry: whatever timed out after
\* it was applied, no later batch writes a position of a context again.
THEOREM PositionsAreWrittenOnce == Spec => []WrittenOnce
  <1>1. PipelineInv /\ ContextInv => WrittenOnce
    BY DEF ContextInv
  <1> QED
    BY <1>1, SpecContext, PTL
=============================================================================
