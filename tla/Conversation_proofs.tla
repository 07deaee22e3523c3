-------------------------- MODULE Conversation_proofs --------------------------
(***************************************************************************)
(* Proofs about one request from end to end, for every set of bodies and   *)
(* command lines.  StatusInv is about what the checks of a body add up to; *)
(* StreamInv says which payloads the client has read and that the bytes    *)
(* under way are the frames of the others, wherever the network cut them.  *)
(***************************************************************************)
EXTENDS Conversation, SequenceFacts, FiniteSetTheorems

-----------------------------------------------------------------------------
(* The checks                                                              *)

\* The first check that fails decides.
LEMMA FirstFails ==
    ASSUME NEW checks, NEW ok, NEW n \in Nat, DOMAIN checks = 1 .. n
    PROVE  \/ /\ \A i \in 1 .. n : ~checks[i][1]
              /\ FirstFailing(checks, ok) = ok
           \/ \E i \in 1 .. n : /\ checks[i][1]
                                /\ \A j \in 1 .. n : j < i => ~checks[j][1]
                                /\ FirstFailing(checks, ok) = checks[i][2]
  <1> DEFINE failing == {i \in 1 .. n : checks[i][1]}
  <1>1. FirstFailing(checks, ok) = IF failing = {} THEN ok ELSE checks[Min(failing)][2]
    BY DEF FirstFailing
  <1>2. CASE failing = {}
    BY <1>1, <1>2
  <1>3. CASE failing # {}
    <2>0. failing \subseteq Nat
      OBVIOUS
    <2>1. PICK x \in failing : \A y \in failing : x <= y
      <3> HIDE DEF failing
      <3> QED
        BY <1>3, <2>0, LeastElement
    <2>2. Min(failing) \in failing /\ \A y \in failing : Min(failing) <= y
      BY <2>1 DEF Min
    <2>3. PICK i \in 1 .. n : i = Min(failing)
      BY <2>2
    <2>4. \A j \in 1 .. n : j < i => ~checks[j][1]
      BY <2>2, <2>3
    <2> QED
      BY <1>1, <1>3, <2>2, <2>3, <2>4
  <1> QED
    BY <1>2, <1>3

\* An Option holds nothing, or its one value.
LEMMA OrIs ==
    ASSUME NEW o, NEW d, IsOption(o)
    PROVE  \/ o = {} /\ Or(o, d) = d
           \/ \E v \in Int : o = {v} /\ Or(o, d) = v
  <1>1. CASE o = {}
    BY <1>1 DEF Or
  <1>2. ASSUME NEW v \in o PROVE o = {v} /\ Or(o, d) = v /\ v \in Int
    BY <1>2 DEF IsOption, Or
  <1> QED
    BY <1>1, <1>2

LEMMA InvalidIs ==
    ASSUME NEW p
    PROVE  Invalid(p) = "ok" <=>
              /\ ~(p.maxTokens = 0)
              /\ ~(p.temperature < 0 \/ p.temperature > 20)
              /\ ~(p.topP <= 0 \/ p.topP > 10)
              /\ ~(p.stop > MaxStops)
              /\ ~(\E k \in p.logprobs : k > MaxLogprobs)
  <1> DEFINE a == p.maxTokens = 0
             b == p.temperature < 0 \/ p.temperature > 20
             c == p.topP <= 0 \/ p.topP > 10
             d == p.stop > MaxStops
             e == \E k \in p.logprobs : k > MaxLogprobs
             checks == <<<<a, "InvalidMaxTokens">>, <<b, "InvalidTemperature">>,
                         <<c, "InvalidTopP">>, <<d, "TooManyStopSequences">>,
                         <<e, "InvalidLogprobs">>>>
  <1>1. Invalid(p) = FirstFailing(checks, "ok")
    BY DEF Invalid
  <1> HIDE DEF a, b, c, d, e
  <1>2. DOMAIN checks = 1 .. 5
    OBVIOUS
  <1>3. /\ checks[1] = <<a, "InvalidMaxTokens">> /\ checks[2] = <<b, "InvalidTemperature">>
        /\ checks[3] = <<c, "InvalidTopP">> /\ checks[4] = <<d, "TooManyStopSequences">>
        /\ checks[5] = <<e, "InvalidLogprobs">>
    OBVIOUS
  <1> HIDE DEF checks
  <1>4. \A i \in 1 .. 5 : checks[i][2] # "ok"
    <2> SUFFICES ASSUME NEW i \in 1 .. 5 PROVE checks[i][2] # "ok"
      OBVIOUS
    <2>1. i = 1 \/ i = 2 \/ i = 3 \/ i = 4 \/ i = 5
      OBVIOUS
    <2> QED
      BY <1>3, <2>1
  <1>5. (\A i \in 1 .. 5 : ~checks[i][1]) <=> ~a /\ ~b /\ ~c /\ ~d /\ ~e
    <2>1. /\ 1 \in 1 .. 5 /\ 2 \in 1 .. 5 /\ 3 \in 1 .. 5 /\ 4 \in 1 .. 5 /\ 5 \in 1 .. 5
          /\ \A i \in 1 .. 5 : i = 1 \/ i = 2 \/ i = 3 \/ i = 4 \/ i = 5
      OBVIOUS
    <2>2. /\ (checks[1][1] <=> a) /\ (checks[2][1] <=> b) /\ (checks[3][1] <=> c)
          /\ (checks[4][1] <=> d) /\ (checks[5][1] <=> e)
      BY <1>3
    <2> QED
      BY <2>1, <2>2
  <1>6. Invalid(p) = "ok" <=> \A i \in 1 .. 5 : ~checks[i][1]
    <2>1. 5 \in Nat
      OBVIOUS
    <2>2. \/ (\A i \in 1 .. 5 : ~checks[i][1]) /\ FirstFailing(checks, "ok") = "ok"
          \/ \E i \in 1 .. 5 : /\ checks[i][1]
                               /\ \A j \in 1 .. 5 : j < i => ~checks[j][1]
                               /\ FirstFailing(checks, "ok") = checks[i][2]
      BY ZenonT(60), <1>2, <2>1, FirstFails
    <2> QED
      BY Zenon, <1>1, <1>4, <2>2
  <1> QED
    BY <1>5, <1>6 DEF a, b, c, d, e

\* What the status of prepare_* says of a body.
PrepareSays(b, c) ==
    \/ /\ PrepareStatus(b, c) = 200
       /\ ~b.malformed /\ ~RejectUnsupported(b)
       /\ ~(b.kind = "chat" /\ b.messages = <<>>)
       /\ ~(b.kind = "chat" /\ \E i \in DOMAIN b.messages : b.messages[i].role \notin Roles)
       /\ ~Blank(b)
       /\ ~(\E m \in b.model : m # c.model)
       /\ ~LogprobsFail(b)
       /\ ~(Invalid(GenerationParams(b)) # "ok")
       /\ ~(CandidateCount(b) = 0 \/ CandidateCount(b) > MaxCandidates)
    \/ PrepareStatus(b, c) = 404 /\ \E m \in b.model : m # c.model
    \/ /\ PrepareStatus(b, c) = 400
       /\ \/ b.malformed \/ RejectUnsupported(b)
          \/ b.kind = "chat" /\ b.messages = <<>>
          \/ b.kind = "chat" /\ \E i \in DOMAIN b.messages : b.messages[i].role \notin Roles
          \/ Blank(b) \/ LogprobsFail(b)
          \/ Invalid(GenerationParams(b)) # "ok"
          \/ CandidateCount(b) = 0 \/ CandidateCount(b) > MaxCandidates

LEMMA PrepareIs ==
    ASSUME NEW b, NEW c
    PROVE  PrepareSays(b, c)
  <1> DEFINE c1 == b.malformed
             c2 == RejectUnsupported(b)
             c3 == b.kind = "chat" /\ b.messages = <<>>
             c4 == b.kind = "chat" /\ \E i \in DOMAIN b.messages : b.messages[i].role \notin Roles
             c5 == Blank(b)
             c6 == \E m \in b.model : m # c.model
             c7 == LogprobsFail(b)
             c8 == Invalid(GenerationParams(b)) # "ok"
             c9 == CandidateCount(b) = 0 \/ CandidateCount(b) > MaxCandidates
             checks == <<<<c1, 400>>,
                         <<c2, 400>>,
                         <<c3, 400>>,
                         <<c4, 400>>,
                         <<c5, 400>>,
                         <<c6, 404>>,
                         <<c7, 400>>,
                         <<c8, 400>>,
                         <<c9, 400>>>>
  <1>1. PrepareStatus(b, c) = FirstFailing(checks, 200)
    BY DEF PrepareStatus
  <1> HIDE DEF c1, c2, c3, c4, c5, c6, c7, c8, c9
  <1>2. DOMAIN checks = 1 .. 9 /\ 9 \in Nat
    OBVIOUS
  <1>3. /\ checks[1] = <<c1, 400>>
        /\ checks[2] = <<c2, 400>>
        /\ checks[3] = <<c3, 400>>
        /\ checks[4] = <<c4, 400>>
        /\ checks[5] = <<c5, 400>>
        /\ checks[6] = <<c6, 404>>
        /\ checks[7] = <<c7, 400>>
        /\ checks[8] = <<c8, 400>>
        /\ checks[9] = <<c9, 400>>
    OBVIOUS
  <1> HIDE DEF checks
  <1>4. \A i \in 1 .. 9 : i = 1 \/ i = 2 \/ i = 3 \/ i = 4 \/ i = 5 \/ i = 6 \/ i = 7 \/ i = 8 \/ i = 9
    OBVIOUS
  <1>5. /\ (checks[1][1] <=> c1) /\ checks[1][2] = 400
        /\ (checks[2][1] <=> c2) /\ checks[2][2] = 400
        /\ (checks[3][1] <=> c3) /\ checks[3][2] = 400
        /\ (checks[4][1] <=> c4) /\ checks[4][2] = 400
        /\ (checks[5][1] <=> c5) /\ checks[5][2] = 400
        /\ (checks[6][1] <=> c6) /\ checks[6][2] = 404
        /\ (checks[7][1] <=> c7) /\ checks[7][2] = 400
        /\ (checks[8][1] <=> c8) /\ checks[8][2] = 400
        /\ (checks[9][1] <=> c9) /\ checks[9][2] = 400
    BY <1>3
  <1>6. CASE (\A i \in 1 .. 9 : ~checks[i][1]) /\ PrepareStatus(b, c) = 200
    <2>1. ~c1 /\ ~c2 /\ ~c3 /\ ~c4 /\ ~c5 /\ ~c6 /\ ~c7 /\ ~c8 /\ ~c9
      BY <1>5, <1>6
    <2> QED
      BY <1>6, <2>1 DEF PrepareSays, c1, c2, c3, c4, c5, c6, c7, c8, c9
  <1>7. ASSUME NEW i \in 1 .. 9, checks[i][1], PrepareStatus(b, c) = checks[i][2],
               \A j \in 1 .. 9 : j < i => ~checks[j][1]
        PROVE  PrepareSays(b, c)
    <2>1. \/ PrepareStatus(b, c) = 400 /\ c1
          \/ PrepareStatus(b, c) = 400 /\ c2
          \/ PrepareStatus(b, c) = 400 /\ c3
          \/ PrepareStatus(b, c) = 400 /\ c4
          \/ PrepareStatus(b, c) = 400 /\ c5
          \/ PrepareStatus(b, c) = 404 /\ c6
          \/ PrepareStatus(b, c) = 400 /\ c7
          \/ PrepareStatus(b, c) = 400 /\ c8
          \/ PrepareStatus(b, c) = 400 /\ c9
      BY <1>4, <1>5, <1>7
    <2> QED
      BY <2>1 DEF PrepareSays, c1, c2, c3, c4, c5, c6, c7, c8, c9
  <1>8. \/ (\A i \in 1 .. 9 : ~checks[i][1]) /\ FirstFailing(checks, 200) = 200
        \/ \E i \in 1 .. 9 : /\ checks[i][1]
                             /\ \A j \in 1 .. 9 : j < i => ~checks[j][1]
                             /\ FirstFailing(checks, 200) = checks[i][2]
    BY ZenonT(60), <1>2, FirstFails
  <1> QED
    BY Zenon, <1>1, <1>6, <1>7, <1>8

\* What the answer of submit_request says of a body that was prepared, whose
\* prompt has n tokens.
SubmitSays(b, c, n, fails, load) ==
    LET p == GenerationParams(b)
        longest == c.sizes["max_model_len"]
        error == SubmitError(b, c, n, fails, load)
        fits == IsGreedy(p) /\ ~(PromptLength(b, c.tokenizer) = 0)
                   /\ ~(n > longest) /\ ~(n + p.maxTokens > longest)
    IN  \/ error = "ok" /\ fits
        \/ error \in {"MemoryPressure", "MaxConcurrentSequencesReached"} /\ fits /\ load # "free"
        \/ error = "Tokenization"
        \/ error = "UnsupportedGenerationMode" /\ ~IsGreedy(p)
        \/ error = "EmptyInput" /\ PromptLength(b, c.tokenizer) = 0
        \/ error = "InputTooLong" /\ n > longest
        \/ error = "TotalLengthTooLong" /\ n + p.maxTokens > longest

LEMMA SubmitIs ==
    ASSUME NEW b, NEW c, NEW n, NEW fails, NEW load, Invalid(GenerationParams(b)) = "ok"
    PROVE  SubmitSays(b, c, n, fails, load)
  <1> DEFINE c1 == Invalid(GenerationParams(b)) # "ok"
             c2 == ~IsGreedy(GenerationParams(b))
             c3 == PromptLength(b, c.tokenizer) = 0
             c4 == fails
             c5 == n > c.sizes["max_model_len"]
             c6 == n + GenerationParams(b).maxTokens > c.sizes["max_model_len"]
             c7 == load = "pressure"
             c8 == load = "full"
             checks == <<<<c1, Invalid(GenerationParams(b))>>,
                         <<c2, "UnsupportedGenerationMode">>,
                         <<c3, "EmptyInput">>,
                         <<c4, "Tokenization">>,
                         <<c5, "InputTooLong">>,
                         <<c6, "TotalLengthTooLong">>,
                         <<c7, "MemoryPressure">>,
                         <<c8, "MaxConcurrentSequencesReached">>>>
  <1>1. SubmitError(b, c, n, fails, load) = FirstFailing(checks, "ok")
    BY DEF SubmitError
  <1> HIDE DEF c1, c2, c3, c4, c5, c6, c7, c8
  <1>2. DOMAIN checks = 1 .. 8 /\ 8 \in Nat
    OBVIOUS
  <1>3. /\ checks[1] = <<c1, Invalid(GenerationParams(b))>>
        /\ checks[2] = <<c2, "UnsupportedGenerationMode">>
        /\ checks[3] = <<c3, "EmptyInput">>
        /\ checks[4] = <<c4, "Tokenization">>
        /\ checks[5] = <<c5, "InputTooLong">>
        /\ checks[6] = <<c6, "TotalLengthTooLong">>
        /\ checks[7] = <<c7, "MemoryPressure">>
        /\ checks[8] = <<c8, "MaxConcurrentSequencesReached">>
    OBVIOUS
  <1> HIDE DEF checks
  <1>4. \A i \in 1 .. 8 : i = 1 \/ i = 2 \/ i = 3 \/ i = 4 \/ i = 5 \/ i = 6 \/ i = 7 \/ i = 8
    OBVIOUS
  <1>5. /\ (checks[1][1] <=> c1) /\ checks[1][2] = Invalid(GenerationParams(b))
        /\ (checks[2][1] <=> c2) /\ checks[2][2] = "UnsupportedGenerationMode"
        /\ (checks[3][1] <=> c3) /\ checks[3][2] = "EmptyInput"
        /\ (checks[4][1] <=> c4) /\ checks[4][2] = "Tokenization"
        /\ (checks[5][1] <=> c5) /\ checks[5][2] = "InputTooLong"
        /\ (checks[6][1] <=> c6) /\ checks[6][2] = "TotalLengthTooLong"
        /\ (checks[7][1] <=> c7) /\ checks[7][2] = "MemoryPressure"
        /\ (checks[8][1] <=> c8) /\ checks[8][2] = "MaxConcurrentSequencesReached"
    BY <1>3
  <1>6. CASE (\A i \in 1 .. 8 : ~checks[i][1]) /\ SubmitError(b, c, n, fails, load) = "ok"
    <2>1. ~c1 /\ ~c2 /\ ~c3 /\ ~c4 /\ ~c5 /\ ~c6 /\ ~c7 /\ ~c8
      BY <1>5, <1>6
    <2> QED
      BY <1>6, <2>1 DEF SubmitSays, c1, c2, c3, c4, c5, c6, c7, c8
  <1>7. ASSUME NEW i \in 1 .. 8, checks[i][1], SubmitError(b, c, n, fails, load) = checks[i][2],
               \A j \in 1 .. 8 : j < i => ~checks[j][1]
        PROVE  SubmitSays(b, c, n, fails, load)
    <2>1. \/ SubmitError(b, c, n, fails, load) = Invalid(GenerationParams(b)) /\ c1
          \/ SubmitError(b, c, n, fails, load) = "UnsupportedGenerationMode" /\ ~c1 /\ c2
          \/ SubmitError(b, c, n, fails, load) = "EmptyInput" /\ ~c1 /\ ~c2 /\ c3
          \/ SubmitError(b, c, n, fails, load) = "Tokenization" /\ ~c1 /\ ~c2 /\ ~c3 /\ c4
          \/ SubmitError(b, c, n, fails, load) = "InputTooLong" /\ ~c1 /\ ~c2 /\ ~c3 /\ ~c4 /\ c5
          \/ SubmitError(b, c, n, fails, load) = "TotalLengthTooLong" /\ ~c1 /\ ~c2 /\ ~c3 /\ ~c4 /\ ~c5 /\ c6
          \/ SubmitError(b, c, n, fails, load) = "MemoryPressure" /\ ~c1 /\ ~c2 /\ ~c3 /\ ~c4 /\ ~c5 /\ ~c6 /\ c7
          \/ SubmitError(b, c, n, fails, load) = "MaxConcurrentSequencesReached" /\ ~c1 /\ ~c2 /\ ~c3 /\ ~c4 /\ ~c5 /\ ~c6 /\ ~c7 /\ c8
      BY <1>4, <1>5, <1>7
    <2> QED
      BY <2>1 DEF SubmitSays, c1, c2, c3, c4, c5, c6, c7, c8
  <1>8. \/ (\A i \in 1 .. 8 : ~checks[i][1]) /\ FirstFailing(checks, "ok") = "ok"
        \/ \E i \in 1 .. 8 : /\ checks[i][1]
                             /\ \A j \in 1 .. 8 : j < i => ~checks[j][1]
                             /\ FirstFailing(checks, "ok") = checks[i][2]
    BY ZenonT(60), <1>2, FirstFails
  <1> QED
    BY Zenon, <1>1, <1>6, <1>7, <1>8

-----------------------------------------------------------------------------
(* The prompt of a chat                                                    *)

Sums(f, g, n) == f = [i \in 0 .. n |-> IF i = 0 THEN 0 ELSE f[i - 1] + g[i]]

LEMMA SumsExist ==
    ASSUME NEW g, NEW n \in Nat
    PROVE  \E f : Sums(f, g, n)
  <1> DEFINE G == {k \in Nat : \E f : Sums(f, g, k)}
  <1>1. 0 \in G
    <2>1. Sums([i \in 0 .. 0 |-> 0], g, 0)
      BY DEF Sums
    <2> QED
      BY <2>1
  <1>2. ASSUME NEW k \in Nat, k \in G PROVE k + 1 \in G
    <2>1. PICK f : Sums(f, g, k)
      BY <1>2
    <2> DEFINE h == [i \in 0 .. k + 1 |-> IF i <= k THEN f[i] ELSE f[k] + g[i]]
    <2>2. ASSUME NEW i \in 0 .. k + 1
          PROVE  h[i] = IF i = 0 THEN 0 ELSE h[i - 1] + g[i]
      <3>1. CASE i <= k
        <4>1. i \in 0 .. k /\ (i # 0 => i - 1 \in 0 .. k + 1 /\ i - 1 <= k)
          BY <3>1
        <4>2. f[i] = IF i = 0 THEN 0 ELSE f[i - 1] + g[i]
          BY Zenon, <2>1, <4>1 DEF Sums
        <4> QED
          BY <4>1, <4>2
      <3>2. CASE i = k + 1
        BY <3>2
      <3> QED
        BY <3>1, <3>2
    <2>3. Sums(h, g, k + 1)
      BY <2>2 DEF Sums
    <2> QED
      BY <2>3
  <1> HIDE DEF G
  <1>3. Nat \subseteq G
    BY <1>1, <1>2, NatInduct
  <1> QED
    BY <1>3 DEF G

LEMMA SumsPositive ==
    ASSUME NEW n \in Nat \ {0}, NEW f, NEW g, Sums(f, g, n),
           \A i \in 1 .. n : g[i] \in Nat \ {0}
    PROVE  f[n] \in Nat \ {0}
  <1> DEFINE G == {k \in Nat : k \in 0 .. n => f[k] \in Nat}
  <1>1. \A i \in 0 .. n : f[i] = IF i = 0 THEN 0 ELSE f[i - 1] + g[i]
    BY Zenon DEF Sums
  <1>2. 0 \in G
    BY <1>1
  <1>3. ASSUME NEW k \in Nat, k \in G PROVE k + 1 \in G
    <2>1. SUFFICES ASSUME k + 1 \in 0 .. n PROVE f[k + 1] \in Nat
      OBVIOUS
    <2>2. f[k + 1] = f[k] + g[k + 1] /\ k + 1 \in 1 .. n
      <3>1. (k + 1) - 1 = k /\ k + 1 # 0
        OBVIOUS
      <3> QED
        BY <1>1, <2>1, <3>1
    <2> QED
      BY <1>3, <2>1, <2>2
  <1>4. n - 1 \in G
    <2> HIDE DEF G
    <2>1. Nat \subseteq G
      BY <1>2, <1>3, NatInduct
    <2> QED
      BY <2>1
  <1>5. f[n] = f[n - 1] + g[n] /\ f[n - 1] \in Nat
    BY <1>1, <1>4
  <1> QED
    BY <1>5

\* A chat has its roles in its prompt, whatever its messages say.
LEMMA ChatNotEmpty ==
    ASSUME NEW messages \in Seq([role : STRING, chars : Nat]), messages # <<>>, NEW tokenizer
    PROVE  ChatPromptLength(messages, tokenizer) \in Nat \ {0}
  <1> DEFINE n == Len(messages)
             overhead == IF tokenizer = "simple" THEN 2 ELSE 12 + 1 + 10
             Line(m) == RoleLength(m.role) + overhead + m.chars
             g == [i \in 1 .. n |-> Line(messages[i])]
             u == CHOOSE u : u = [i \in 0 .. n |->
                                     IF i = 0 THEN 0 ELSE u[i - 1] + Line(messages[i])]
  <1>1. n \in Nat \ {0} /\ \A i \in 1 .. n : messages[i].chars \in Nat
    <2> DEFINE M == [role : STRING, chars : Nat]
    <2>1. \A m \in M : m.chars \in Nat
      OBVIOUS
    <2>2. messages \in Seq(M)
      OBVIOUS
    <2> HIDE DEF M
    <2>3. n \in Nat \ {0} /\ \A i \in 1 .. n : messages[i] \in M
      BY <2>2
    <2> QED
      BY <2>1, <2>3
  <1>2. overhead \in Nat /\ \A role : RoleLength(role) \in Nat \ {0}
    BY DEF RoleLength
  <1>3. \A i \in 1 .. n : g[i] \in Nat \ {0}
    <2> HIDE DEF overhead, n
    <2> QED
      BY <1>1, <1>2
  <1>4. ASSUME NEW f
        PROVE  (f = [i \in 0 .. n |-> IF i = 0 THEN 0 ELSE f[i - 1] + Line(messages[i])])
                  <=> Sums(f, g, n)
    <2>1. ASSUME NEW i \in 0 .. n
          PROVE  (IF i = 0 THEN 0 ELSE f[i - 1] + Line(messages[i]))
                    = (IF i = 0 THEN 0 ELSE f[i - 1] + g[i])
      <3>1. CASE i = 0
        BY <3>1
      <3>2. CASE i # 0
        <4>1. i \in 1 .. n
          BY <1>1, <3>2
        <4>2. g[i] = Line(messages[i])
          BY <4>1
        <4> QED
          BY Zenon, <3>2, <4>2
      <3> QED
        BY <3>1, <3>2
    <2> HIDE DEF g, n, Line
    <2> QED
      BY <2>1 DEF Sums
  <1>5. Sums(u, g, n)
    <2>1. \E f : Sums(f, g, n)
      BY <1>1, SumsExist
    <2>2. \E f : f = [i \in 0 .. n |-> IF i = 0 THEN 0 ELSE f[i - 1] + Line(messages[i])]
      BY <1>4, <2>1
    <2>3. u = [i \in 0 .. n |-> IF i = 0 THEN 0 ELSE u[i - 1] + Line(messages[i])]
      BY <2>2
    <2> QED
      BY <1>4, <2>3
  <1>6. ChatPromptLength(messages, tokenizer)
           = IF tokenizer = "simple" THEN u[n] + n - 1 ELSE u[n] + n + 12 + 9
    BY DEF ChatPromptLength
  <1> HIDE DEF u, n, g
  <1>7. u[n] \in Nat \ {0}
    BY <1>1, <1>3, <1>5, SumsPositive
  <1>8. u[n] + n - 1 \in Nat \ {0} /\ u[n] + n + 12 + 9 \in Nat \ {0}
    BY <1>1, <1>7
  <1> QED
    BY Zenon, <1>6, <1>8

-----------------------------------------------------------------------------
(* What the checks of a body add up to                                     *)

\* The parameters that a body becomes, with their defaults.
LEMMA ParamsOf ==
    ASSUME NEW b \in Bodies
    PROVE  LET p == GenerationParams(b)
           IN  /\ p.maxTokens \in Nat /\ p.temperature \in Int /\ p.topP \in Int
               /\ p.stop = b.stop /\ p.logprobs = b.logprobs \ {0}
               /\ p.maxTokens = Or(b.max_tokens, 16)
               /\ p.maxTokens = 0 <=> 0 \in b.max_tokens
               /\ p.temperature = 0 <=> b.temperature \subseteq {0}
               /\ p.topP = 10 <=> b.top_p \subseteq {10}
               /\ CandidateCount(b) \in Nat
               /\ CandidateCount(b) \in 1 .. MaxCandidates <=> b.n \subseteq 1 .. MaxCandidates
  <1> DEFINE p == GenerationParams(b)
  <1>1. /\ IsOption(b.max_tokens) /\ IsOption(b.temperature) /\ IsOption(b.top_p) /\ IsOption(b.n)
        /\ b.max_tokens \subseteq Nat /\ b.n \subseteq Nat
    BY ConversationAssumption
  <1>2. /\ p.maxTokens = Or(b.max_tokens, 16) /\ p.temperature = Or(b.temperature, 0)
        /\ p.topP = Or(b.top_p, 10) /\ p.stop = b.stop /\ p.logprobs = b.logprobs \ {0}
    BY DEF GenerationParams, Logprobs
  <1>3. Or(b.max_tokens, 16) \in Nat /\ (Or(b.max_tokens, 16) = 0 <=> 0 \in b.max_tokens)
    BY <1>1, OrIs
  <1>4. Or(b.temperature, 0) \in Int /\ (Or(b.temperature, 0) = 0 <=> b.temperature \subseteq {0})
    BY <1>1, OrIs
  <1>5. Or(b.top_p, 10) \in Int /\ (Or(b.top_p, 10) = 10 <=> b.top_p \subseteq {10})
    BY <1>1, OrIs
  <1>6. /\ Or(b.n, 1) \in Nat
        /\ Or(b.n, 1) \in 1 .. MaxCandidates <=> b.n \subseteq 1 .. MaxCandidates
    BY <1>1, OrIs, RequestsAssumption
  <1> HIDE DEF p
  <1> QED
    BY <1>2, <1>3, <1>4, <1>5, <1>6 DEF p, CandidateCount

LEMMA PrepareTruthful ==
    ASSUME body \in Bodies
    PROVE  LET code == PrepareStatus(body, config)
           IN  /\ code \in {200, 400, 404}
               /\ code = 404 => ~ModelServed
               /\ code = 400 => ~ParamsAllowed
               /\ code = 200 =>
                     /\ ModelServed
                     /\ IsGreedy(GenerationParams(body)) => ParamsAllowed
                     /\ Invalid(GenerationParams(body)) = "ok"
                     /\ \A tokenizer : PromptLength(body, tokenizer) \in Nat \ {0}
  <1> DEFINE b == body
             p == GenerationParams(b)
             code == PrepareStatus(b, config)
  <1>1. /\ b.malformed \in BOOLEAN /\ b.blank \in BOOLEAN
        /\ b.kind \in {"completion", "chat"} /\ b.chars \in Nat /\ b.stop \in Nat
        /\ b.logprobs \subseteq Nat
        /\ b.messages \in Seq([role : STRING, chars : Nat])
        /\ b.kind = "completion" /\ b.chars = 0 => b.blank
    BY ConversationAssumption
  <1>2. /\ p.maxTokens \in Nat /\ p.temperature \in Int /\ p.topP \in Int
        /\ p.stop = b.stop /\ p.logprobs = b.logprobs \ {0}
        /\ p.maxTokens = 0 <=> 0 \in b.max_tokens
        /\ p.temperature = 0 <=> b.temperature \subseteq {0}
        /\ p.topP = 10 <=> b.top_p \subseteq {10}
        /\ CandidateCount(b) \in Nat
        /\ CandidateCount(b) \in 1 .. MaxCandidates <=> b.n \subseteq 1 .. MaxCandidates
    BY ParamsOf
  <1>3. /\ RejectUnsupported(b) <=> \E name \in DOMAIN b.extra : b.extra[name] \notin Harmless(name)
        /\ Blank(b) <=> b.kind = "completion" /\ b.blank
        /\ LogprobsFail(b) <=> \E k \in b.logprobs : k > MaxLogprobs
    BY DEF RejectUnsupported, Blank, LogprobsFail
  <1>4. /\ (\E m \in b.model : m # config.model) <=> ~ModelServed
    BY DEF ModelServed
  <1>5. (\E k \in b.logprobs : k > MaxLogprobs) <=> ~(b.logprobs \subseteq 0 .. MaxLogprobs)
    BY <1>1, RequestsAssumption
  <1>6. Invalid(p) = "ok" <=>
              /\ ~(p.maxTokens = 0)
              /\ ~(p.temperature < 0 \/ p.temperature > 20)
              /\ ~(p.topP <= 0 \/ p.topP > 10)
              /\ ~(p.stop > MaxStops)
              /\ ~(\E k \in p.logprobs : k > MaxLogprobs)
    BY InvalidIs
  <1>7. PrepareSays(b, config)
    BY PrepareIs
  <1>8. ParamsAllowed <=>
            /\ ~b.malformed
            /\ \A name \in DOMAIN b.extra : b.extra[name] \in Harmless(name)
            /\ b.kind = "completion" => ~b.blank
            /\ b.kind = "chat" => b.messages # <<>> /\ \A i \in DOMAIN b.messages :
                                                                b.messages[i].role \in Roles
            /\ 0 \notin b.max_tokens
            /\ b.temperature \subseteq {0} /\ b.top_p \subseteq {10}
            /\ b.stop <= MaxStops
            /\ b.logprobs \subseteq 0 .. MaxLogprobs
            /\ b.n \subseteq 1 .. MaxCandidates
    BY DEF ParamsAllowed
  <1> DEFINE chatOk == b.kind = "chat" => b.messages # <<>> /\ \A i \in DOMAIN b.messages :
                                                                  b.messages[i].role \in Roles
             extraOk == \A name \in DOMAIN b.extra : b.extra[name] \in Harmless(name)
  <1>9. /\ RejectUnsupported(b) <=> ~extraOk
        /\ \/ b.kind = "chat" /\ b.messages = <<>>
           \/ b.kind = "chat" /\ \E i \in DOMAIN b.messages : b.messages[i].role \notin Roles
           <=> ~chatOk
    BY <1>3
  <1> HIDE DEF p, code
  <1>10. CASE code = 404
    BY <1>4, <1>7, <1>10 DEF PrepareSays, code
  <1>11. CASE code = 400
    <2> SUFFICES ASSUME ParamsAllowed PROVE FALSE
      BY <1>11 DEF code
    <2>1. \/ b.malformed \/ RejectUnsupported(b)
          \/ b.kind = "chat" /\ b.messages = <<>>
          \/ b.kind = "chat" /\ \E i \in DOMAIN b.messages : b.messages[i].role \notin Roles
          \/ Blank(b) \/ LogprobsFail(b)
          \/ Invalid(p) # "ok"
          \/ CandidateCount(b) = 0 \/ CandidateCount(b) > MaxCandidates
      BY <1>7, <1>11 DEF PrepareSays, code, p
    <2>2. CASE Invalid(p) # "ok"
      BY <1>1, <1>2, <1>5, <1>6, <1>8, <2>2, RequestsAssumption
    <2>3. CASE CandidateCount(b) = 0 \/ CandidateCount(b) > MaxCandidates
      BY <1>2, <1>8, <2>3, RequestsAssumption
    <2> QED
      BY <1>3, <1>5, <1>8, <2>1, <2>2, <2>3
  <1>12. CASE code = 200
    <2>1. /\ ~b.malformed /\ ~RejectUnsupported(b)
          /\ ~(b.kind = "chat" /\ b.messages = <<>>)
          /\ ~(b.kind = "chat" /\ \E i \in DOMAIN b.messages : b.messages[i].role \notin Roles)
          /\ ~Blank(b)
          /\ ~(\E m \in b.model : m # config.model)
          /\ ~LogprobsFail(b)
          /\ Invalid(p) = "ok"
          /\ ~(CandidateCount(b) = 0 \/ CandidateCount(b) > MaxCandidates)
      BY <1>7, <1>12 DEF PrepareSays, code, p
    <2>2. CandidateCount(b) \in 1 .. MaxCandidates
      BY <1>2, <2>1, RequestsAssumption
    <2>3. p.maxTokens # 0 /\ p.stop <= MaxStops
      BY <1>1, <1>2, <1>6, <2>1, RequestsAssumption
    <2>4. ASSUME IsGreedy(p) PROVE ParamsAllowed
      BY <1>2, <1>3, <1>5, <1>8, <2>1, <2>2, <2>3, <2>4 DEF IsGreedy
    <2>5. ASSUME NEW tokenizer PROVE PromptLength(b, tokenizer) \in Nat \ {0}
      <3>1. CASE b.kind = "chat"
        <4>1. b.messages # <<>>
          BY <2>1, <3>1
        <4>2. ChatPromptLength(b.messages, tokenizer) \in Nat \ {0}
          BY <1>1, <4>1, ChatNotEmpty
        <4> QED
          BY <3>1, <4>2 DEF PromptLength
      <3>2. CASE b.kind # "chat"
        <4>1. b.chars \in Nat \ {0}
          BY <1>1, <1>3, <2>1, <3>2
        <4> QED
          BY <3>2, <4>1 DEF PromptLength
      <3> QED
        BY <3>1, <3>2
    <2> QED
      BY <1>4, <1>12, <2>1, <2>4, <2>5 DEF code, p
  <1>13. code \in {200, 400, 404}
    BY <1>7 DEF PrepareSays, code
  <1> QED
    BY <1>10, <1>11, <1>12, <1>13 DEF code

\* submit_request of a body that was prepared.
LEMMA SubmitTruthful ==
    ASSUME body \in Bodies, PrepareStatus(body, config) = 200,
           config.sizes["max_model_len"] \in Nat,
           NEW n \in Nat, NEW fails, NEW load
    PROVE  LET error == SubmitError(body, config, n, fails, load)
               fits == n + Or(body.max_tokens, 16) <= config.sizes["max_model_len"]
           IN  /\ error = "ok" => ParamsAllowed /\ ModelServed /\ fits
               /\ error # "ok" =>
                     /\ StatusOf(error) \in {400, 429, 500}
                     /\ StatusOf(error) = 400 => ~ParamsAllowed \/ ~fits
                     /\ StatusOf(error) = 429 =>
                           /\ ParamsAllowed /\ ModelServed /\ fits
                           /\ error # "Tokenization" /\ load # "free"
                     /\ StatusOf(error) = 500 => error = "Tokenization"
  <1> DEFINE p == GenerationParams(body)
             longest == config.sizes["max_model_len"]
             error == SubmitError(body, config, n, fails, load)
             fits == n + Or(body.max_tokens, 16) <= longest
  <1>1. /\ ModelServed /\ (IsGreedy(p) => ParamsAllowed)
        /\ Invalid(p) = "ok" /\ PromptLength(body, config.tokenizer) \in Nat \ {0}
    BY PrepareTruthful
  <1>2. /\ p.maxTokens \in Nat /\ p.maxTokens = Or(body.max_tokens, 16)
        /\ p.temperature = 0 <=> body.temperature \subseteq {0}
        /\ p.topP = 10 <=> body.top_p \subseteq {10}
    BY ParamsOf
  <1>3. ~IsGreedy(p) => ~ParamsAllowed
    BY <1>2 DEF IsGreedy, ParamsAllowed
  <1>4. /\ n > longest => ~fits
        /\ n + p.maxTokens > longest <=> ~fits
    <2>1. PICK m \in Nat : m = p.maxTokens /\ m = Or(body.max_tokens, 16)
      BY <1>2
    <2>2. PICK k \in Nat : k = longest
      OBVIOUS
    <2> HIDE DEF p, longest
    <2> QED
      BY <2>1, <2>2
  <1>5. SubmitSays(body, config, n, fails, load)
    BY <1>1, SubmitIs
  <1>6. \/ error = "ok" /\ IsGreedy(p) /\ fits
        \/ /\ error \in {"MemoryPressure", "MaxConcurrentSequencesReached"}
           /\ IsGreedy(p) /\ fits /\ load # "free"
        \/ error = "Tokenization"
        \/ error = "UnsupportedGenerationMode" /\ ~IsGreedy(p)
        \/ error \in {"InputTooLong", "TotalLengthTooLong"} /\ ~fits
    BY <1>1, <1>4, <1>5 DEF SubmitSays
  <1> HIDE DEF p, error, fits
  <1> QED
    BY <1>1, <1>3, <1>6 DEF StatusOf, p, error, fits

-----------------------------------------------------------------------------
(* The status                                                              *)

Phases == {"starting", "exited", "listening", "submitting", "generating", "streaming", "closed"}

\* A body that is generated for is allowed, served and fits; one that waits for
\* its candidates has passed the handler's checks.
StatusInv ==
    /\ body \in Bodies /\ phase \in Phases
    /\ config.sizes["max_model_len"] \in Nat
    /\ phase \notin {"starting", "exited"} => ValidConfig(config)
    /\ phase \in {"starting", "exited", "listening", "submitting", "generating"} => status = 0
    /\ phase = "submitting" => PrepareStatus(body, config) = 200
    /\ phase = "generating" => /\ ParamsAllowed /\ ModelServed /\ LengthFits
                               /\ ~Stream(body)
    /\ phase = "streaming" => status = 200
    /\ status # 0 => phase \in {"streaming", "closed"}
    /\ status \in {0, 200, 400, 404, 429, 500}

LEMMA ConfigTyped ==
    ASSUME NEW cl \in CommandLines
    PROVE  Configured(cl, Defaults).sizes["max_model_len"] \in Nat
  <1> DEFINE d == [Defaults EXCEPT
                      !.sizes = [f \in Sizes |-> IF f \in DOMAIN cl.sizes THEN cl.sizes[f] ELSE @[f]],
                      !.threshold = Or(cl.threshold, @)]
             base == Or(cl.file, d)
  <1>1. /\ Defaults \in Configs /\ cl.file \subseteq Configs
        /\ cl.sizes \in [DOMAIN cl.sizes -> Nat] /\ DOMAIN cl.sizes \subseteq Sizes
    BY ConversationAssumption
  <1>2. "max_model_len" \in Sizes
    BY DEF Sizes
  <1>3. "sizes" \in DOMAIN d /\ d.sizes["max_model_len"] \in Nat
    <2>1. /\ d.sizes = [f \in Sizes |-> IF f \in DOMAIN cl.sizes THEN cl.sizes[f]
                                                                 ELSE Defaults.sizes[f]]
          /\ "sizes" \in DOMAIN d
      BY <1>1 DEF Configs
    <2>2. Defaults.sizes \in [Sizes -> Nat]
      BY <1>1 DEF Configs
    <2> QED
      BY <1>1, <1>2, <2>1, <2>2
  <1>4. \A c \in cl.file : "sizes" \in DOMAIN c /\ c.sizes["max_model_len"] \in Nat
    BY <1>1, <1>2 DEF Configs
  <1> HIDE DEF d
  <1>5. "sizes" \in DOMAIN base /\ base.sizes["max_model_len"] \in Nat
    BY <1>3, <1>4 DEF Or
  <1>6. Configured(cl, Defaults)
           = [base EXCEPT !.port = Or(cl.port, @),
                          !.tokenizer = IF cl.tokenizer # {} THEN "hugging_face" ELSE @,
                          !.path = IF cl.tokenizer # {} THEN cl.tokenizer ELSE @]
    BY DEF Configured, d
  <1> HIDE DEF base
  <1> QED
    BY <1>5, <1>6

LEMMA InitStatus == Init => StatusInv /\ StatusTruthful
  <1> SUFFICES ASSUME Init PROVE StatusInv /\ StatusTruthful
    OBVIOUS
  <1>1. config.sizes["max_model_len"] \in Nat
    BY ConfigTyped DEF Init
  <1> QED
    BY <1>1 DEF Init, StatusInv, StatusTruthful, Phases

\* The properties of a request are those of its body and of the service.
LEMMA SameRequest ==
    ASSUME UNCHANGED <<config, body>>
    PROVE  /\ ParamsAllowed' = ParamsAllowed /\ ModelServed' = ModelServed
           /\ UNCHANGED promptTokens => LengthFits' = LengthFits
  BY DEF ParamsAllowed, ModelServed, LengthFits

LEMMA PrepareKeepsStatus ==
    ASSUME StatusInv, StatusTruthful, Prepare
    PROVE  StatusInv' /\ StatusTruthful'
  <1> DEFINE code == PrepareStatus(body, config)
  <1>1. /\ UNCHANGED <<config, body, promptTokens, trouble>> /\ phase = "listening" /\ status = 0
        /\ ValidConfig(config)
    BY DEF Prepare, serviceVars, StatusInv
  <1>2. /\ code \in {200, 400, 404}
        /\ code = 404 => ~ModelServed
        /\ code = 400 => ~ParamsAllowed
    BY PrepareTruthful DEF StatusInv
  <1>3. CASE code = 200
    <2>1. phase' = "submitting" /\ status' = status
      BY <1>3 DEF Prepare
    <2> QED
      BY <1>1, <1>3, <2>1 DEF StatusInv, StatusTruthful, Phases
  <1>4. CASE code # 200
    <2>1. phase' = "closed" /\ status' = code
      BY <1>4 DEF Prepare, Respond
    <2> HIDE DEF code
    <2>2. StatusInv'
      BY <1>1, <1>2, <1>4, <2>1 DEF StatusInv, Phases
    <2>3. StatusTruthful'
      BY <1>1, <1>2, <1>4, <2>1, SameRequest DEF StatusTruthful
    <2> QED
      BY <2>2, <2>3
  <1> QED
    BY <1>3, <1>4

LEMMA SubmitKeepsStatus ==
    ASSUME StatusInv, StatusTruthful, Submit
    PROVE  StatusInv' /\ StatusTruthful'
  <1>1. PICK n \in EncodedLengths(PromptLength(body, config.tokenizer), config.tokenizer),
             fails \in EncodingFails(config.tokenizer),
             load \in {"free", "pressure", "full"} :
          LET error == SubmitError(body, config, n, fails, load)
          IN  /\ promptTokens' = n
              /\ trouble' = IF error = "Tokenization" THEN "encoding"
                            ELSE IF load # "free" THEN "load" ELSE ""
              /\ IF error # "ok"
                 THEN Respond(StatusOf(error)) /\ UNCHANGED admitted
                 ELSE /\ admitted' = admitted + 1
                      /\ IF admitted' < CandidateCount(body)
                         THEN UNCHANGED <<phase, status>>
                         ELSE IF Stream(body) THEN Respond(200)
                         ELSE phase' = "generating" /\ UNCHANGED status
    BY DEF Submit
  <1> DEFINE error == SubmitError(body, config, n, fails, load)
             longest == config.sizes["max_model_len"]
             fits == n + Or(body.max_tokens, 16) <= longest
  <1>2. /\ UNCHANGED <<config, body>> /\ phase = "submitting" /\ status = 0
        /\ ValidConfig(config) /\ body \in Bodies /\ longest \in Nat
        /\ PrepareStatus(body, config) = 200
    BY DEF Submit, serviceVars, StatusInv
  <1>3. n \in Nat
    <2>1. PromptLength(body, config.tokenizer) \in Nat
      BY <1>2, PrepareTruthful
    <2> QED
      BY <2>1 DEF EncodedLengths
  <1>4. /\ error = "ok" => ParamsAllowed /\ ModelServed /\ fits
        /\ error # "ok" =>
              /\ StatusOf(error) \in {400, 429, 500}
              /\ StatusOf(error) = 400 => ~ParamsAllowed \/ ~fits
              /\ StatusOf(error) = 429 =>
                    /\ ParamsAllowed /\ ModelServed /\ fits
                    /\ error # "Tokenization" /\ load # "free"
              /\ StatusOf(error) = 500 => error = "Tokenization"
    BY <1>2, <1>3, SubmitTruthful
  <1>5. LengthFits' = fits /\ ParamsAllowed' = ParamsAllowed /\ ModelServed' = ModelServed
    BY <1>1, <1>2, SameRequest DEF LengthFits
  <1>6. /\ trouble' = IF error = "Tokenization" THEN "encoding"
                      ELSE IF load # "free" THEN "load" ELSE ""
        /\ error # "ok" => phase' = "closed" /\ status' = StatusOf(error)
        /\ error = "ok" => \/ phase' = "submitting" /\ status' = 0
                           \/ phase' = "streaming" /\ status' = 200
                           \/ phase' = "generating" /\ status' = 0 /\ ~Stream(body)
    <2>1. error # "ok" => Respond(StatusOf(error))
      BY <1>1
    <2>2. error = "ok" => \/ UNCHANGED <<phase, status>>
                          \/ Respond(200)
                          \/ phase' = "generating" /\ UNCHANGED status /\ ~Stream(body)
      BY <1>1
    <2> HIDE DEF error
    <2>3. error # "ok" => phase' = "closed" /\ status' = StatusOf(error)
      BY <1>4, <2>1 DEF Respond
    <2> QED
      BY <1>1, <1>2, <2>2, <2>3 DEF Respond, error
  <1> HIDE DEF error, fits
  <1>7. CASE error # "ok"
    <2>1. /\ phase' = "closed" /\ status' \in {400, 429, 500}
          /\ status' = 400 => ~ParamsAllowed \/ ~fits
          /\ status' = 429 => ParamsAllowed /\ ModelServed /\ fits /\ trouble' = "load"
          /\ status' = 500 => trouble' = "encoding"
      <3>1. PICK code : code = StatusOf(error)
        OBVIOUS
      <3>2. /\ code \in {400, 429, 500}
            /\ code = 400 => ~ParamsAllowed \/ ~fits
            /\ code = 429 => /\ ParamsAllowed /\ ModelServed /\ fits
                             /\ error # "Tokenization" /\ load # "free"
            /\ code = 500 => error = "Tokenization"
        BY Zenon, <1>4, <1>7, <3>1
      <3>3. phase' = "closed" /\ status' = code
        BY Zenon, <1>6, <1>7, <3>1
      <3>4. /\ error = "Tokenization" => trouble' = "encoding"
            /\ error # "Tokenization" /\ load # "free" => trouble' = "load"
        BY <1>6
      <3> QED
        BY <3>2, <3>3, <3>4
    <2>2. StatusInv'
      BY <1>2, <2>1 DEF StatusInv, Phases
    <2>3. StatusTruthful'
      BY <1>2, <1>5, <2>1 DEF StatusTruthful
    <2> QED
      BY <2>2, <2>3
  <1>8. CASE error = "ok"
    <2>1. /\ \/ phase' = "submitting" /\ status' = 0
             \/ phase' = "streaming" /\ status' = 200
             \/ phase' = "generating" /\ status' = 0 /\ ~Stream(body)
          /\ ParamsAllowed' /\ ModelServed' /\ LengthFits'
      BY <1>4, <1>5, <1>6, <1>8
    <2>2. Stream(body)' = Stream(body) /\ PrepareStatus(body, config)' = PrepareStatus(body, config)
      BY <1>2
    <2>3. StatusInv'
      BY <1>2, <2>1, <2>2 DEF StatusInv, Phases
    <2>4. StatusTruthful'
      BY <1>2, <2>1 DEF StatusTruthful
    <2> QED
      BY <2>3, <2>4
  <1> QED
    BY <1>7, <1>8

\* A failure past the status, and every step of the client, leaves the status.
LEMMA LaterKeepsStatus ==
    ASSUME StatusInv, StatusTruthful,
           UNCHANGED <<config, body, promptTokens, status>>, phase' \in Phases,
           \/ UNCHANGED <<phase, trouble>>
           \/ status = 200 /\ phase' \in {"streaming", "closed"}
           \/ status = 0 /\ phase' \in {"closed", "exited"} /\ phase # "starting"
                         /\ (phase' = "closed" => phase # "exited")
    PROVE  StatusInv' /\ StatusTruthful'
  <1>1. StatusInv'
    BY SameRequest DEF StatusInv, Phases
  <1>2. StatusTruthful'
    BY SameRequest DEF StatusInv, StatusTruthful
  <1> QED
    BY <1>1, <1>2

LEMMA NextStatus ==
    ASSUME StatusInv, StatusTruthful, [Next]_vars
    PROVE  StatusInv' /\ StatusTruthful'
  <1>1. CASE Exit
    BY <1>1, SameRequest DEF Exit, serviceVars, StatusInv, StatusTruthful, Phases
  <1>2. CASE Serve
    BY <1>2, SameRequest DEF Serve, serviceVars, StatusInv, StatusTruthful, Phases
  <1>3. CASE Prepare
    BY <1>3, PrepareKeepsStatus
  <1>4. CASE Submit
    BY <1>4, SubmitKeepsStatus
  <1>5. CASE SubmitToNobody
    BY <1>5, SameRequest
    DEF SubmitToNobody, Respond, serviceVars, StatusInv, StatusTruthful, Phases
  <1>6. CASE AnswerUnary
    BY <1>6, SameRequest DEF AnswerUnary, serviceVars, StatusInv, StatusTruthful, Phases
  <1>7. CASE SendChunk \/ KeepAlive \/ Finish \/ Fail \/ Vanish \/ Garble
    <2>1. /\ UNCHANGED <<config, body, promptTokens, status>> /\ status = 200
          /\ phase' \in {"streaming", "closed"}
      BY <1>7 DEF SendChunk, KeepAlive, Finish, Fail, Vanish, Garble, Streaming, serviceVars,
                  StatusInv
    <2> QED
      BY <2>1, LaterKeepsStatus DEF Phases
  <1>8. CASE SendFails
    <2>1. /\ UNCHANGED <<config, body, promptTokens, status>> /\ status = 0
          /\ phase # "starting" /\ phase' = IF phase = "exited" THEN phase ELSE "closed"
      BY <1>8 DEF SendFails, serviceVars
    <2> QED
      BY <2>1, LaterKeepsStatus DEF Phases
  <1>9. CASE ReadStatus \/ Deliver \/ ReadEvent \/ ReadEnd
    <2>1. UNCHANGED <<config, body, promptTokens, status, phase, trouble>>
      BY <1>9 DEF ReadStatus, Deliver, ReadEvent, ReadEnd, serviceVars
    <2> QED
      BY <2>1, LaterKeepsStatus DEF StatusInv
  <1>10. CASE ReadFails
    <2>1. UNCHANGED <<config, body, promptTokens, status>> /\ status = 200 /\ phase' = "closed"
      BY <1>10 DEF ReadFails, Reading, serviceVars
    <2> QED
      BY <2>1, LaterKeepsStatus DEF Phases
  <1>11. CASE UNCHANGED vars
    <2>1. UNCHANGED <<config, body, promptTokens, status, phase, trouble>>
      BY <1>11 DEF vars
    <2> QED
      BY <2>1, LaterKeepsStatus DEF StatusInv
  <1> QED
    BY <1>1, <1>2, <1>3, <1>4, <1>5, <1>6, <1>7, <1>8, <1>9, <1>10, <1>11 DEF Next

LEMMA SpecStatus == Spec => [](StatusInv /\ StatusTruthful)
  <1>1. StatusInv /\ StatusTruthful /\ [Next]_vars => (StatusInv /\ StatusTruthful)'
    BY NextStatus
  <1> QED
    BY <1>1, InitStatus, PTL DEF Spec

\* prepare_completion_request, submit_request and From<EngineError>: whatever
\* the body, the model, the load and the configuration, the status blames the
\* client exactly for what the client did.
THEOREM StatusesAreTruthful == Spec => []StatusTruthful
  BY SpecStatus, PTL

-----------------------------------------------------------------------------
(* Payloads, their frames and their texts                                  *)

Texts == Pieces \cup {""}

Payloads == [type : {"chunk", "comment", "final", "done", "error", "junk"},
             text : Texts, tokens : Int, reason : {"", "stop"}]

Bytes == [c : {"colon", "head", "tail", "CR", "LF"}, p : Payloads]

frameOf == [p \in Payloads |-> Frame(p)]
textOf == [p \in Payloads |-> IF p.text = "" THEN <<>> ELSE <<p.text>>]

\* The lengths of the content of a frame and of its delimiter.
ContentLen(p) == IF p.type = "comment" THEN 1 ELSE 2
EndLen == IF server.crlf THEN 4 ELSE 2

LEMMA PlainTyped ==
    ASSUME NEW type \in {"comment", "done", "error", "junk"}
    PROVE  Plain(type) \in Payloads /\ Plain(type).type = type /\ Plain(type).text = ""
  BY DEF Plain, P, None, Payloads, Texts

LEMMA FrameIs ==
    ASSUME NEW p \in Payloads
    PROVE  /\ Frame(p) \in Seq(Bytes) /\ Len(Frame(p)) = ContentLen(p) + EndLen
           /\ p.type = "comment" => Frame(p)[1] = Byte("colon", p)
           /\ p.type # "comment" => Frame(p)[1] = Byte("head", p) /\ Frame(p)[2] = Byte("tail", p)
           /\ server.crlf => /\ Frame(p)[ContentLen(p) + 1].c = "CR"
                             /\ Frame(p)[ContentLen(p) + 2].c = "LF"
                             /\ Frame(p)[ContentLen(p) + 3].c = "CR"
                             /\ Frame(p)[ContentLen(p) + 4].c = "LF"
           /\ ~server.crlf => /\ Frame(p)[ContentLen(p) + 1].c = "LF"
                              /\ Frame(p)[ContentLen(p) + 2].c = "LF"
  <1> DEFINE cr == Byte("CR", Plain("comment"))
             lf == Byte("LF", Plain("comment"))
             colon == Byte("colon", p)
             hd == Byte("head", p)
             tl == Byte("tail", p)
             line == IF server.crlf THEN <<cr, lf>> ELSE <<lf>>
             content == IF p.type = "comment" THEN <<colon>> ELSE <<hd, tl>>
             m == ContentLen(p)
             l == IF server.crlf THEN 2 ELSE 1
  <1>1. Frame(p) = content \o line \o line
    BY DEF Frame
  <1>2. ASSUME NEW c \in {"colon", "head", "tail", "CR", "LF"}, NEW q \in Payloads
        PROVE  Byte(c, q) \in Bytes /\ Byte(c, q).c = c
    BY DEF Byte, Bytes
  <1>3. /\ cr \in Bytes /\ lf \in Bytes /\ colon \in Bytes /\ hd \in Bytes /\ tl \in Bytes
        /\ cr.c = "CR" /\ lf.c = "LF"
    BY <1>2, PlainTyped
  <1> HIDE DEF cr, lf, colon, hd, tl
  <1>4. /\ line \in Seq(Bytes) /\ Len(line) = l
        /\ server.crlf => line[1] = cr /\ line[2] = lf
        /\ ~server.crlf => line[1] = lf
    <2>1. <<cr, lf>> \in Seq(Bytes) /\ <<lf>> \in Seq(Bytes)
      <3> HIDE DEF Bytes
      <3> QED
        BY <1>3
    <2> QED
      BY <2>1
  <1>5. /\ content \in Seq(Bytes) /\ Len(content) = m
        /\ p.type = "comment" => content[1] = colon
        /\ p.type # "comment" => content[1] = hd /\ content[2] = tl
    <2>1. <<colon>> \in Seq(Bytes) /\ <<hd, tl>> \in Seq(Bytes)
      BY <1>3
    <2> QED
      BY <2>1 DEF ContentLen
  <1>6. /\ m \in {1, 2} /\ (m = 2 <=> p.type # "comment")
        /\ l \in {1, 2} /\ (l = 2 <=> server.crlf) /\ EndLen = l + l
    BY DEF ContentLen, EndLen
  <1> HIDE DEF content, line, m, l
  <1>16. ASSUME NEW x \in Seq(Bytes), NEW y \in Seq(Bytes) PROVE x \o y \in Seq(Bytes)
    <2> HIDE DEF Bytes
    <2> QED
      OBVIOUS
  <1>7. PICK f \in Seq(Bytes) : f = content \o line
    BY Zenon, <1>4, <1>5, <1>16
  <1>8. /\ Len(f) = m + l
        /\ \A i \in 1 .. m : f[i] = content[i]
        /\ \A j \in 1 .. l : f[m + j] = line[j]
    <2>1. Len(f) = m + l /\ \A i \in 1 .. m : f[i] = content[i]
      BY <1>4, <1>5, <1>6, <1>7
    <2>2. \A j \in 1 .. Len(line) : (content \o line)[Len(content) + j] = line[j]
      BY <1>4, <1>5, SecondOfConcat
    <2> QED
      BY <1>4, <1>5, <1>7, <2>1, <2>2
  <1>9. PICK g \in Seq(Bytes) : g = f \o line
    BY Zenon, <1>4, <1>16
  <1>10. /\ Len(g) = m + l + l
         /\ \A i \in 1 .. m + l : g[i] = f[i]
         /\ \A j \in 1 .. l : g[m + l + j] = line[j]
    <2>1. Len(g) = m + l + l /\ \A i \in 1 .. m + l : g[i] = f[i]
      BY <1>4, <1>6, <1>8, <1>9
    <2>2. \A j \in 1 .. Len(line) : (f \o line)[Len(f) + j] = line[j]
      BY <1>4, SecondOfConcat
    <2> QED
      BY <1>4, <1>8, <1>9, <2>1, <2>2
  <1>11. Frame(p) = g
    BY Zenon, <1>1, <1>7, <1>9
  <1>12. /\ \A i \in 1 .. m : g[i] = content[i]
         /\ \A j \in 1 .. l : g[m + j] = line[j] /\ g[m + l + j] = line[j]
    BY <1>6, <1>8, <1>10
  <1>13. /\ p.type = "comment" => g[1] = colon
         /\ p.type # "comment" => g[1] = hd /\ g[2] = tl
    BY <1>5, <1>6, <1>12
  <1>14. /\ server.crlf => /\ g[m + 1] = cr /\ g[m + 2] = lf /\ g[m + 3] = cr /\ g[m + 4] = lf
         /\ ~server.crlf => g[m + 1] = lf /\ g[m + 2] = lf
    <2>1. CASE server.crlf
      <3>1. l = 2 /\ m + l + 1 = m + 3 /\ m + l + 2 = m + 4 /\ 1 \in 1 .. l /\ 2 \in 1 .. l
        BY <1>6, <2>1
      <3> QED
        BY <1>4, <1>12, <2>1, <3>1
    <2>2. CASE ~server.crlf
      <3>1. l = 1 /\ m + l + 1 = m + 2 /\ 1 \in 1 .. l
        BY <1>6, <2>2
      <3> QED
        BY <1>4, <1>12, <2>2, <3>1
    <2> QED
      BY <2>1, <2>2
  <1>15. Len(g) = m + EndLen
    BY <1>6, <1>10
  <1> QED
    BY <1>3, <1>11, <1>13, <1>14, <1>15 DEF m, colon, hd, tl

LEMMA FramesOf ==
    ASSUME NEW ps \in Seq(Payloads), NEW qs \in Seq(Payloads)
    PROVE  /\ Frames(ps) \in Seq(Bytes)
           /\ Frames(ps \o qs) = Frames(ps) \o Frames(qs)
  <1>1. frameOf \in [Payloads -> Seq(Bytes)]
    BY FrameIs DEF frameOf
  <1>2. ASSUME NEW us \in Seq(Payloads) PROVE Frames(us) = FlattenSeq(Mapped(frameOf, us))
    <2>1. \A i \in DOMAIN us : us[i] \in Payloads
      OBVIOUS
    <2>2. [i \in DOMAIN us |-> Frame(us[i])] = Mapped(frameOf, us)
      BY <2>1 DEF Mapped, frameOf
    <2> QED
      BY <2>2 DEF Frames
  <1>3. ps \o qs \in Seq(Payloads)
    OBVIOUS
  <1>4. Frames(ps) = FlattenSeq(Mapped(frameOf, ps)) /\ Frames(qs) = FlattenSeq(Mapped(frameOf, qs))
        /\ Frames(ps \o qs) = FlattenSeq(Mapped(frameOf, ps \o qs))
    BY <1>2, <1>3
  <1>5. /\ FlattenSeq(Mapped(frameOf, ps)) \in Seq(Bytes)
        /\ FlattenSeq(Mapped(frameOf, ps \o qs))
              = FlattenSeq(Mapped(frameOf, ps)) \o FlattenSeq(Mapped(frameOf, qs))
    <2> DEFINE S == Payloads
               T == Bytes
    <2>1. frameOf \in [S -> Seq(T)] /\ ps \in Seq(S) /\ qs \in Seq(S)
      BY <1>1
    <2> HIDE DEF S, T
    <2>2. FlattenSeq(Mapped(frameOf, ps)) \in Seq(T)
      BY <2>1, FlattenMapped
    <2>3. Mapped(frameOf, ps \o qs) = Mapped(frameOf, ps) \o Mapped(frameOf, qs)
      BY <2>1, MappedConcat
    <2> DEFINE Q == Seq(T)
               u == Mapped(frameOf, ps)
               v == Mapped(frameOf, qs)
    <2>4. u \in Seq(Q) /\ v \in Seq(Q)
      <3>1. frameOf \in [S -> Q]
        BY <2>1
      <3> HIDE DEF Q
      <3> QED
        BY <2>1, <3>1, MappedType
    <2> HIDE DEF u, v
    <2>5. FlattenSeq(u \o v) = FlattenSeq(u) \o FlattenSeq(v)
      BY <2>4, FlattenConcat
    <2> QED
      BY <2>2, <2>3, <2>5 DEF T, u, v
  <1> QED
    BY Zenon, <1>4, <1>5

LEMMA FramesOfOne ==
    ASSUME NEW p \in Payloads
    PROVE  Frames(<<p>>) = Frame(p)
  <1>1. [i \in DOMAIN <<p>> |-> Frame(<<p>>[i])] = <<Frame(p)>>
    OBVIOUS
  <1>2. <<Frame(p)>> = Append(<<>>, Frame(p)) /\ Frame(p) \in Seq(Bytes) /\ <<>> \in Seq(Seq(Bytes))
    BY FrameIs
  <1>3. FlattenSeq(Append(<<>>, Frame(p))) = Frame(p)
    BY <1>2, FlattenAppendAny
  <1> QED
    BY <1>1, <1>2, <1>3 DEF Frames

LEMMA FramesOfNone == Frames(<<>>) = <<>>
  <1>1. [i \in DOMAIN <<>> |-> Frame(<<>>[i])] = <<>>
    OBVIOUS
  <1> QED
    BY <1>1, FlattenEmpty DEF Frames

LEMMA TextTyped ==
    ASSUME NEW p \in Payloads
    PROVE  (IF p.text = "" THEN <<>> ELSE <<p.text>>) \in Seq(Texts)
  <1>1. p.text \in Texts
    BY DEF Payloads
  <1>2. ASSUME NEW t \in Texts PROVE <<t>> \in Seq(Texts) /\ <<>> \in Seq(Texts)
    <2> HIDE DEF Texts
    <2> QED
      OBVIOUS
  <1>3. PICK t \in Texts : t = p.text
    BY <1>1
  <1>4. CASE t = ""
    BY <1>2, <1>3, <1>4
  <1>5. CASE t # ""
    BY <1>2, <1>3, <1>5
  <1> QED
    BY <1>4, <1>5

LEMMA TextsOfTwo ==
    ASSUME NEW ps \in Seq(Payloads), NEW qs \in Seq(Payloads)
    PROVE  /\ TextsOf(ps) \in Seq(Texts)
           /\ TextsOf(ps \o qs) = TextsOf(ps) \o TextsOf(qs)
  <1>1. textOf \in [Payloads -> Seq(Texts)]
    <2>1. ASSUME NEW p \in Payloads
          PROVE  (IF p.text = "" THEN <<>> ELSE <<p.text>>) \in Seq(Texts)
      BY TextTyped
    <2> QED
      BY <2>1 DEF textOf
  <1>2. ASSUME NEW us \in Seq(Payloads) PROVE TextsOf(us) = FlattenSeq(Mapped(textOf, us))
    <2>1. \A i \in DOMAIN us : us[i] \in Payloads
      OBVIOUS
    <2>2. [i \in DOMAIN us |-> IF us[i].text = "" THEN <<>> ELSE <<us[i].text>>] = Mapped(textOf, us)
      BY <2>1 DEF Mapped, textOf
    <2> QED
      BY <2>2 DEF TextsOf
  <1>3. ps \o qs \in Seq(Payloads)
    OBVIOUS
  <1>4. TextsOf(ps) = FlattenSeq(Mapped(textOf, ps)) /\ TextsOf(qs) = FlattenSeq(Mapped(textOf, qs))
        /\ TextsOf(ps \o qs) = FlattenSeq(Mapped(textOf, ps \o qs))
    BY <1>2, <1>3
  <1>5. /\ FlattenSeq(Mapped(textOf, ps)) \in Seq(Texts)
        /\ FlattenSeq(Mapped(textOf, ps \o qs))
              = FlattenSeq(Mapped(textOf, ps)) \o FlattenSeq(Mapped(textOf, qs))
    <2> DEFINE S == Payloads
               T == Texts
    <2>1. textOf \in [S -> Seq(T)] /\ ps \in Seq(S) /\ qs \in Seq(S)
      BY <1>1
    <2> HIDE DEF S, T
    <2>2. FlattenSeq(Mapped(textOf, ps)) \in Seq(T)
      BY <2>1, FlattenMapped
    <2>3. Mapped(textOf, ps \o qs) = Mapped(textOf, ps) \o Mapped(textOf, qs)
      BY <2>1, MappedConcat
    <2> DEFINE Q == Seq(T)
               u == Mapped(textOf, ps)
               v == Mapped(textOf, qs)
    <2>4. u \in Seq(Q) /\ v \in Seq(Q)
      <3>1. textOf \in [S -> Q]
        BY <2>1
      <3> HIDE DEF Q
      <3> QED
        BY <2>1, <3>1, MappedType
    <2> HIDE DEF u, v
    <2>5. FlattenSeq(u \o v) = FlattenSeq(u) \o FlattenSeq(v)
      BY <2>4, FlattenConcat
    <2> QED
      BY <2>2, <2>3, <2>5 DEF T, u, v
  <1> QED
    BY Zenon, <1>4, <1>5

LEMMA TextsOfOne ==
    ASSUME NEW p \in Payloads
    PROVE  TextsOf(<<p>>) = IF p.text = "" THEN <<>> ELSE <<p.text>>
  <1> DEFINE x == IF p.text = "" THEN <<>> ELSE <<p.text>>
  <1>1. TextsOf(<<p>>) = FlattenSeq(<<x>>)
    <2>1. ASSUME NEW i \in DOMAIN <<p>> PROVE <<p>>[i] = p
      OBVIOUS
    <2>2. [i \in DOMAIN <<p>> |-> IF <<p>>[i].text = "" THEN <<>> ELSE <<<<p>>[i].text>>]
             = [i \in DOMAIN <<p>> |-> x]
      BY Zenon, <2>1
    <2> HIDE DEF x
    <2>3. [i \in DOMAIN <<p>> |-> x] = <<x>>
      OBVIOUS
    <2> QED
      BY Zenon, <2>2, <2>3 DEF TextsOf
  <1>2. x \in Seq(Texts)
    BY TextTyped
  <1>3. <<x>> = Append(<<>>, x) /\ <<>> \in Seq(Seq(Texts))
    <2> DEFINE Q == Seq(Texts)
    <2> HIDE DEF x, Q
    <2>1. <<x>> = Append(<<>>, x) /\ <<>> \in Seq(Q)
      OBVIOUS
    <2> QED
      BY <2>1 DEF Q
  <1> HIDE DEF x
  <1>4. FlattenSeq(Append(<<>>, x)) = x
    BY <1>2, <1>3, FlattenAppendAny
  <1> QED
    BY <1>1, <1>3, <1>4 DEF x

-----------------------------------------------------------------------------
(* Where the first event of the buffer ends                                *)

LEMMA BoundariesAre ==
    ASSUME NEW b \in Seq(Bytes)
    PROVE  /\ \A y \in Boundaries(b) :
                 /\ y[1] \in 1 .. Len(b)
                 /\ \/ /\ y = <<y[1], 2>> /\ y[1] + 1 <= Len(b)
                       /\ b[y[1]].c = "LF" /\ b[y[1] + 1].c = "LF"
                    \/ /\ y = <<y[1], 4>> /\ y[1] + 3 <= Len(b)
                       /\ b[y[1]].c = "CR"
           /\ \A i \in 1 .. Len(b) :
                 /\ (i + 1 <= Len(b) /\ b[i].c = "LF" /\ b[i + 1].c = "LF") => <<i, 2>> \in Boundaries(b)
                 /\ (i + 3 <= Len(b) /\ b[i].c = "CR" /\ b[i + 1].c = "LF"
                     /\ b[i + 2].c = "CR" /\ b[i + 3].c = "LF") => <<i, 4>> \in Boundaries(b)
  <1> DEFINE two == <<"LF", "LF">>
             four == <<"CR", "LF", "CR", "LF">>
  <1>1. DOMAIN b = 1 .. Len(b) /\ Len(b) \in Nat
    OBVIOUS
  <1>2. ASSUME NEW i \in 1 .. Len(b)
        PROVE  Is(b, i, two) <=> i + 1 <= Len(b) /\ b[i].c = "LF" /\ b[i + 1].c = "LF"
    <2>1. Len(two) = 2 /\ DOMAIN two = {1, 2} /\ two[1] = "LF" /\ two[2] = "LF"
      OBVIOUS
    <2>2. i + 2 - 1 = i + 1 /\ i + 1 - 1 = i
      BY <1>1
    <2> HIDE DEF two
    <2>3. Is(b, i, two) <=> i + 1 <= Len(b) /\ \A k \in {1, 2} : b[i + k - 1].c = two[k]
      BY <2>1, <2>2 DEF Is
    <2> QED
      BY <2>1, <2>2, <2>3
  <1>3. ASSUME NEW i \in 1 .. Len(b)
        PROVE  Is(b, i, four) <=> /\ i + 3 <= Len(b) /\ b[i].c = "CR" /\ b[i + 1].c = "LF"
                                  /\ b[i + 2].c = "CR" /\ b[i + 3].c = "LF"
    <2>1. /\ Len(four) = 4 /\ DOMAIN four = {1, 2, 3, 4}
          /\ four[1] = "CR" /\ four[2] = "LF" /\ four[3] = "CR" /\ four[4] = "LF"
      OBVIOUS
    <2>2. i + 4 - 1 = i + 3 /\ i + 1 - 1 = i /\ i + 2 - 1 = i + 1 /\ i + 3 - 1 = i + 2
      BY <1>1
    <2> HIDE DEF four
    <2>3. Is(b, i, four) <=> i + 3 <= Len(b) /\ \A k \in {1, 2, 3, 4} : b[i + k - 1].c = four[k]
      BY <2>1, <2>2 DEF Is
    <2> QED
      BY <2>1, <2>2, <2>3
  <1>4. /\ \A y \in Boundaries(b) : \E i \in 1 .. Len(b) : \/ y = <<i, 2>> /\ Is(b, i, two)
                                                           \/ y = <<i, 4>> /\ Is(b, i, four)
        /\ \A i \in 1 .. Len(b) : /\ Is(b, i, two) => <<i, 2>> \in Boundaries(b)
                                  /\ Is(b, i, four) => <<i, 4>> \in Boundaries(b)
    <2> HIDE DEF two, four
    <2>1. Boundaries(b) = {<<i, 2>> : i \in {j \in DOMAIN b : Is(b, j, two)}}
                             \cup {<<i, 4>> : i \in {j \in DOMAIN b : Is(b, j, four)}}
      BY DEF Boundaries, two, four
    <2> QED
      BY <1>1, <2>1
  <1> HIDE DEF two, four
  <1>5. ASSUME NEW y \in Boundaries(b)
        PROVE  /\ y[1] \in 1 .. Len(b)
               /\ \/ /\ y = <<y[1], 2>> /\ y[1] + 1 <= Len(b)
                     /\ b[y[1]].c = "LF" /\ b[y[1] + 1].c = "LF"
                  \/ /\ y = <<y[1], 4>> /\ y[1] + 3 <= Len(b)
                     /\ b[y[1]].c = "CR"
    <2>1. PICK i \in 1 .. Len(b) : \/ y = <<i, 2>> /\ Is(b, i, two)
                                   \/ y = <<i, 4>> /\ Is(b, i, four)
      BY <1>4
    <2>2. y[1] = i
      BY <2>1
    <2> QED
      BY <1>2, <1>3, <2>1, <2>2
  <1> QED
    BY <1>2, <1>3, <1>4, <1>5

\* The first boundary of b is that of the frame of p, and what is left of b,
\* with w, is more; with nothing on the wire there is a boundary.
EventFirst(p, more, b, w) ==
    /\ Boundaries(b) # {} =>
          /\ Boundary(b) = <<ContentLen(p) + 1, EndLen>>
          /\ \A i \in 1 .. ContentLen(p) : i <= Len(b) /\ b[i] = Frame(p)[i]
          /\ SubSeq(b, ContentLen(p) + 1 + EndLen, Len(b)) \in Seq(Bytes)
          /\ SubSeq(b, ContentLen(p) + 1 + EndLen, Len(b)) \o w = more
    /\ w = <<>> => Boundaries(b) # {}

\* Nothing before the end of a frame looks like the end of one: wherever the
\* network has cut the bytes, the first boundary of the buffer is that of the
\* first frame, and what is left is the frames after it.
LEMMA FirstBoundary ==
    ASSUME NEW p \in Payloads, NEW more \in Seq(Bytes), NEW b \in Seq(Bytes), NEW w \in Seq(Bytes),
           b \o w = Frame(p) \o more
    PROVE  EventFirst(p, more, b, w)
  <1> DEFINE f == Frame(p)
             x == b \o w
  <1>1. PICK m \in Nat, d \in Nat : /\ m = ContentLen(p) /\ d = EndLen
                                    /\ m = 1 \/ m = 2
                                    /\ d = 2 \/ d = 4
                                    /\ (m = 1 <=> p.type = "comment")
                                    /\ (d = 4 <=> server.crlf)
    <2>1. /\ ContentLen(p) \in Nat /\ EndLen \in Nat
          /\ ContentLen(p) = 1 \/ ContentLen(p) = 2
          /\ EndLen = 2 \/ EndLen = 4
          /\ (ContentLen(p) = 1 <=> p.type = "comment")
          /\ (EndLen = 4 <=> server.crlf)
      BY DEF ContentLen, EndLen
    <2> QED
      BY Zenon, <2>1
  <1>2. /\ f \in Seq(Bytes) /\ Len(f) = m + d
        /\ \A i \in 1 .. m : f[i].c \notin {"CR", "LF"}
        /\ d = 4 => f[m + 1].c = "CR" /\ f[m + 2].c = "LF" /\ f[m + 3].c = "CR" /\ f[m + 4].c = "LF"
        /\ d = 2 => f[m + 1].c = "LF" /\ f[m + 2].c = "LF"
    <2>1. /\ f \in Seq(Bytes) /\ Len(f) = m + d
          /\ m = 1 => f[1].c = "colon"
          /\ m = 2 => f[1].c = "head" /\ f[2].c = "tail"
      <3>1. /\ f \in Seq(Bytes) /\ Len(f) = ContentLen(p) + EndLen
            /\ p.type = "comment" => f[1] = Byte("colon", p)
            /\ p.type # "comment" => f[1] = Byte("head", p) /\ f[2] = Byte("tail", p)
        BY Zenon, FrameIs
      <3>2. \A c : Byte(c, p).c = c
        BY DEF Byte
      <3> HIDE DEF f
      <3>3. /\ m = 1 => f[1] = Byte("colon", p)
            /\ m = 2 => f[1] = Byte("head", p) /\ f[2] = Byte("tail", p)
        BY <1>1, <3>1
      <3>4. Len(f) = m + d
        BY Zenon, <1>1, <3>1
      <3> QED
        BY <3>1, <3>2, <3>3, <3>4
    <2>2. /\ d = 4 => f[m + 1].c = "CR" /\ f[m + 2].c = "LF" /\ f[m + 3].c = "CR" /\ f[m + 4].c = "LF"
          /\ d = 2 => f[m + 1].c = "LF" /\ f[m + 2].c = "LF"
      <3>1. /\ server.crlf => /\ f[ContentLen(p) + 1].c = "CR" /\ f[ContentLen(p) + 2].c = "LF"
                              /\ f[ContentLen(p) + 3].c = "CR" /\ f[ContentLen(p) + 4].c = "LF"
            /\ ~server.crlf => f[ContentLen(p) + 1].c = "LF" /\ f[ContentLen(p) + 2].c = "LF"
        BY Zenon, FrameIs
      <3> HIDE DEF f
      <3>2. /\ server.crlf => /\ f[m + 1].c = "CR" /\ f[m + 2].c = "LF"
                              /\ f[m + 3].c = "CR" /\ f[m + 4].c = "LF"
            /\ ~server.crlf => f[m + 1].c = "LF" /\ f[m + 2].c = "LF"
        BY Zenon, <1>1, <3>1
      <3> QED
        BY <1>1, <3>2
    <2> HIDE DEF f
    <2>3. ASSUME NEW i \in 1 .. m PROVE f[i].c \notin {"CR", "LF"}
      <3>1. (m = 1 /\ i = 1) \/ (m = 2 /\ i = 1) \/ (m = 2 /\ i = 2)
        <4>1. m = 1 \/ m = 2
          BY Zenon, <1>1
        <4> QED
          BY <4>1
      <3> QED
        BY <2>1, <3>1
    <2> QED
      BY <2>1, <2>2, <2>3
  <1> HIDE DEF f
  <1>3. /\ Len(x) = m + d + Len(more) /\ Len(x) = Len(b) + Len(w)
        /\ \A i \in 1 .. m + d : x[i] = f[i]
        /\ \A j \in 1 .. Len(more) : x[m + d + j] = more[j]
        /\ \A i \in 1 .. Len(b) : x[i] = b[i]
        /\ \A j \in 1 .. Len(w) : x[Len(b) + j] = w[j]
        /\ Len(b) \in Nat /\ Len(w) \in Nat /\ Len(more) \in Nat
    <2> HIDE DEF Bytes
    <2>1. x = f \o more
      BY DEF f
    <2>2. Len(f \o more) = m + d + Len(more) /\ \A i \in 1 .. m + d : (f \o more)[i] = f[i]
      <3>1. f \in Seq(Bytes) /\ more \in Seq(Bytes)
        BY <1>2
      <3>2. Len(f \o more) = Len(f) + Len(more) /\ \A i \in 1 .. Len(f) : (f \o more)[i] = f[i]
        BY <3>1
      <3> QED
        BY Zenon, <1>2, <3>2
    <2>3. \A j \in 1 .. Len(more) : (f \o more)[m + d + j] = more[j]
      <3>1. \A j \in 1 .. Len(more) : (f \o more)[Len(f) + j] = more[j]
        BY <1>2, SecondOfConcat
      <3> QED
        BY <1>2, <3>1
    <2>4. Len(b \o w) = Len(b) + Len(w) /\ \A i \in 1 .. Len(b) : (b \o w)[i] = b[i]
      OBVIOUS
    <2>5. \A j \in 1 .. Len(w) : (b \o w)[Len(b) + j] = w[j]
      BY SecondOfConcat
    <2>6. Len(b) \in Nat /\ Len(w) \in Nat /\ Len(more) \in Nat
      OBVIOUS
    <2> QED
      BY Zenon, <2>1, <2>2, <2>3, <2>4, <2>5, <2>6
  <1> HIDE DEF x
  <1>10. PICK n \in Nat, u \in Nat, v \in Nat : n = Len(b) /\ u = Len(w) /\ v = Len(more)
    BY <1>3
  <1>11. /\ n + u = m + d + v
         /\ \A i \in 1 .. m + d : x[i] = f[i]
         /\ \A j \in 1 .. v : x[m + d + j] = more[j]
         /\ \A i \in 1 .. n : x[i] = b[i]
         /\ \A j \in 1 .. u : x[n + j] = w[j]
    BY <1>3, <1>10
  <1>12. n + u = m + d + v
    BY <1>11
  <1>13. (m = 1 \/ m = 2) /\ (d = 2 \/ d = 4)
    BY Zenon, <1>1
  <1>4. \A i \in 1 .. m + d : i <= n => b[i] = f[i]
    BY <1>11
  <1>5. ASSUME NEW y \in Boundaries(b) PROVE y[1] \in Nat /\ y[1] >= m + 1 /\ n >= m + d
    <2>1. /\ y[1] \in 1 .. n
          /\ \/ /\ y = <<y[1], 2>> /\ y[1] + 1 <= n
                /\ b[y[1]].c = "LF" /\ b[y[1] + 1].c = "LF"
             \/ /\ y = <<y[1], 4>> /\ y[1] + 3 <= n
                /\ b[y[1]].c = "CR"
      BY <1>10, BoundariesAre
    <2>2. PICK i \in 1 .. n : i = y[1]
      BY <2>1
    <2>3. b[i].c \in {"CR", "LF"}
      BY <2>1, <2>2
    <2>4. i >= m + 1
      <3>1. SUFFICES ASSUME i <= m PROVE FALSE
        OBVIOUS
      <3>2. b[i] = f[i] /\ f[i].c \notin {"CR", "LF"}
        <4>1. i \in 1 .. m /\ i \in 1 .. m + d /\ i <= n
          BY <1>13, <3>1
        <4> QED
          BY <1>2, <1>4, <4>1
      <3> QED
        BY <2>3, <3>2
    <2>5. n >= m + d
      <3>1. CASE d = 2
        <4>1. i + 1 <= n
          BY <2>1, <2>2
        <4> QED
          BY <2>4, <3>1, <4>1
      <3>2. CASE d = 4 /\ i + 3 <= n
        BY <2>4, <3>2
      <3>3. CASE d = 4 /\ i + 1 <= n /\ b[i].c = "LF" /\ b[i + 1].c = "LF"
        <4>1. SUFFICES ASSUME n < m + 4 PROVE FALSE
          BY <3>3
        <4>2. i = m + 1 \/ i = m + 2
          BY <2>4, <3>3, <4>1
        <4>3. CASE i = m + 1
          <5>1. m + 1 \in 1 .. m + d /\ m + 1 <= n
            BY <3>3, <4>3
          <5>2. b[m + 1] = f[m + 1]
            BY Zenon, <1>4, <5>1
          <5> QED
            BY <1>2, <3>3, <4>3, <5>2
        <4>4. CASE i = m + 2
          <5>1. i + 1 = m + 3 /\ m + 3 \in 1 .. m + d /\ m + 3 <= n
            BY <3>3, <4>4
          <5>2. b[m + 3] = f[m + 3]
            BY Zenon, <1>4, <5>1
          <5> QED
            BY <1>2, <3>3, <5>1, <5>2
        <4> QED
          BY <4>2, <4>3, <4>4
      <3> QED
        BY <1>1, <2>1, <2>2, <3>1, <3>2, <3>3
    <2> QED
      BY <2>2, <2>4, <2>5
  <1>6. ASSUME n >= m + d PROVE <<m + 1, d>> \in Boundaries(b)
    <2>1. m + 1 \in 1 .. n /\ m + 1 + 1 = m + 2 /\ m + 1 + 2 = m + 3 /\ m + 1 + 3 = m + 4
      BY <1>6, <1>13
    <2>2. CASE d = 2
      <3>1. b[m + 1].c = "LF" /\ b[m + 2].c = "LF" /\ m + 2 <= n
        <4>1. m + 1 \in 1 .. m + d /\ m + 2 \in 1 .. m + d /\ m + 1 <= n /\ m + 2 <= n
          BY <1>6, <1>13, <2>2
        <4>2. b[m + 1] = f[m + 1] /\ b[m + 2] = f[m + 2]
          BY Zenon, <1>4, <4>1
        <4> QED
          BY <1>2, <2>2, <4>1, <4>2
      <3> QED
        BY <1>10, <2>1, <2>2, <3>1, BoundariesAre
    <2>3. CASE d = 4
      <3>1. b[m + 1].c = "CR" /\ b[m + 2].c = "LF" /\ b[m + 3].c = "CR" /\ b[m + 4].c = "LF"
            /\ m + 4 <= n
        <4>1. /\ {m + 1, m + 2, m + 3, m + 4} \subseteq 1 .. m + d
              /\ m + 1 <= n /\ m + 2 <= n /\ m + 3 <= n /\ m + 4 <= n
          BY <1>6, <2>3
        <4>2. b[m + 1] = f[m + 1] /\ b[m + 2] = f[m + 2] /\ b[m + 3] = f[m + 3] /\ b[m + 4] = f[m + 4]
          BY Zenon, <1>4, <4>1
        <4> QED
          BY <1>2, <2>3, <4>1, <4>2
      <3> QED
        BY <1>10, <2>1, <2>3, <3>1, BoundariesAre
    <2> QED
      BY <1>1, <2>2, <2>3
  <1>7. ASSUME NEW y \in Boundaries(b), y[1] = m + 1 PROVE y = <<m + 1, d>>
    <2>1. n >= m + d
      BY <1>5
    <2>2. b[m + 1] = f[m + 1]
      <3>1. m + 1 \in 1 .. m + d /\ m + 1 <= n
        BY <1>13, <2>1
      <3> QED
        BY Zenon, <1>4, <3>1
    <2>3. \/ y = <<y[1], 2>> /\ b[y[1]].c = "LF"
          \/ y = <<y[1], 4>> /\ b[y[1]].c = "CR"
      BY BoundariesAre
    <2> QED
      BY <1>1, <1>2, <1>7, <2>2, <2>3
  <1>8. ASSUME Boundaries(b) # {}
        PROVE  /\ Boundary(b) = <<m + 1, d>>
               /\ \A i \in 1 .. m : i <= n /\ b[i] = f[i]
               /\ SubSeq(b, m + 1 + d, n) \in Seq(Bytes)
               /\ SubSeq(b, m + 1 + d, n) \o w = more
    <2>1. n >= m + d
      BY <1>5, <1>8
    <2>2. <<m + 1, d>> \in Boundaries(b)
      BY <1>6, <2>1
    <2> DEFINE First(z) == z \in Boundaries(b) /\ \A y \in Boundaries(b) : z[1] <= y[1]
    <2>3. First(<<m + 1, d>>)
      BY <1>5, <2>2
    <2>4. Boundary(b) = CHOOSE z : First(z)
      BY DEF Boundary
    <2>5. First(Boundary(b))
      <3> HIDE DEF First
      <3> QED
        BY <2>3, <2>4
    <2>6. Boundary(b)[1] = m + 1
      <3> HIDE DEF Boundaries
      <3>1. Boundary(b)[1] <= m + 1
        <4>1. <<m + 1, d>>[1] = m + 1
          OBVIOUS
        <4>2. Boundary(b)[1] <= <<m + 1, d>>[1]
          BY Zenon, <2>2, <2>5
        <4> QED
          BY Zenon, <4>1, <4>2
      <3>2. Boundary(b)[1] \in Nat /\ Boundary(b)[1] >= m + 1
        BY <1>5, <2>5
      <3> QED
        BY <1>1, <3>1, <3>2
    <2>7. Boundary(b) = <<m + 1, d>>
      BY <1>7, <2>5, <2>6
    <2>8. \A i \in 1 .. m : i <= n /\ b[i] = f[i]
      BY <1>1, <1>11, <1>4, <2>1
    <2> DEFINE left == SubSeq(b, m + 1 + d, n)
               k == n - (m + d)
    <2>9. /\ left \in Seq(Bytes) /\ Len(left) = k
          /\ k \in Nat /\ \A i \in 1 .. k : left[i] = b[m + d + i]
      <3> HIDE DEF Bytes
      <3>1. m + 1 + d \in 1 .. n + 1 /\ k \in Nat
        BY <1>13, <2>1
      <3>2. PICK from \in 1 .. n + 1 : from = m + 1 + d
        BY <3>1
      <3>6. n = Len(b) /\ b \in Seq(Bytes)
        BY <1>10
      <3>3. /\ SubSeq(b, from, n) \in Seq(Bytes) /\ Len(SubSeq(b, from, n)) = n - from + 1
            /\ \A i \in 1 .. n - from + 1 : SubSeq(b, from, n)[i] = b[from + i - 1]
        BY <3>6
      <3>4. n - from + 1 = k
        BY <3>2
      <3>5. \A i \in 1 .. k : from + i - 1 = m + d + i
        <4> SUFFICES ASSUME NEW i \in 1 .. k PROVE from + i - 1 = m + d + i
          OBVIOUS
        <4> HIDE DEF k
        <4>1. i \in Int
          BY <3>1
        <4> QED
          BY <3>2, <4>1
      <3> QED
        BY <3>1, <3>2, <3>3, <3>4, <3>5
    <2> HIDE DEF left, k
    <2>14. left \in Seq(Bytes) /\ w \in Seq(Bytes)
      BY <2>9
    <2>10. /\ Len(left \o w) = k + u
           /\ \A i \in 1 .. k : (left \o w)[i] = left[i]
           /\ \A j \in 1 .. u : (left \o w)[k + j] = w[j]
           /\ left \o w \in Seq(Bytes)
      <3> HIDE DEF Bytes
      <3>1. \A j \in 1 .. u : (left \o w)[Len(left) + j] = w[j]
        BY <1>10, <2>9, SecondOfConcat
      <3>2. Len(left \o w) = k + u /\ (\A i \in 1 .. k : (left \o w)[i] = left[i])
            /\ left \o w \in Seq(Bytes)
        <4>1. /\ Len(left \o w) = Len(left) + Len(w) /\ left \o w \in Seq(Bytes)
              /\ \A i \in 1 .. Len(left) : (left \o w)[i] = left[i]
          BY <2>14
        <4> QED
          BY Zenon, <1>10, <2>9, <4>1
      <3> QED
        BY <2>9, <3>1, <3>2
    <2>11. k + u = v /\ m + d + k = n /\ k \in Nat /\ n \in Nat
      BY <1>12, <2>9 DEF k
    <2>12. ASSUME NEW i \in 1 .. v PROVE (left \o w)[i] = more[i]
      <3>1. x[m + d + i] = more[i]
        BY <1>11
      <3>2. CASE i <= k
        <4>1. i \in 1 .. k /\ m + d + i \in 1 .. n
          BY <2>11, <3>2
        <4>2. (left \o w)[i] = b[m + d + i] /\ x[m + d + i] = b[m + d + i]
          BY Zenon, <1>11, <2>9, <2>10, <4>1
        <4> QED
          BY <3>1, <4>2
      <3>3. CASE i > k
        <4>1. PICK j \in 1 .. u : i = k + j
          <5>1. i - k \in 1 .. u /\ i = k + (i - k)
            BY <1>11, <2>11, <3>3
          <5> QED
            BY <5>1
        <4>2. m + d + i = n + j
          BY <2>11, <4>1
        <4>3. (left \o w)[i] = w[j] /\ x[n + j] = w[j]
          BY <1>11, <2>10, <4>1
        <4> QED
          BY <3>1, <4>2, <4>3
      <3>4. i <= k \/ i > k
        BY <2>11
      <3> QED
        BY Zenon, <3>2, <3>3, <3>4
    <2>13. left \o w = more
      <3> DEFINE l == left \o w
      <3>1. l \in Seq(Bytes) /\ Len(l) = v /\ \A i \in 1 .. v : l[i] = more[i]
        BY <2>10, <2>11, <2>12
      <3> HIDE DEF l, Bytes
      <3>2. l = more
        BY <1>10, <3>1
      <3> QED
        BY <3>2 DEF l
    <2> QED
      BY <2>7, <2>8, <2>9, <2>13 DEF left
  <1>9. w = <<>> => Boundaries(b) # {}
    <2>1. w = <<>> => u = 0
      BY <1>10
    <2>2. w = <<>> => n >= m + d
      BY <1>1, <1>11, <2>1
    <2> QED
      BY <1>6, <2>2
  <1> QED
    BY <1>1, <1>8, <1>9, <1>10 DEF f, EventFirst

\* The data of a whole frame is its payload.
LEMMA DataIs ==
    ASSUME NEW p \in Payloads, NEW b \in Seq(Bytes),
           \A i \in 1 .. ContentLen(p) : i <= Len(b) /\ b[i] = Frame(p)[i]
    PROVE  Data(SubSeq(b, 1, ContentLen(p))) = IF p.type = "comment" THEN Plain("comment") ELSE p
  <1>1. PICK m \in Nat : /\ m = ContentLen(p) /\ (m = 1 \/ m = 2)
                         /\ (m = 1 <=> p.type = "comment")
    BY DEF ContentLen
  <1> DEFINE e == SubSeq(b, 1, m)
  <1>2. m <= Len(b) /\ \A i \in 1 .. m : b[i] = Frame(p)[i]
    BY <1>1
  <1>3. DOMAIN e = 1 .. m /\ Len(e) = m /\ \A i \in 1 .. m : e[i] = Frame(p)[i]
    <2> HIDE DEF Bytes
    <2>1. e \in Seq(Bytes) /\ Len(e) = m /\ \A i \in 1 .. m : e[i] = b[i]
      BY <1>1, <1>2
    <2> QED
      BY <1>2, <2>1
  <1> HIDE DEF e
  <1>4. CASE p.type = "comment"
    <2>1. m = 1 /\ e[1].c = "colon"
      <3>1. m = 1 /\ e[1] = Frame(p)[1] /\ Frame(p)[1] = Byte("colon", p)
        BY <1>1, <1>3, <1>4, FrameIs
      <3> QED
        BY <3>1 DEF Byte
    <2>2. {i \in DOMAIN e : e[i].c = "head"} = {}
      BY <1>3, <2>1
    <2> QED
      BY <1>1, <1>4, <2>2 DEF Data, e
  <1>5. CASE p.type # "comment"
    <2>1. m = 2 /\ e[1] = Byte("head", p) /\ e[2] = Byte("tail", p)
      BY <1>1, <1>3, <1>5, FrameIs
    <2>2. e[1].c = "head" /\ e[2].c = "tail" /\ e[1].p = p /\ e[2].p = p
      BY <2>1 DEF Byte
    <2>3. {i \in DOMAIN e : e[i].c = "head"} # {}
      BY <1>3, <2>1, <2>2
    <2>4. Data(e) = p
      BY <1>3, <2>1, <2>2, <2>3 DEF Data
    <2> QED
      BY <1>1, <1>5, <2>4 DEF e
  <1> QED
    BY <1>4, <1>5

-----------------------------------------------------------------------------
(* What has been read and what is under way                                *)

Middles == {P("chunk", t, None, "") : t \in Pieces} \cup {Plain("comment")}

\* What the payload of Done(success) counts: every chunk of a token, and the
\* last token, which has none of its own.
FinalTokens == IF server.usage THEN Cardinality(Chunks) + 1 ELSE None
Final == P("final", "", FinalTokens, "stop")

Seen(texts, tokens, reason) ==
    [texts |-> texts, tokens |-> tokens, reason |-> reason, failure |-> "", done |-> FALSE]

\* How the stream ends: not yet or never, well, with an error, with rubbish.
EndsWith(tail) ==
    \/ /\ tail = <<>>
       /\ phase = "closed" /\ status = 200 /\ LoadGenBody(body) => trouble = "process"
    \/ tail = <<Final, Plain("done")>> /\ phase = "closed" /\ trouble \in {"", "load"}
    \/ tail = <<Plain("error"), Plain("done")>> /\ phase = "closed" /\ trouble = "execution"
    \/ tail = <<Plain("junk")>> /\ phase = "closed" /\ trouble = "protocol" /\ server.foreign

\* The client is in the middle: it has seen the texts of what it has read, and
\* the bytes in its buffer and on the wire are the frames of the rest.
Midway ==
    \E read, rest \in Seq(Middles), tail \in Seq(Payloads) :
       /\ sent = read \o (rest \o tail)
       /\ buf \o wire = Frames(rest \o tail)
       /\ seen = Seen(TextsOf(read), None, "")
       /\ EndsWith(tail)

\* Only [DONE] is missing.
AtEnd ==
    \E read \in Seq(Middles) :
       /\ sent = read \o <<Final, Plain("done")>>
       /\ buf \o wire = Frames(<<Plain("done")>>)
       /\ seen = Seen(TextsOf(read), FinalTokens, "stop")
       /\ phase = "closed" /\ trouble \in {"", "load"}

ReadingInv ==
    /\ sent \in Seq(Payloads) /\ buf \in Seq(Bytes) /\ wire \in Seq(Bytes)
    /\ Midway \/ AtEnd

StreamInv ==
    /\ phase = "streaming" => trouble \in {"", "load"}
    /\ record.made => phase \in {"closed", "exited"} /\ RecordTruthful
    /\ ~record.made => ReadingInv

LEMMA MiddleIs ==
    ASSUME NEW p \in Middles
    PROVE  /\ p \in Payloads /\ p.type \in {"chunk", "comment"}
           /\ p.tokens = None /\ p.reason = ""
           /\ p.type = "comment" => p = Plain("comment") /\ p.text = ""
  <1>1. CASE p = Plain("comment")
    BY <1>1, PlainTyped DEF Plain, P
  <1>2. CASE p \in {P("chunk", t, None, "") : t \in Pieces}
    <2>1. PICK t \in Pieces : p = P("chunk", t, None, "")
      BY <1>2
    <2>2. p = [type |-> "chunk", text |-> t, tokens |-> None, reason |-> ""]
      BY <2>1 DEF P
    <2>3. t \in Texts
      BY DEF Texts
    <2>4. p \in Payloads
      <3> DEFINE kinds == {"chunk", "comment", "final", "done", "error", "junk"}
                 reasons == {"", "stop"}
                 T == Texts
      <3>2. "chunk" \in kinds /\ t \in T /\ None \in Int /\ "" \in reasons
        BY <2>3 DEF None
      <3> HIDE DEF kinds, reasons, T
      <3>3. p \in [type : kinds, text : T, tokens : Int, reason : reasons]
        BY <2>2, <3>2
      <3> QED
        BY <3>3 DEF Payloads, kinds, reasons, T
    <2> QED
      BY <2>2, <2>4
  <1> QED
    BY <1>1, <1>2 DEF Middles

LEMMA MiddlesTyped ==
    ASSUME NEW ps \in Seq(Middles)
    PROVE  ps \in Seq(Payloads)
  <1>1. Middles \subseteq Payloads
    BY MiddleIs
  <1> DEFINE M == Middles
             Q == Payloads
  <1>2. ps \in Seq(M) /\ M \subseteq Q
    BY <1>1
  <1> HIDE DEF M, Q
  <1>3. ps \in Seq(Q)
    BY <1>2
  <1> QED
    BY <1>3 DEF Q

LEMMA Associative ==
    \A x, y, z \in Seq(Payloads) : (x \o y) \o z = x \o (y \o z)
  OBVIOUS

LEMMA NothingTyped == <<>> \in Seq(Payloads)
  OBVIOUS

LEMMA SeenGoesOn ==
    \A texts, tokens, reason : /\ Seen(texts, tokens, reason).failure = ""
                               /\ Seen(texts, tokens, reason).done = FALSE
  BY DEF Seen

LEMMA TextsOfNone == TextsOf(<<>>) = <<>>
  <1>1. [i \in DOMAIN <<>> |-> IF <<>>[i].text = "" THEN <<>> ELSE <<<<>>[i].text>>] = <<>>
    OBVIOUS
  <1> QED
    BY <1>1, FlattenEmpty DEF TextsOf

\* Two payloads without text have none.
LEMMA TextsOfEnd ==
    ASSUME NEW p \in Payloads, NEW q \in Payloads, p.text = "", q.text = ""
    PROVE  <<p, q>> \in Seq(Payloads) /\ TextsOf(<<p, q>>) = <<>>
  <1> DEFINE Q == Payloads
  <1>1. p \in Q /\ q \in Q
    OBVIOUS
  <1>2. TextsOf(<<p>>) = <<>> /\ TextsOf(<<q>>) = <<>>
    BY TextsOfOne
  <1> HIDE DEF Q
  <1>3. /\ <<p>> \in Seq(Q) /\ <<q>> \in Seq(Q) /\ <<p, q>> \in Seq(Q)
        /\ <<p>> \o <<q>> = <<p, q>>
    BY <1>1, PairIs
  <1>4. TextsOf(<<p>> \o <<q>>) = TextsOf(<<p>>) \o TextsOf(<<q>>)
    BY <1>3, TextsOfTwo DEF Q
  <1> QED
    BY Zenon, <1>2, <1>3, <1>4, NothingTwice DEF Q

LEMMA FinalIs ==
    ASSUME sent \in Seq(Payloads)
    PROVE  /\ FinalTokens \in Int /\ Final \in Payloads
           /\ Final.text = "" /\ Final.type = "final"
           /\ Final.tokens = FinalTokens /\ Final.reason = "stop"
  <1>1. IsFiniteSet(Chunks)
    <2>1. Chunks \subseteq 1 .. Len(sent)
      BY DEF Chunks
    <2>2. IsFiniteSet(1 .. Len(sent))
      BY FS_Interval
    <2> QED
      BY <2>1, <2>2, FS_Subset
  <1>2. Cardinality(Chunks) \in Nat
    BY <1>1, FS_CardinalityType
  <1>3. FinalTokens \in Int
    BY <1>2 DEF FinalTokens, None
  <1>4. Final \in Payloads
    BY <1>3 DEF Final, P, Payloads, Texts
  <1> QED
    BY <1>3, <1>4 DEF Final, P

\* What After makes of the payloads of a stream that goes well.
LEMMA AfterMiddle ==
    ASSUME NEW p \in Middles, NEW ts \in Seq(Texts)
    PROVE  After(Seen(ts, None, ""), p)
              = Seen(ts \o (IF p.text = "" THEN <<>> ELSE <<p.text>>), None, "")
  <1>1. /\ p \in Payloads /\ p.type \in {"chunk", "comment"}
        /\ p.tokens = None /\ p.reason = ""
        /\ p.type = "comment" => p.text = ""
    BY MiddleIs
  <1> DEFINE s == Seen(ts, None, "")
             x == IF p.text = "" THEN <<>> ELSE <<p.text>>
  <1>2. p.text \in Texts
    BY <1>1 DEF Payloads
  <1>3. /\ p.text = "" => ts \o x = ts
        /\ p.text # "" => ts \o x = Append(ts, p.text)
    <2>1. PICK t \in Texts : t = p.text
      BY <1>2
    <2>2. ts \o <<>> = ts /\ ts \o <<t>> = Append(ts, t)
      <3> HIDE DEF Texts
      <3> QED
        OBVIOUS
    <2> QED
      BY <2>1, <2>2
  <1>4. CASE p.type = "comment"
    <2>1. After(s, p) = s
      BY <1>4 DEF After
    <2> QED
      BY Zenon, <1>1, <1>3, <1>4, <2>1
  <1>5. CASE p.type = "chunk"
    <2>1. After(s, p) = [s EXCEPT !.tokens = IF p.tokens = None THEN @ ELSE p.tokens,
                                  !.reason = IF p.reason = "" THEN @ ELSE p.reason,
                                  !.texts = IF p.text = "" THEN @ ELSE Append(@, p.text)]
      <3> HIDE DEF s
      <3> QED
        BY <1>5 DEF After
    <2>2. CASE p.text = ""
      <3>1. After(s, p) = Seen(ts, None, "")
        BY <1>1, <2>1, <2>2 DEF Seen
      <3> QED
        BY Zenon, <1>3, <2>2, <3>1
    <2>3. CASE p.text # ""
      <3>1. After(s, p) = Seen(Append(ts, p.text), None, "")
        BY <1>1, <2>1, <2>3 DEF Seen
      <3> QED
        BY Zenon, <1>3, <2>3, <3>1
    <2> QED
      BY <2>2, <2>3
  <1> QED
    BY <1>1, <1>4, <1>5

LEMMA AfterFinal ==
    ASSUME sent \in Seq(Payloads), NEW ts
    PROVE  After(Seen(ts, None, ""), Final) = Seen(ts, FinalTokens, "stop")
  <1> DEFINE s == Seen(ts, None, "")
  <1>1. /\ Final.text = "" /\ Final.type = "final"
        /\ Final.tokens = FinalTokens /\ Final.reason = "stop"
    BY FinalIs
  <1>2. After(s, Final)
           = [s EXCEPT !.tokens = IF Final.tokens = None THEN @ ELSE Final.tokens,
                       !.reason = IF Final.reason = "" THEN @ ELSE Final.reason,
                       !.texts = IF Final.text = "" THEN @ ELSE Append(@, Final.text)]
    <2> HIDE DEF s
    <2> QED
      BY <1>1 DEF After
  <1>3. PICK n : n = FinalTokens
    OBVIOUS
  <1>4. After(s, Final) = Seen(ts, n, "stop")
    BY <1>1, <1>2, <1>3 DEF Seen
  <1> QED
    BY <1>3, <1>4

\* Payloads that are no chunks leave the count of the chunks.
LEMMA FinalStays ==
    ASSUME sent \in Seq(Payloads), NEW ps \in Seq(Payloads), sent' = sent \o ps,
           \A i \in 1 .. Len(ps) : ps[i].type # "chunk", UNCHANGED server
    PROVE  FinalTokens' = FinalTokens /\ Final' = Final
  <1>1. Chunks' = Chunks
    <2>1. PICK n \in Nat, m \in Nat : n = Len(sent) /\ m = Len(ps)
      OBVIOUS
    <2> HIDE DEF Payloads
    <2>2. /\ DOMAIN sent' = 1 .. n + m /\ DOMAIN sent = 1 .. n
          /\ \A i \in 1 .. n : sent'[i] = sent[i]
      BY <2>1
    <2>3. \A i \in 1 .. m : sent'[n + i] = ps[i]
      BY <2>1, SecondOfConcat
    <2>4. ASSUME NEW i \in 1 .. n + m, i > n PROVE sent'[i].type # "chunk"
      <3>1. i - n \in 1 .. m /\ n + (i - n) = i
        BY <2>4
      <3>2. sent'[n + (i - n)] = ps[i - n]
        BY Zenon, <2>3, <3>1
      <3>3. ps[i - n].type # "chunk"
        BY Zenon, <2>1, <3>1
      <3> QED
        BY Zenon, <3>1, <3>2, <3>3
    <2>5. /\ 1 .. n \subseteq 1 .. n + m
          /\ \A i \in 1 .. n + m : i \in 1 .. n \/ i > n
      OBVIOUS
    <2>6. /\ Chunks' = {i \in 1 .. n + m : sent'[i].type = "chunk"}
          /\ Chunks = {i \in 1 .. n : sent[i].type = "chunk"}
      BY <2>2 DEF Chunks
    <2> QED
      BY Zenon, <2>2, <2>4, <2>5, <2>6
  <1> QED
    BY <1>1 DEF FinalTokens, Final

\* The frames depend on the service alone.
LEMMA FramesStay ==
    ASSUME UNCHANGED server, NEW ps
    PROVE  Frames(ps)' = Frames(ps)
  BY DEF Frames, Frame

-----------------------------------------------------------------------------
(* Each action keeps StreamInv                                             *)

\* The handler before the stream, the network, and a process that ends.
LEMMA OtherKeepsReading ==
    ASSUME ReadingInv, UNCHANGED <<server, sent, seen>>,
           buf' \in Seq(Bytes), wire' \in Seq(Bytes), buf' \o wire' = buf \o wire,
           \/ UNCHANGED <<phase, status, body, trouble>>
           \/ /\ phase # "closed"
              /\ phase' = "closed" /\ status' = 200 /\ LoadGenBody(body)' => trouble' = "process"
    PROVE  ReadingInv'
  <1>1. \A ps : Frames(ps)' = Frames(ps)
    BY FramesStay
  <1>2. Final' = Final /\ FinalTokens' = FinalTokens
    BY DEF Final, FinalTokens, Chunks
  <1>3. /\ sent' \in Seq(Payloads) /\ Texts' = Texts /\ Payloads' = Payloads /\ Bytes' = Bytes
        /\ Middles' = Middles
    BY DEF ReadingInv
  <1>4. CASE Midway
    <2>1. PICK read \in Seq(Middles), rest \in Seq(Middles), tail \in Seq(Payloads) :
             /\ sent = read \o (rest \o tail)
             /\ buf \o wire = Frames(rest \o tail)
             /\ seen = Seen(TextsOf(read), None, "")
             /\ EndsWith(tail)
      BY <1>4 DEF Midway
    <2>2. EndsWith(tail)'
      <3>1. CASE UNCHANGED <<phase, status, body, trouble>>
        <4>1. LoadGenBody(body)' = LoadGenBody(body)
          BY <3>1
        <4> QED
          BY <1>2, <2>1, <3>1, <4>1 DEF EndsWith
      <3>2. CASE /\ phase # "closed"
                 /\ phase' = "closed" /\ status' = 200 /\ LoadGenBody(body)' => trouble' = "process"
        BY <2>1, <3>2 DEF EndsWith
      <3> QED
        BY <3>1, <3>2
    <2>3. /\ sent' = read \o (rest \o tail)
          /\ buf' \o wire' = Frames(rest \o tail)'
          /\ seen' = Seen(TextsOf(read), None, "")
      BY <1>1, <2>1
    <2>4. Midway'
      BY <2>2, <2>3 DEF Midway
    <2> QED
      BY <1>3, <2>4 DEF ReadingInv
  <1>5. CASE AtEnd
    <2>1. PICK read \in Seq(Middles) :
             /\ sent = read \o <<Final, Plain("done")>>
             /\ buf \o wire = Frames(<<Plain("done")>>)
             /\ seen = Seen(TextsOf(read), FinalTokens, "stop")
             /\ phase = "closed" /\ trouble \in {"", "load"}
      BY <1>5 DEF AtEnd
    <2>2. phase' = "closed" /\ trouble' \in {"", "load"}
      BY <2>1
    <2>3. /\ sent' = read \o <<Final', Plain("done")>>
          /\ buf' \o wire' = Frames(<<Plain("done")>>)'
          /\ seen' = Seen(TextsOf(read), FinalTokens', "stop")
      BY <1>1, <1>2, <2>1
    <2>4. AtEnd'
      BY <2>2, <2>3 DEF AtEnd
    <2> QED
      BY <1>3, <2>4 DEF ReadingInv
  <1> QED
    BY <1>4, <1>5 DEF ReadingInv

\* stream_response writes more, or the end.
LEMMA WriteKeepsReading ==
    ASSUME ReadingInv, phase = "streaming", NEW ps \in Seq(Payloads), Write(ps),
           UNCHANGED <<server, buf, seen>>,
           \/ ps \in Seq(Middles) /\ phase' = phase
           \/ EndsWith(ps)'
    PROVE  ReadingInv'
  <1>1. sent' = sent \o ps /\ wire' = wire \o Frames(ps) /\ buf' = buf /\ seen' = seen
    BY DEF Write
  <1>2. /\ sent \in Seq(Payloads) /\ buf \in Seq(Bytes) /\ wire \in Seq(Bytes)
        /\ Frames(ps) \in Seq(Bytes)
    BY FramesOf DEF ReadingInv
  <1>3. /\ sent' \in Seq(Payloads) /\ buf' \in Seq(Bytes) /\ wire' \in Seq(Bytes)
        /\ buf' \o wire' = (buf \o wire) \o Frames(ps)
    <2>1. wire \o Frames(ps) \in Seq(Bytes)
      BY <1>2, ConcatIs
    <2>2. sent \o ps \in Seq(Payloads)
      BY SMTT(40), <1>2
    <2>3. (buf \o wire) \o Frames(ps) = buf \o (wire \o Frames(ps))
      BY SMTT(40), <1>2
    <2> QED
      BY Zenon, <1>1, <1>2, <2>1, <2>2, <2>3
  <1>4. ~AtEnd
    <2>1. AtEnd => phase = "closed"
      BY Zenon DEF AtEnd
    <2> QED
      BY <2>1
  <1>5. PICK read \in Seq(Middles), rest \in Seq(Middles), tail \in Seq(Payloads) :
             /\ sent = read \o (rest \o tail)
             /\ buf \o wire = Frames(rest \o tail)
             /\ seen = Seen(TextsOf(read), None, "")
             /\ EndsWith(tail)
    BY <1>4 DEF ReadingInv, Midway
  <1>6. /\ tail = <<>> /\ read \in Seq(Payloads) /\ rest \in Seq(Payloads)
        /\ rest \o <<>> = rest
    BY <1>5, MiddlesTyped, ConcatIs DEF EndsWith
  <1>7. /\ sent' = read \o (rest \o ps)
        /\ buf' \o wire' = Frames(rest \o ps)
    <2>1. sent' = (read \o rest) \o ps /\ (read \o rest) \o ps = read \o (rest \o ps)
      <3>1. sent = read \o rest
        BY Zenon, <1>5, <1>6
      <3>2. (read \o rest) \o ps = read \o (rest \o ps)
        <4>1. \A x, y, z \in Seq(Payloads) : (x \o y) \o z = x \o (y \o z)
          OBVIOUS
        <4> QED
          BY Zenon, <1>6, <4>1
      <3> QED
        BY Zenon, <1>1, <3>1, <3>2
    <2>2. Frames(rest \o ps) = Frames(rest) \o Frames(ps)
      BY <1>6, FramesOf
    <2> QED
      BY Zenon, <1>3, <1>5, <1>6, <2>1, <2>2
  <1>8. \A qs : Frames(qs)' = Frames(qs)
    BY FramesStay
  <1>9. CASE ps \in Seq(Middles) /\ phase' = phase
    <2>1. rest \o ps \in Seq(Middles) /\ (rest \o ps) \o <<>> = rest \o ps
          /\ <<>> \in Seq(Payloads)
      BY <1>9, ConcatIs
    <2>2. EndsWith(<<>>)'
      BY <1>9 DEF EndsWith
    <2>3. /\ sent' = read \o ((rest \o ps) \o <<>>)
          /\ buf' \o wire' = Frames((rest \o ps) \o <<>>)'
          /\ seen' = Seen(TextsOf(read), None, "")
      BY Zenon, <1>1, <1>5, <1>7, <1>8, <2>1
    <2>4. Midway'
      BY Zenon, <2>1, <2>2, <2>3 DEF Midway
    <2> QED
      BY <1>3, <2>4 DEF ReadingInv
  <1>10. CASE EndsWith(ps)'
    <2>1. /\ sent' = read \o (rest \o ps)
          /\ buf' \o wire' = Frames(rest \o ps)'
          /\ seen' = Seen(TextsOf(read), None, "")
      BY Zenon, <1>1, <1>5, <1>7, <1>8
    <2>2. Midway'
      BY Zenon, <1>10, <2>1 DEF Midway
    <2> QED
      BY <1>3, <2>2 DEF ReadingInv
  <1> QED
    BY <1>9, <1>10

\* The class of a failure is that of its cause.
ClassOfCause ==
    \/ record.class \in {"connection", "timeout"} /\ status = 0
    \/ record.class = "http_429" /\ status = 429
    \/ record.class = "http_4xx" /\ status \in {400, 404}
    \/ record.class = "http_5xx" /\ status = 500
    \/ record.class = "stream_error" /\ trouble \in {"network", "execution"}
    \/ record.class = "protocol_error" /\ server.foreign /\ trouble = "protocol"
    \/ record.class = "no_done" /\ trouble = "process"

\* A record of a request that did not go well.
LEMMA FailedRecord ==
    ASSUME NEW read \in Seq(Payloads), NEW more \in Seq(Payloads), sent' = read \o more,
           record'.made, ~record'.ok, record'.texts = TextsOf(read), ClassOfCause'
    PROVE  RecordTruthful'
  <1>1. IsPrefix(record'.texts, TextsOf(sent'))
    <2>1. /\ TextsOf(sent') = TextsOf(read) \o TextsOf(more)
          /\ TextsOf(read) \in Seq(Texts) /\ TextsOf(more) \in Seq(Texts)
      BY TextsOfTwo
    <2> QED
      BY <2>1, PrefixOfConcat
  <1> QED
    BY <1>1 DEF RecordTruthful, ClassOfCause

\* What is next in the buffer, and what reading it leaves.
LEMMA NextEvent ==
    ASSUME buf \in Seq(Bytes), wire \in Seq(Bytes), Boundaries(buf) # {},
           NEW p \in Payloads, NEW more \in Seq(Payloads), ReadEvent,
           buf \o wire = Frames(<<p>> \o more), p.type = "comment" => p = Plain("comment")
    PROVE  /\ seen' = After(seen, p) /\ wire' = wire
           /\ buf' \in Seq(Bytes) /\ buf' \o wire' = Frames(more)
           /\ IF After(seen, p).failure # "" \/ After(seen, p).done
              THEN Conclude(After(seen, p)) ELSE UNCHANGED record
  <1> DEFINE m == ContentLen(p)
             d == EndLen
             left == SubSeq(buf, m + 1 + d, Len(buf))
  <1>1. buf \o wire = Frame(p) \o Frames(more) /\ Frames(more) \in Seq(Bytes)
    <2>1. <<p>> \in Seq(Payloads)
      BY PairIs
    <2> QED
      BY <2>1, FramesOf, FramesOfOne
  <1>2. /\ Boundary(buf) = <<m + 1, d>>
        /\ \A i \in 1 .. m : i <= Len(buf) /\ buf[i] = Frame(p)[i]
        /\ left \in Seq(Bytes)
        /\ left \o wire = Frames(more)
    <2>1. EventFirst(p, Frames(more), buf, wire)
      BY <1>1, FirstBoundary
    <2> QED
      BY Zenon, <2>1 DEF EventFirst
  <1>3. Data(SubSeq(buf, 1, m)) = p
    BY <1>2, DataIs
  <1>4. m \in Nat /\ m + 1 - 1 = m
    BY DEF ContentLen
  <1> HIDE DEF m, d
  <1>5. Boundary(buf)[1] = m + 1 /\ Boundary(buf)[2] = d
    BY <1>2
  <1>6. Boundary(buf)[1] - 1 = m
    BY <1>4, <1>5
  <1>7. /\ buf' = SubSeq(buf, Boundary(buf)[1] + Boundary(buf)[2], Len(buf))
        /\ seen' = After(seen, Data(SubSeq(buf, 1, Boundary(buf)[1] - 1)))
        /\ wire' = wire
        /\ IF After(seen, Data(SubSeq(buf, 1, Boundary(buf)[1] - 1))).failure # ""
              \/ After(seen, Data(SubSeq(buf, 1, Boundary(buf)[1] - 1))).done
           THEN Conclude(After(seen, Data(SubSeq(buf, 1, Boundary(buf)[1] - 1))))
           ELSE UNCHANGED record
    BY Zenon DEF ReadEvent
  <1>8. After(seen, Data(SubSeq(buf, 1, Boundary(buf)[1] - 1))) = After(seen, p)
    BY Zenon, <1>3, <1>6
  <1>9. buf' = left
    BY Zenon, <1>5, <1>7 DEF left
  <1> QED
    BY Zenon, <1>2, <1>7, <1>8, <1>9

LEMMA NothingUnderWay ==
    ASSUME buf \in Seq(Bytes), wire \in Seq(Bytes), buf \o wire = <<>>
    PROVE  Boundaries(buf) = {}
  <1>1. Len(buf) = 0
    <2>1. Len(buf \o wire) = Len(buf) + Len(wire) /\ Len(buf \o wire) = 0
          /\ Len(buf) \in Nat /\ Len(wire) \in Nat
      OBVIOUS
    <2> QED
      BY <2>1
  <1>2. \A y \in Boundaries(buf) : y[1] \in 1 .. Len(buf)
    BY BoundariesAre
  <1> QED
    BY <1>1, <1>2

\* At the end of the stream, no event is left in the buffer unread.
LEMMA NothingLeft ==
    ASSUME buf \in Seq(Bytes), wire = <<>>, Boundaries(buf) = {},
           NEW todo \in Seq(Payloads), buf \o wire = Frames(todo)
    PROVE  todo = <<>>
  <1> SUFFICES ASSUME todo # <<>> PROVE FALSE
    OBVIOUS
  <1>1. PICK p \in Payloads, more \in Seq(Payloads) : todo = <<p>> \o more
    <2>1. PICK p \in Payloads, more \in Seq(Payloads) : todo = Cons(p, more)
      BY HeadAndRest
    <2> QED
      BY Zenon, <2>1 DEF Cons
  <1>2. <<p>> \in Seq(Payloads)
    BY PairIs
  <1>3. buf \o wire = Frame(p) \o Frames(more) /\ Frames(more) \in Seq(Bytes)
    BY <1>1, <1>2, FramesOf, FramesOfOne
  <1>4. wire \in Seq(Bytes)
    OBVIOUS
  <1>5. EventFirst(p, Frames(more), buf, wire)
    BY <1>3, <1>4, FirstBoundary
  <1> QED
    BY <1>5 DEF EventFirst

\* What has been gathered stays the texts of what has been read.
LEMMA AfterRead ==
    ASSUME NEW p \in Middles, p \in Payloads, NEW read \in Seq(Payloads)
    PROVE  After(Seen(TextsOf(read), None, ""), p) = Seen(TextsOf(read \o <<p>>), None, "")
  <1>1. <<p>> \in Seq(Payloads)
    BY PairIs
  <1>2. TextsOf(read) \in Seq(Texts) /\ TextsOf(read \o <<p>>) = TextsOf(read) \o TextsOf(<<p>>)
    BY <1>1, TextsOfTwo
  <1>3. TextsOf(<<p>>) = IF p.text = "" THEN <<>> ELSE <<p.text>>
    BY Zenon, TextsOfOne
  <1>4. After(Seen(TextsOf(read), None, ""), p)
           = Seen(TextsOf(read) \o (IF p.text = "" THEN <<>> ELSE <<p.text>>), None, "")
    BY Zenon, <1>2, AfterMiddle
  <1> QED
    BY Zenon, <1>2, <1>3, <1>4

\* An event of the middle of the stream is read.
LEMMA ReadMiddle ==
    ASSUME ReadingInv, ReadEvent, NEW read \in Seq(Middles), NEW rest \in Seq(Middles),
           NEW tail \in Seq(Payloads), rest # <<>>,
           sent = read \o (rest \o tail), buf \o wire = Frames(rest \o tail),
           seen = Seen(TextsOf(read), None, ""), EndsWith(tail)
    PROVE  UNCHANGED record /\ ReadingInv'
  <1>1. PICK p \in Middles, rest2 \in Seq(Middles) : rest = <<p>> \o rest2
    <2>1. PICK p \in Middles, rest2 \in Seq(Middles) : rest = Cons(p, rest2)
      BY HeadAndRest
    <2> QED
      BY Zenon, <2>1 DEF Cons
  <1>2. /\ p \in Payloads /\ (p.type = "comment" => p = Plain("comment"))
        /\ <<p>> \in Seq(Payloads) /\ <<p>> \in Seq(Middles)
        /\ read \in Seq(Payloads) /\ rest2 \in Seq(Payloads)
        /\ rest2 \o tail \in Seq(Payloads) /\ read \o <<p>> \in Seq(Middles)
    <2>1. p \in Payloads /\ (p.type = "comment" => p = Plain("comment"))
      BY MiddleIs
    <2>2. <<p>> \in Seq(Payloads) /\ <<p>> \in Seq(Middles)
      BY <2>1, PairIs
    <2>3. read \in Seq(Payloads) /\ rest2 \in Seq(Payloads)
      BY MiddlesTyped
    <2> QED
      BY <2>1, <2>2, <2>3, ConcatIs
  <1>3. rest \o tail = <<p>> \o (rest2 \o tail)
        /\ read \o (<<p>> \o (rest2 \o tail)) = (read \o <<p>>) \o (rest2 \o tail)
    BY Zenon, <1>1, <1>2, Associative
  <1>4. buf \in Seq(Bytes) /\ wire \in Seq(Bytes) /\ Boundaries(buf) # {}
    BY DEF ReadingInv, ReadEvent
  <1>5. /\ seen' = After(seen, p) /\ wire' = wire
        /\ buf' \in Seq(Bytes) /\ buf' \o wire' = Frames(rest2 \o tail)
        /\ IF After(seen, p).failure # "" \/ After(seen, p).done
           THEN Conclude(After(seen, p)) ELSE UNCHANGED record
    <2>1. buf \o wire = Frames(<<p>> \o (rest2 \o tail))
      BY Zenon, <1>3
    <2> QED
      BY <1>2, <1>4, <2>1, NextEvent
  <1>6. After(seen, p) = Seen(TextsOf(read \o <<p>>), None, "")
    BY Zenon, <1>2, AfterRead
  <1>7. UNCHANGED record
    <2>1. After(seen, p).failure = "" /\ After(seen, p).done = FALSE
      BY ZenonT(60), <1>6, SeenGoesOn
    <2> QED
      BY <1>5, <2>1
  <1>8. UNCHANGED <<server, sent, phase, status, body, trouble>>
    BY DEF ReadEvent, serviceVars
  <1>9. EndsWith(tail)'
    <2>1. Final' = Final
      BY <1>8 DEF Final, FinalTokens, Chunks
    <2>2. LoadGenBody(body)' = LoadGenBody(body)
      BY <1>8
    <2> QED
      BY <1>8, <2>1, <2>2 DEF EndsWith
  <1>10. /\ sent' = (read \o <<p>>) \o (rest2 \o tail)
         /\ buf' \o wire' = Frames(rest2 \o tail)'
         /\ seen' = Seen(TextsOf(read \o <<p>>), None, "")
    <2>1. Frames(rest2 \o tail)' = Frames(rest2 \o tail)
      BY <1>8, FramesStay
    <2> QED
      BY Zenon, <1>3, <1>5, <1>6, <1>8, <2>1
  <1>11. Midway'
    BY Zenon, <1>2, <1>9, <1>10 DEF Midway
  <1>12. sent' \in Seq(Payloads) /\ wire' \in Seq(Bytes)
    BY <1>4, <1>5, <1>8 DEF ReadingInv
  <1> QED
    BY <1>5, <1>7, <1>11, <1>12 DEF ReadingInv

\* The payload with the count and the reason is read.
LEMMA ReadFinal ==
    ASSUME ReadingInv, ReadEvent, NEW read \in Seq(Middles),
           sent = read \o <<Final, Plain("done")>>,
           buf \o wire = Frames(<<Final, Plain("done")>>),
           seen = Seen(TextsOf(read), None, ""),
           phase = "closed", trouble \in {"", "load"}
    PROVE  UNCHANGED record /\ ReadingInv'
  <1>1. /\ buf \in Seq(Bytes) /\ wire \in Seq(Bytes) /\ Boundaries(buf) # {}
        /\ sent \in Seq(Payloads)
    BY DEF ReadingInv, ReadEvent
  <1>2. /\ Final \in Payloads /\ Final.type # "comment"
        /\ Plain("done") \in Payloads
    BY <1>1, FinalIs, PlainTyped
  <1>3. /\ <<Plain("done")>> \in Seq(Payloads)
        /\ <<Final>> \o <<Plain("done")>> = <<Final, Plain("done")>>
    BY <1>2, PairIs
  <1>4. /\ seen' = After(seen, Final) /\ wire' = wire
        /\ buf' \in Seq(Bytes) /\ buf' \o wire' = Frames(<<Plain("done")>>)
        /\ IF After(seen, Final).failure # "" \/ After(seen, Final).done
           THEN Conclude(After(seen, Final)) ELSE UNCHANGED record
    <2>1. PICK p \in Payloads, more \in Seq(Payloads) : p = Final /\ more = <<Plain("done")>>
      BY <1>2, <1>3
    <2>2. buf \o wire = Frames(<<p>> \o more) /\ p.type # "comment"
      BY <1>2, <1>3, <2>1
    <2> QED
      BY <1>1, <2>1, <2>2, NextEvent
  <1>5. After(seen, Final) = Seen(TextsOf(read), FinalTokens, "stop")
    BY Zenon, <1>1, AfterFinal
  <1>6. UNCHANGED record
    <2>1. After(seen, Final).failure = "" /\ After(seen, Final).done = FALSE
      BY Zenon, <1>5, SeenGoesOn
    <2> QED
      BY <1>4, <2>1
  <1>7. UNCHANGED <<server, sent, phase, trouble>>
    BY DEF ReadEvent, serviceVars
  <1>8. Final' = Final /\ FinalTokens' = FinalTokens
    BY <1>7 DEF Final, FinalTokens, Chunks
  <1>9. /\ sent' = read \o <<Final', Plain("done")>>
        /\ buf' \o wire' = Frames(<<Plain("done")>>)'
        /\ seen' = Seen(TextsOf(read), FinalTokens', "stop")
    <2>1. Frames(<<Plain("done")>>)' = Frames(<<Plain("done")>>)
      BY <1>7, FramesStay
    <2> QED
      BY Zenon, <1>4, <1>5, <1>7, <1>8, <2>1
  <1>10. phase' = "closed" /\ trouble' \in {"", "load"}
    BY <1>7
  <1>11. AtEnd'
    BY Zenon, <1>9, <1>10 DEF AtEnd
  <1>12. sent' \in Seq(Payloads) /\ wire' \in Seq(Bytes)
    BY <1>1, <1>4, <1>7
  <1> QED
    BY <1>4, <1>6, <1>11, <1>12 DEF ReadingInv

\* [DONE] is read after it: the request is recorded as one that went well.
LEMMA ReadDone ==
    ASSUME ReadingInv, ReadEvent, AtEnd
    PROVE  record'.made /\ RecordTruthful'
  <1>1. /\ buf \in Seq(Bytes) /\ wire \in Seq(Bytes) /\ Boundaries(buf) # {}
        /\ sent \in Seq(Payloads)
    BY DEF ReadingInv, ReadEvent
  <1>2. PICK read \in Seq(Middles) :
             /\ sent = read \o <<Final, Plain("done")>>
             /\ buf \o wire = Frames(<<Plain("done")>>)
             /\ seen = Seen(TextsOf(read), FinalTokens, "stop")
             /\ phase = "closed" /\ trouble \in {"", "load"}
    BY DEF AtEnd
  <1>3. /\ Plain("done") \in Payloads /\ Plain("done").type = "done" /\ Plain("done").text = ""
        /\ Final \in Payloads /\ Final.text = ""
    BY <1>1, FinalIs, PlainTyped
  <1> DEFINE next == After(seen, Plain("done"))
  <1>4. IF next.failure # "" \/ next.done THEN Conclude(next) ELSE UNCHANGED record
    <2>1. PICK p \in Payloads, more \in Seq(Payloads) : p = Plain("done") /\ more = <<>>
      <3>1. <<>> \in Seq(Payloads)
        OBVIOUS
      <3> QED
        BY Zenon, <1>3, <3>1
    <2>2. <<p>> \o more = <<Plain("done")>>
      <3>1. <<p>> \in Seq(Payloads)
        BY PairIs
      <3> QED
        BY <2>1, <3>1, ConcatIs
    <2>3. buf \o wire = Frames(<<p>> \o more) /\ p.type # "comment"
      BY <1>2, <1>3, <2>1, <2>2
    <2> QED
      BY <1>1, <2>1, <2>3, NextEvent
  <1>5. next = [seen EXCEPT !.done = TRUE]
    BY <1>3 DEF After
  <1>6. /\ next.failure = "" /\ next.done = TRUE /\ next.texts = TextsOf(read)
        /\ next.tokens = FinalTokens /\ next.reason = "stop"
    <2> HIDE DEF next
    <2>1. PICK n : n = FinalTokens
      OBVIOUS
    <2>2. PICK ts : ts = TextsOf(read)
      OBVIOUS
    <2>3. next = [Seen(ts, n, "stop") EXCEPT !.done = TRUE]
      BY Zenon, <1>2, <1>5, <2>1, <2>2
    <2>4. /\ next.failure = "" /\ next.done = TRUE /\ next.texts = ts
          /\ next.tokens = n /\ next.reason = "stop"
      BY <2>3 DEF Seen
    <2> QED
      BY <2>1, <2>2, <2>4
  <1> HIDE DEF next
  <1>7. Conclude(next)
    BY <1>4, <1>6
  <1>8. /\ record'.made /\ record'.ok /\ record'.texts = TextsOf(read)
        /\ record'.tokens = FinalTokens /\ record'.reason = "stop"
    BY <1>6, <1>7 DEF Conclude, MakeRecord
  <1>9. UNCHANGED <<server, sent, phase, trouble>>
    BY DEF ReadEvent, serviceVars
  <1>10. TextsOf(sent) = TextsOf(read) /\ IsPrefix(TextsOf(read), TextsOf(sent))
    <2>1. read \in Seq(Payloads)
      BY MiddlesTyped
    <2>2. /\ <<Final, Plain("done")>> \in Seq(Payloads)
          /\ TextsOf(<<Final, Plain("done")>>) = <<>>
      BY <1>3, TextsOfEnd
    <2>3. /\ TextsOf(sent) = TextsOf(read) \o TextsOf(<<Final, Plain("done")>>)
          /\ TextsOf(read) \in Seq(Texts)
          /\ TextsOf(<<Final, Plain("done")>>) \in Seq(Texts)
      BY <1>2, <2>1, <2>2, TextsOfTwo
    <2>4. TextsOf(read) \o <<>> = TextsOf(read)
      BY <2>3, ConcatIs
    <2>5. IsPrefix(TextsOf(read), TextsOf(sent))
      BY <2>3, PrefixOfConcat
    <2> QED
      BY Zenon, <2>2, <2>3, <2>4, <2>5
  <1>11. FinalTokens' = IF server'.usage THEN Cardinality(Chunks') + 1 ELSE None
    BY DEF FinalTokens
  <1>12. FinalTokens' = FinalTokens
    BY <1>9 DEF FinalTokens, Chunks
  <1>13. TextsOf(sent)' = TextsOf(sent)
    BY <1>9
  <1>14. trouble' \in {"", "load"}
    BY <1>2, <1>9
  <1> QED
    BY <1>8, <1>10, <1>11, <1>12, <1>13, <1>14 DEF RecordTruthful

\* The other events that end a stream are read: an error, or what is no JSON.
LEMMA ReadFailure ==
    ASSUME ReadingInv, ReadEvent, NEW read \in Seq(Middles),
           NEW type \in {"error", "junk"}, NEW more \in Seq(Payloads),
           sent = read \o (<<Plain(type)>> \o more),
           buf \o wire = Frames(<<Plain(type)>> \o more),
           seen = Seen(TextsOf(read), None, ""),
           type = "error" => trouble = "execution",
           type = "junk" => trouble = "protocol" /\ server.foreign
    PROVE  record'.made /\ RecordTruthful'
  <1>1. /\ buf \in Seq(Bytes) /\ wire \in Seq(Bytes) /\ Boundaries(buf) # {}
        /\ sent \in Seq(Payloads)
    BY DEF ReadingInv, ReadEvent
  <1>2. Plain(type) \in Payloads /\ Plain(type).type = type
    BY PlainTyped
  <1>3. UNCHANGED <<server, sent, trouble>>
    BY DEF ReadEvent, serviceVars
  <1> DEFINE next == After(seen, Plain(type))
             failure == IF type = "error" THEN "stream_error" ELSE "protocol_error"
  <1>4. IF next.failure # "" \/ next.done THEN Conclude(next) ELSE UNCHANGED record
    <2>1. PICK p \in Payloads : p = Plain(type) /\ p.type # "comment"
      BY <1>2
    <2>2. buf \o wire = Frames(<<p>> \o more)
      BY Zenon, <2>1
    <2> QED
      BY <1>1, <2>1, <2>2, NextEvent
  <1>5. next = [seen EXCEPT !.failure = failure]
    BY <1>2 DEF After
  <1>6. /\ next.failure = failure /\ next.texts = TextsOf(read)
    <2> HIDE DEF next, failure
    <2>1. PICK ts : ts = TextsOf(read)
      OBVIOUS
    <2>2. next = [Seen(ts, None, "") EXCEPT !.failure = failure]
      BY Zenon, <1>5, <2>1
    <2>3. next.failure = failure /\ next.texts = ts
      BY <2>2 DEF Seen
    <2> QED
      BY <2>1, <2>3
  <1> HIDE DEF next
  <1>7. Conclude(next)
    BY <1>4, <1>6
  <1>8. record'.made /\ ~record'.ok /\ record'.texts = TextsOf(read) /\ record'.class = failure
    BY <1>6, <1>7 DEF Conclude, MakeRecord
  <1>9. /\ read \in Seq(Payloads) /\ <<Plain(type)>> \o more \in Seq(Payloads)
        /\ sent' = read \o (<<Plain(type)>> \o more)
    <2>1. <<Plain(type)>> \in Seq(Payloads)
      BY <1>2, PairIs
    <2> QED
      BY <1>3, <2>1, MiddlesTyped, ConcatIs
  <1>10. \/ record'.class = "stream_error" /\ trouble' \in {"network", "execution"}
         \/ record'.class = "protocol_error" /\ server'.foreign /\ trouble' = "protocol"
    BY <1>3, <1>8
  <1>11. ClassOfCause'
    BY <1>10 DEF ClassOfCause
  <1> QED
    BY Zenon, <1>8, <1>9, <1>11, FailedRecord

LEMMA ReadEventKeepsStream ==
    ASSUME StreamInv, ReadEvent
    PROVE  StreamInv'
  <1>1. ReadingInv /\ ~record.made /\ Boundaries(buf) # {}
    BY DEF StreamInv, ReadEvent, Reading
  <1>2. buf \in Seq(Bytes) /\ wire \in Seq(Bytes) /\ UNCHANGED <<phase, trouble>>
    BY <1>1 DEF ReadingInv, ReadEvent, serviceVars
  <1>3. \/ UNCHANGED record /\ ReadingInv'
        \/ phase = "closed" /\ record'.made /\ RecordTruthful'
    <2>1. CASE Midway
      <3>1. PICK read \in Seq(Middles), rest \in Seq(Middles), tail \in Seq(Payloads) :
               /\ sent = read \o (rest \o tail)
               /\ buf \o wire = Frames(rest \o tail)
               /\ seen = Seen(TextsOf(read), None, "")
               /\ EndsWith(tail)
        BY <2>1 DEF Midway
      <3>2. CASE rest # <<>>
        BY <1>1, <3>1, <3>2, ReadMiddle
      <3>3. CASE rest = <<>>
        <4>1. rest \o tail = tail
          BY <3>3, ConcatIs
        <4>2. sent = read \o tail /\ buf \o wire = Frames(tail)
          BY Zenon, <3>1, <4>1
        <4>3. CASE tail = <<>>
          <5>1. buf \o wire = <<>>
            BY Zenon, <4>2, <4>3, FramesOfNone
          <5> QED
            BY <1>1, <1>2, <5>1, NothingUnderWay
        <4>4. CASE tail = <<Final, Plain("done")>> /\ phase = "closed" /\ trouble \in {"", "load"}
          BY <1>1, <3>1, <4>2, <4>4, ReadFinal
        <4>5. CASE /\ tail = <<Plain("error"), Plain("done")>>
                   /\ phase = "closed" /\ trouble = "execution"
          <5>1. /\ <<Plain("done")>> \in Seq(Payloads)
                /\ <<Plain("error")>> \o <<Plain("done")>> = tail
            <6>1. Plain("error") \in Payloads /\ Plain("done") \in Payloads
              BY PlainTyped
            <6> QED
              BY <4>5, <6>1, PairIs
          <5>2. PICK more \in Seq(Payloads) : more = <<Plain("done")>>
            BY <5>1
          <5>3. /\ sent = read \o (<<Plain("error")>> \o more)
                /\ buf \o wire = Frames(<<Plain("error")>> \o more)
            BY Zenon, <4>2, <5>1, <5>2
          <5> QED
            BY <1>1, <3>1, <4>5, <5>3, ReadFailure
        <4>6. CASE /\ tail = <<Plain("junk")>>
                   /\ phase = "closed" /\ trouble = "protocol" /\ server.foreign
          <5>1. PICK more \in Seq(Payloads) : more = <<>>
            BY Zenon, NothingTyped
          <5>2. <<Plain("junk")>> \o more = tail
            <6>1. Plain("junk") \in Payloads
              BY PlainTyped
            <6>2. <<Plain("junk")>> \in Seq(Payloads)
              BY <6>1, PairIs
            <6> QED
              BY <4>6, <5>1, <6>2, ConcatIs
          <5>3. /\ sent = read \o (<<Plain("junk")>> \o more)
                /\ buf \o wire = Frames(<<Plain("junk")>> \o more)
            BY Zenon, <4>2, <5>2
          <5> QED
            BY <1>1, <3>1, <4>6, <5>3, ReadFailure
        <4> QED
          BY <3>1, <4>3, <4>4, <4>5, <4>6 DEF EndsWith
      <3> QED
        BY <3>2, <3>3
    <2>2. CASE AtEnd
      BY <1>1, <2>2, ReadDone DEF AtEnd
    <2> QED
      BY <1>1, <2>1, <2>2 DEF ReadingInv
  <1> QED
    BY <1>1, <1>2, <1>3 DEF StreamInv

LEMMA ReadEndKeepsStream ==
    ASSUME StreamInv, ReadEnd
    PROVE  StreamInv'
  <1>1. /\ ReadingInv /\ ~record.made /\ Boundaries(buf) = {} /\ wire = <<>>
        /\ phase = "closed" /\ status = 200 /\ LoadGenBody(body)
        /\ Conclude(seen) /\ UNCHANGED <<phase, sent, trouble>>
    BY DEF StreamInv, ReadEnd, Reading
  <1>2. buf \in Seq(Bytes)
    BY <1>1 DEF ReadingInv
  <1>3. CASE AtEnd
    <2>1. PICK todo : todo = <<Plain("done")>> /\ buf \o wire = Frames(todo)
      BY <1>3 DEF AtEnd
    <2>2. todo \in Seq(Payloads)
      BY <2>1, PlainTyped, PairIs
    <2>3. todo = <<>>
      BY <1>1, <1>2, <2>1, <2>2, NothingLeft
    <2> QED
      BY <2>1, <2>3
  <1>4. CASE Midway
    <2>1. PICK read \in Seq(Middles), rest \in Seq(Middles), tail \in Seq(Payloads) :
             /\ sent = read \o (rest \o tail)
             /\ buf \o wire = Frames(rest \o tail)
             /\ seen = Seen(TextsOf(read), None, "")
             /\ EndsWith(tail)
      BY <1>4 DEF Midway
    <2>2. read \in Seq(Payloads) /\ rest \in Seq(Payloads) /\ rest \o tail \in Seq(Payloads)
      BY MiddlesTyped, ConcatIs
    <2>3. rest \o tail = <<>>
      BY <1>1, <1>2, <2>1, <2>2, NothingLeft
    <2>4. tail = <<>>
      <3>1. Len(rest \o tail) = Len(rest) + Len(tail) /\ Len(rest) \in Nat /\ Len(tail) \in Nat
        BY <2>2
      <3>2. Len(rest \o tail) = 0
        BY <2>3
      <3>3. Len(tail) = 0
        BY <3>1, <3>2
      <3> QED
        BY <3>3
    <2>5. trouble = "process"
      BY <1>1, <2>1, <2>4 DEF EndsWith
    <2>6. seen.failure = "" /\ seen.done = FALSE /\ seen.texts = TextsOf(read)
      <3>1. PICK ts : ts = TextsOf(read)
        OBVIOUS
      <3>2. seen = Seen(ts, None, "")
        BY Zenon, <2>1, <3>1
      <3> QED
        BY <3>1, <3>2 DEF Seen
    <2>7. record'.made /\ ~record'.ok /\ record'.texts = TextsOf(read) /\ record'.class = "no_done"
      BY <1>1, <2>6 DEF Conclude, MakeRecord
    <2>8. sent' = read \o (rest \o tail) /\ trouble' = "process"
      BY <1>1, <2>1, <2>5
    <2>9. ClassOfCause'
      BY <2>7, <2>8 DEF ClassOfCause
    <2>10. RecordTruthful'
      BY Zenon, <2>2, <2>7, <2>8, <2>9, FailedRecord
    <2> QED
      BY <1>1, <2>7, <2>10 DEF StreamInv
  <1> QED
    BY <1>1, <1>3, <1>4 DEF ReadingInv

LEMMA ReadFailsKeepsStream ==
    ASSUME StreamInv, ReadFails
    PROVE  StreamInv'
  <1>1. /\ ReadingInv /\ ~record.made /\ phase' = "closed" /\ trouble' = "network"
        /\ UNCHANGED sent /\ seen' = [seen EXCEPT !.failure = "stream_error"]
        /\ Conclude(seen')
    BY DEF StreamInv, ReadFails, Reading
  <1>2. PICK read \in Seq(Payloads), more \in Seq(Payloads) :
           sent = read \o more /\ \E tokens, reason : seen = Seen(TextsOf(read), tokens, reason)
    <2>1. CASE Midway
      <3>1. PICK read \in Seq(Middles), rest \in Seq(Middles), tail \in Seq(Payloads) :
               sent = read \o (rest \o tail) /\ seen = Seen(TextsOf(read), None, "")
        BY <2>1 DEF Midway
      <3>2. read \in Seq(Payloads) /\ rest \in Seq(Payloads) /\ rest \o tail \in Seq(Payloads)
        BY MiddlesTyped, ConcatIs
      <3> QED
        BY Zenon, <3>1, <3>2
    <2>2. CASE AtEnd
      <3>1. PICK read \in Seq(Middles) :
               /\ sent = read \o <<Final, Plain("done")>>
               /\ seen = Seen(TextsOf(read), FinalTokens, "stop")
        BY <2>2 DEF AtEnd
      <3>2. Plain("done") \in Payloads /\ Final \in Payloads
        BY <1>1, PlainTyped, FinalIs DEF ReadingInv
      <3>3. read \in Seq(Payloads) /\ <<Final, Plain("done")>> \in Seq(Payloads)
        BY <3>2, MiddlesTyped, PairIs
      <3> QED
        BY Zenon, <3>1, <3>3
    <2> QED
      BY Zenon, <1>1, <2>1, <2>2 DEF ReadingInv
  <1>3. seen'.failure = "stream_error" /\ seen'.texts = TextsOf(read)
    <2>1. PICK ts : ts = TextsOf(read)
      OBVIOUS
    <2>2. PICK tokens, reason : seen = Seen(ts, tokens, reason)
      BY Zenon, <1>2, <2>1
    <2>3. seen' = [Seen(ts, tokens, reason) EXCEPT !.failure = "stream_error"]
      BY Zenon, <1>1, <2>2
    <2> QED
      BY <2>1, <2>3 DEF Seen
  <1>4. /\ record'.made /\ ~record'.ok /\ record'.texts = TextsOf(read)
        /\ record'.class = "stream_error"
    BY <1>1, <1>3 DEF Conclude, MakeRecord
  <1>5. sent' = read \o more
    BY <1>1, <1>2
  <1>6. ClassOfCause'
    BY <1>1, <1>4 DEF ClassOfCause
  <1>7. RecordTruthful'
    BY Zenon, <1>4, <1>5, <1>6, FailedRecord
  <1> QED
    BY <1>1, <1>4, <1>7 DEF StreamInv

\* No answer, or one that is refused.
LEMMA RefusedKeepsStream ==
    ASSUME StatusInv, StreamInv, SendFails \/ ReadStatus
    PROVE  StreamInv'
  <1>1. /\ ReadingInv /\ ~record.made /\ UNCHANGED <<sent, status>>
        /\ phase' \in {"closed", "exited"}
        /\ record'.made /\ ~record'.ok /\ record'.texts = <<>>
        /\ \/ record'.class \in {"connection", "timeout"} /\ status' = 0
           \/ record'.class = "http_429" /\ status' = 429
           \/ record'.class = "http_4xx" /\ status' \in {400, 404}
           \/ record'.class = "http_5xx" /\ status' = 500
    <2>1. CASE SendFails
      <3>1. PICK class \in {"connection", "timeout"} : MakeRecord(FALSE, class, NothingSeen)
        BY <2>1 DEF SendFails
      <3>2. /\ record'.made /\ ~record'.ok /\ record'.texts = <<>>
            /\ record'.class \in {"connection", "timeout"}
        BY <3>1 DEF MakeRecord, NothingSeen
      <3>3. /\ ReadingInv /\ ~record.made /\ UNCHANGED <<sent, status>> /\ status = 0
            /\ phase' \in {"closed", "exited"}
        BY <2>1 DEF SendFails, StreamInv
      <3> QED
        BY <3>2, <3>3
    <2>2. CASE ReadStatus
      <3>1. status \in {400, 404, 429, 500} /\ phase = "closed"
        BY <2>2 DEF ReadStatus, StatusInv
      <3> DEFINE class == CASE status = 429 -> "http_429"
                            [] status \in 400 .. 499 \ {429} -> "http_4xx"
                            [] OTHER -> "http_5xx"
      <3>2. /\ ReadingInv /\ ~record.made /\ UNCHANGED <<sent, status, phase>>
            /\ record'.made /\ ~record'.ok /\ record'.texts = <<>> /\ record'.class = class
        BY <2>2 DEF ReadStatus, MakeRecord, NothingSeen, StreamInv
      <3>3. /\ status = 429 => class = "http_429"
            /\ status \in {400, 404} => class = "http_4xx"
            /\ status = 500 => class = "http_5xx"
        OBVIOUS
      <3> HIDE DEF class
      <3> QED
        BY <3>1, <3>2, <3>3
    <2> QED
      BY <2>1, <2>2
  <1>2. /\ <<>> \in Seq(Payloads) /\ sent \in Seq(Payloads)
    BY Zenon, <1>1, NothingTyped DEF ReadingInv
  <1>3. <<>> \o sent = sent /\ TextsOf(<<>>) = <<>>
    BY <1>2, ConcatIs, TextsOfNone
  <1>4. PICK read \in Seq(Payloads), more \in Seq(Payloads) :
           sent' = read \o more /\ record'.texts = TextsOf(read)
    <2>1. sent' = <<>> \o sent /\ record'.texts = TextsOf(<<>>)
      BY <1>1, <1>3
    <2> QED
      BY Zenon, <1>2, <2>1
  <1>5. ClassOfCause'
    BY <1>1 DEF ClassOfCause
  <1>6. RecordTruthful'
    BY Zenon, <1>1, <1>4, <1>5, FailedRecord
  <1> QED
    BY <1>1, <1>6 DEF StreamInv

\* stream_response.
LEMMA StreamKeepsStream ==
    ASSUME StreamInv, phase = "streaming", ~record.made,
           SendChunk \/ KeepAlive \/ Finish \/ Fail \/ Vanish \/ Garble
    PROVE  StreamInv'
  <1>1. ReadingInv /\ trouble \in {"", "load"} /\ sent \in Seq(Payloads)
    BY DEF StreamInv, ReadingInv
  <1>2. UNCHANGED <<server, body, status, buf, seen, record>>
    BY DEF SendChunk, KeepAlive, Finish, Fail, Vanish, Garble, serviceVars, clientVars
  <1>3. CASE SendChunk \/ KeepAlive
    <2>1. PICK p \in Middles : Write(<<p>>)
      <3>1. CASE SendChunk
        <4>1. PICK piece \in Pieces : Write(<<P("chunk", piece, None, "")>>)
          BY <3>1 DEF SendChunk
        <4>2. P("chunk", piece, None, "") \in Middles
          BY DEF Middles
        <4> QED
          BY Zenon, <4>1, <4>2
      <3>2. CASE KeepAlive
        <4>1. Write(<<Plain("comment")>>)
          BY <3>2 DEF KeepAlive
        <4>2. Plain("comment") \in Middles
          BY DEF Middles
        <4> QED
          BY Zenon, <4>1, <4>2
      <3> QED
        BY <1>3, <3>1, <3>2
    <2>2. <<p>> \in Seq(Middles) /\ <<p>> \in Seq(Payloads)
      BY PairIs, MiddlesTyped
    <2>3. UNCHANGED <<phase, trouble>>
      BY <1>3 DEF SendChunk, KeepAlive
    <2>4. PICK ps \in Seq(Payloads) : ps = <<p>> /\ ps \in Seq(Middles) /\ Write(ps)
      BY Zenon, <2>1, <2>2
    <2>5. ReadingInv'
      BY <1>1, <1>2, <2>3, <2>4, WriteKeepsReading
    <2> QED
      BY <1>1, <1>2, <2>3, <2>5 DEF StreamInv
  <1>4. CASE Finish
    <2>1. /\ Write(<<Final, Plain("done")>>) /\ phase' = "closed" /\ UNCHANGED trouble
      BY <1>4 DEF Finish, Final, FinalTokens
    <2>2. /\ Final \in Payloads /\ Plain("done") \in Payloads
          /\ Final.type = "final" /\ Plain("done").type = "done"
      BY <1>1, FinalIs, PlainTyped
    <2>3. PICK ps \in Seq(Payloads) : ps = <<Final, Plain("done")>>
      BY <2>2, PairIs
    <2>4. \A i \in 1 .. Len(ps) : ps[i].type # "chunk"
      <3>1. Len(ps) = 2 /\ ps[1].type = "final" /\ ps[2].type = "done"
        BY <2>2, <2>3
      <3>2. \A i \in 1 .. 2 : i = 1 \/ i = 2
        OBVIOUS
      <3> QED
        BY <3>1, <3>2
    <2>5. Write(ps) /\ sent' = sent \o ps
      BY Zenon, <2>1, <2>3 DEF Write
    <2>6. Final' = Final
      BY <1>1, <1>2, <2>4, <2>5, FinalStays
    <2>7. EndsWith(ps)'
      <3>1. ps = <<Final', Plain("done")>> /\ phase' = "closed" /\ trouble' \in {"", "load"}
        BY <1>1, <2>1, <2>3, <2>6
      <3> QED
        BY <3>1 DEF EndsWith
    <2>8. ReadingInv'
      BY <1>1, <1>2, <2>5, <2>7, WriteKeepsReading
    <2> QED
      BY <1>1, <1>2, <2>1, <2>8 DEF StreamInv
  <1>5. CASE Fail
    <2>1. Write(<<Plain("error"), Plain("done")>>) /\ phase' = "closed" /\ trouble' = "execution"
      BY <1>5 DEF Fail
    <2>2. PICK ps \in Seq(Payloads) : ps = <<Plain("error"), Plain("done")>>
      BY PlainTyped, PairIs
    <2>3. EndsWith(ps)'
      BY <2>1, <2>2 DEF EndsWith
    <2>4. Write(ps)
      BY Zenon, <2>1, <2>2
    <2>5. ReadingInv'
      BY <1>1, <1>2, <2>3, <2>4, WriteKeepsReading
    <2> QED
      BY <1>1, <1>2, <2>1, <2>5 DEF StreamInv
  <1>6. CASE Garble
    <2>1. /\ Write(<<Plain("junk")>>) /\ phase' = "closed" /\ trouble' = "protocol"
          /\ server.foreign
      BY <1>6 DEF Garble
    <2>2. PICK ps \in Seq(Payloads) : ps = <<Plain("junk")>>
      BY PlainTyped, PairIs
    <2>3. EndsWith(ps)'
      BY <1>2, <2>1, <2>2 DEF EndsWith
    <2>4. Write(ps)
      BY Zenon, <2>1, <2>2
    <2>5. ReadingInv'
      BY <1>1, <1>2, <2>3, <2>4, WriteKeepsReading
    <2> QED
      BY <1>1, <1>2, <2>1, <2>5 DEF StreamInv
  <1>7. CASE Vanish
    <2>1. UNCHANGED <<sent, wire>> /\ phase' = "closed" /\ trouble' = "process"
      BY <1>7 DEF Vanish
    <2>2. buf' \in Seq(Bytes) /\ wire' \in Seq(Bytes) /\ buf' \o wire' = buf \o wire
      BY <1>1, <1>2, <2>1 DEF ReadingInv
    <2>3. ReadingInv'
      BY <1>1, <1>2, <2>1, <2>2, OtherKeepsReading
    <2> QED
      BY <1>1, <1>2, <2>1, <2>3 DEF StreamInv
  <1> QED
    BY <1>3, <1>4, <1>5, <1>6, <1>7

\* The service before the stream.
LEMMA EarlyKeepsStream ==
    ASSUME StreamInv, ~record.made, phase # "closed",
           UNCHANGED <<server, sent, wire, buf, seen, record>>,
           phase' = "streaming" => trouble' \in {"", "load"},
           phase' = "closed" /\ status' = 200 => ~LoadGenBody(body)'
    PROVE  StreamInv'
  <1>1. ReadingInv /\ buf \in Seq(Bytes) /\ wire \in Seq(Bytes)
    BY DEF StreamInv, ReadingInv
  <1>2. buf' \in Seq(Bytes) /\ wire' \in Seq(Bytes) /\ buf' \o wire' = buf \o wire
    BY <1>1
  <1>3. ReadingInv'
    BY <1>1, <1>2, OtherKeepsReading
  <1> QED
    BY <1>3 DEF StreamInv

LEMMA DeliverKeepsStream ==
    ASSUME StreamInv, Deliver
    PROVE  StreamInv'
  <1>1. /\ ReadingInv /\ ~record.made
        /\ UNCHANGED <<server, body, phase, status, trouble, sent, seen, record>>
    BY DEF StreamInv, Deliver, Reading, serviceVars
  <1>2. PICK n \in DOMAIN wire : /\ buf' = buf \o SubSeq(wire, 1, n)
                                 /\ wire' = SubSeq(wire, n + 1, Len(wire))
    BY DEF Deliver
  <1>3. buf \in Seq(Bytes) /\ wire \in Seq(Bytes)
    BY <1>1 DEF ReadingInv
  <1>4. /\ SubSeq(wire, 1, n) \in Seq(Bytes) /\ SubSeq(wire, n + 1, Len(wire)) \in Seq(Bytes)
        /\ SubSeq(wire, 1, n) \o SubSeq(wire, n + 1, Len(wire)) = wire
    BY <1>3, CutIs
  <1>5. buf' \in Seq(Bytes) /\ wire' \in Seq(Bytes) /\ buf' \o wire' = buf \o wire
    <2>1. \A x, y, z \in Seq(Bytes) : x \o y \in Seq(Bytes) /\ (x \o y) \o z = x \o (y \o z)
      BY ConcatIs
    <2>2. /\ buf' \in Seq(Bytes) /\ wire' \in Seq(Bytes)
          /\ buf' \o wire' = buf \o (SubSeq(wire, 1, n) \o SubSeq(wire, n + 1, Len(wire)))
      BY Zenon, <1>2, <1>3, <1>4, <2>1
    <2> QED
      BY Zenon, <1>4, <2>2
  <1>6. ReadingInv'
    BY <1>1, <1>5, OtherKeepsReading
  <1> QED
    BY <1>1, <1>6 DEF StreamInv

\* Nothing happens to a request that has its record.
LEMMA RecordedStays ==
    ASSUME StreamInv, record.made, [Next]_vars
    PROVE  UNCHANGED vars
  <1>1. phase \in {"closed", "exited"}
    BY DEF StreamInv
  <1> QED
    BY <1>1
    DEF Next, Exit, Serve, Prepare, Submit, SubmitToNobody, AnswerUnary, SendChunk, KeepAlive,
        Finish, Fail, Vanish, Garble, Streaming, SendFails, ReadStatus, Deliver, ReadEvent,
        ReadEnd, ReadFails, Reading

LEMMA NextStream ==
    ASSUME StatusInv, StreamInv, [Next]_vars
    PROVE  StreamInv'
  <1>1. CASE record.made
    <2>1. UNCHANGED <<phase, status, trouble, server, sent, record>>
      BY <1>1, RecordedStays DEF vars
    <2>2. RecordTruthful'
      <3>1. RecordTruthful
        BY <1>1 DEF StreamInv
      <3> QED
        BY <2>1, <3>1 DEF RecordTruthful, Chunks
    <2> QED
      BY <1>1, <2>1, <2>2 DEF StreamInv
  <1>2. CASE ~record.made
    <2>1. CASE Exit \/ Serve
      <3>1. /\ phase # "closed" /\ phase' \in {"exited", "listening"}
            /\ UNCHANGED <<server, sent, wire, buf, seen, record>>
        BY <2>1 DEF Exit, Serve, serviceVars, clientVars
      <3> QED
        BY <1>2, <3>1, EarlyKeepsStream
    <2>2. CASE Prepare
      <3>1. /\ phase # "closed" /\ UNCHANGED <<server, sent, wire, buf, seen, record>>
            /\ phase' = "submitting" \/ (phase' = "closed" /\ status' # 200)
        BY <2>2 DEF Prepare, Respond, serviceVars, clientVars
      <3> QED
        BY <1>2, <3>1, EarlyKeepsStream
    <2>3. CASE Submit
      <3>1. /\ phase = "submitting" /\ UNCHANGED <<server, sent, wire, buf, seen, record>>
            /\ \E error, load :
                  /\ trouble' = IF error = "Tokenization" THEN "encoding"
                                ELSE IF load # "free" THEN "load" ELSE ""
                  /\ IF error # "ok"
                     THEN Respond(StatusOf(error))
                     ELSE \/ UNCHANGED phase
                          \/ Respond(200)
                          \/ phase' = "generating"
        BY <2>3 DEF Submit, serviceVars, clientVars
      <3>2. PICK error, load :
               /\ trouble' = IF error = "Tokenization" THEN "encoding"
                             ELSE IF load # "free" THEN "load" ELSE ""
               /\ IF error # "ok"
                  THEN Respond(StatusOf(error))
                  ELSE \/ UNCHANGED phase
                       \/ Respond(200)
                       \/ phase' = "generating"
        BY <3>1
      <3>3. StatusOf(error) # 200
        BY DEF StatusOf
      <3>4. CASE error # "ok"
        <4>1. phase' = "closed" /\ status' # 200
          BY <3>2, <3>3, <3>4 DEF Respond
        <4> QED
          BY <1>2, <3>1, <4>1, EarlyKeepsStream
      <3>5. CASE error = "ok"
        <4>1. trouble' \in {"", "load"} /\ phase' # "closed"
          BY <3>1, <3>2, <3>5 DEF Respond
        <4> QED
          BY <1>2, <3>1, <4>1, EarlyKeepsStream
      <3> QED
        BY <3>4, <3>5
    <2>4. CASE SubmitToNobody
      <3>1. /\ phase # "closed" /\ UNCHANGED <<server, sent, wire, buf, seen, record>>
            /\ phase' = "closed" /\ status' = 500
        BY <2>4 DEF SubmitToNobody, Respond, serviceVars, clientVars
      <3> QED
        BY <1>2, <3>1, EarlyKeepsStream
    <2>5. CASE AnswerUnary
      <3>1. /\ phase = "generating" /\ UNCHANGED <<server, body, sent, wire, buf, seen, record>>
            /\ phase' = "closed"
        BY <2>5 DEF AnswerUnary, serviceVars, clientVars
      <3>2. ~LoadGenBody(body)
        BY <3>1 DEF StatusInv, LoadGenBody
      <3>3. ~LoadGenBody(body)'
        BY <3>1, <3>2
      <3> QED
        BY <1>2, <3>1, <3>3, EarlyKeepsStream
    <2>6. CASE SendChunk \/ KeepAlive \/ Finish \/ Fail \/ Vanish \/ Garble
      <3>1. phase = "streaming"
        BY <2>6 DEF SendChunk, KeepAlive, Finish, Fail, Vanish, Garble, Streaming
      <3> QED
        BY <1>2, <2>6, <3>1, StreamKeepsStream
    <2>7. CASE SendFails \/ ReadStatus
      BY <2>7, RefusedKeepsStream
    <2>8. CASE Deliver
      BY <2>8, DeliverKeepsStream
    <2>9. CASE ReadEvent
      BY <2>9, ReadEventKeepsStream
    <2>10. CASE ReadEnd
      BY <2>10, ReadEndKeepsStream
    <2>11. CASE ReadFails
      BY <2>11, ReadFailsKeepsStream
    <2>12. CASE UNCHANGED vars
      <3>1. UNCHANGED <<server, body, phase, status, trouble, sent, wire, buf, seen, record>>
        BY <2>12 DEF vars
      <3>2. ReadingInv /\ buf \in Seq(Bytes) /\ wire \in Seq(Bytes)
        BY <1>2 DEF StreamInv, ReadingInv
      <3>3. buf' \in Seq(Bytes) /\ wire' \in Seq(Bytes) /\ buf' \o wire' = buf \o wire
        BY <3>1, <3>2
      <3>4. ReadingInv'
        BY <3>1, <3>2, <3>3, OtherKeepsReading
      <3> QED
        BY <1>2, <3>1, <3>4 DEF StreamInv
    <2> QED
      BY <2>1, <2>2, <2>3, <2>4, <2>5, <2>6, <2>7, <2>8, <2>9, <2>10, <2>11, <2>12 DEF Next
  <1> QED
    BY <1>1, <1>2

LEMMA InitStream == Init => StreamInv
  <1> SUFFICES ASSUME Init PROVE StreamInv
    OBVIOUS
  <1>1. /\ sent = <<>> /\ buf = <<>> /\ wire = <<>> /\ seen = NothingSeen
        /\ phase = "starting" /\ ~record.made
    BY DEF Init, NoRecord
  <1>2. sent \in Seq(Payloads) /\ buf \in Seq(Bytes) /\ wire \in Seq(Bytes)
    <2>1. <<>> \in Seq(Bytes)
      OBVIOUS
    <2> QED
      BY Zenon, <1>1, <2>1, NothingTyped
  <1>3. Midway
    <2>1. PICK read \in Seq(Middles), rest \in Seq(Middles), tail \in Seq(Payloads) :
             read = <<>> /\ rest = <<>> /\ tail = <<>>
      <3>1. <<>> \in Seq(Middles)
        OBVIOUS
      <3> QED
        BY Zenon, <3>1, NothingTyped
    <2>2. /\ sent = read \o (rest \o tail) /\ buf \o wire = Frames(rest \o tail)
      BY Zenon, <1>1, <2>1, NothingTwice, FramesOfNone
    <2>3. seen = Seen(TextsOf(read), None, "")
      <3>1. TextsOf(read) = <<>>
        BY Zenon, <2>1, TextsOfNone
      <3> QED
        BY <1>1, <3>1 DEF NothingSeen, Seen
    <2>4. EndsWith(tail)
      BY <1>1, <2>1 DEF EndsWith
    <2> QED
      BY Zenon, <2>2, <2>3, <2>4 DEF Midway
  <1> QED
    BY <1>1, <1>2, <1>3 DEF StreamInv, ReadingInv

LEMMA StreamImplies == StreamInv => RecordTruthful
  BY DEF StreamInv, RecordTruthful

\* run_request and stream_response: however the network cuts the stream into
\* pieces, or breaks it, and whatever the service does, the record tells what
\* the service has done.
THEOREM RecordsAreTruthful == Spec => []RecordTruthful
  <1>1. StatusInv /\ StreamInv /\ [Next]_vars => StreamInv'
    BY NextStream
  <1>2. Spec => []StatusInv
    BY SpecStatus, PTL
  <1> QED
    BY <1>1, <1>2, InitStream, StreamImplies, PTL DEF Spec
=============================================================================
