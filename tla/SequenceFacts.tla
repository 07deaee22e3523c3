---------------------------- MODULE SequenceFacts ----------------------------
(***************************************************************************)
(* Induction, and what the recursive helpers on sequences compute.         *)
(*                                                                         *)
(* The induction theorems of the library are about a predicate; here they  *)
(* are about the set of those that have it, which a least element of the   *)
(* others proves.                                                          *)
(***************************************************************************)
EXTENDS Integers, SequencesExt, SequenceTheorems, WellFoundedInduction, TLAPS

\* Every set of naturals that is not empty has a least element.
LEMMA LeastElement ==
    ASSUME NEW T, T \subseteq Nat, T # {}
    PROVE  \E x \in T : \A y \in T : x <= y
  <1> DEFINE less == {ss \in Nat \X Nat : ss[1] < ss[2]}
  <1>1. IsWellFoundedOn(less, Nat)
    BY NatLessThanWellFounded DEF OpToRel
  <1>2. \A x, y \in Nat : <<y, x>> \in less <=> y < x
    OBVIOUS
  <1> HIDE DEF less
  <1>3. PICK x \in T : \A y \in T : <<y, x>> \notin less
    BY <1>1, WFMin
  <1>4. ASSUME NEW y \in T PROVE x <= y
    <2>1. x \in Nat /\ y \in Nat /\ <<y, x>> \notin less
      BY <1>3
    <2> QED
      BY <1>2, <2>1
  <1> QED
    BY <1>4

LEMMA NatInduct ==
    ASSUME NEW S, 0 \in S, \A n \in Nat : n \in S => n + 1 \in S
    PROVE  Nat \subseteq S
  <1> DEFINE T == Nat \ S
  <1>1. SUFFICES ASSUME T # {} PROVE FALSE
    OBVIOUS
  <1>2. PICK x \in T : \A y \in T : x <= y
    BY <1>1, LeastElement
  <1>3. x - 1 \in Nat /\ x - 1 \notin T
    BY <1>2
  <1> QED
    BY <1>3

LEMMA SeqInduct ==
    ASSUME NEW S, NEW G, <<>> \in G,
           \A s \in Seq(S), e \in S : s \in G => Append(s, e) \in G
    PROVE  Seq(S) \subseteq G
  <1> DEFINE N == {n \in Nat : \A s \in Seq(S) : Len(s) = n => s \in G}
  <1>1. 0 \in N
    OBVIOUS
  <1>2. ASSUME NEW n \in Nat, n \in N PROVE n + 1 \in N
    <2>1. ASSUME NEW s \in Seq(S), Len(s) = n + 1 PROVE s \in G
      <3>1. PICK t \in Seq(S), e \in S : s = Append(t, e)
        BY <2>1, SequenceEmptyOrAppend
      <3>2. Len(t) = n
        BY <2>1, <3>1
      <3> QED
        BY <1>2, <3>1, <3>2
    <2> QED
      BY <2>1
  <1> HIDE DEF N
  <1>3. Nat \subseteq N
    BY <1>1, <1>2, NatInduct
  <1> QED
    BY <1>3 DEF N

LEMMA SecondOfConcat ==
    ASSUME NEW S, NEW s \in Seq(S), NEW t \in Seq(S), NEW j \in 1 .. Len(t)
    PROVE  (s \o t)[Len(s) + j] = t[j]
  OBVIOUS

\* The beginning of what is joined is the beginning of its first part.
LEMMA BeginningOfConcat ==
    ASSUME NEW S, NEW s \in Seq(S), NEW t \in Seq(S), NEW n \in 0 .. Len(s)
    PROVE  SubSeq(s \o t, 1, n) = SubSeq(s, 1, n)
  <1>1. CASE n = 0
    BY <1>1
  <1>2. CASE n # 0
    BY <1>2, SubSeqOfConcat1
  <1> QED
    BY <1>1, <1>2

-----------------------------------------------------------------------------
(* FlattenSeq                                                              *)

Flattens(f, s, n) ==
    f = [i \in 1 .. n |-> IF i = 1 THEN s[i] ELSE f[i - 1] \o s[i]]

LEMMA FlattensAt ==
    ASSUME NEW f, NEW s, NEW n, Flattens(f, s, n), NEW i \in 1 .. n
    PROVE  f[i] = IF i = 1 THEN s[i] ELSE f[i - 1] \o s[i]
  BY Zenon DEF Flattens

LEMMA FlattensExists ==
    ASSUME NEW s, NEW n \in Nat
    PROVE  \E f : Flattens(f, s, n)
  <1> DEFINE G == {k \in Nat : \E f : Flattens(f, s, k)}
  <1>1. 0 \in G
    <2>1. Flattens([i \in 1 .. 0 |-> s[1]], s, 0)
      BY DEF Flattens
    <2> QED
      BY <2>1
  <1>2. ASSUME NEW k \in Nat, k \in G PROVE k + 1 \in G
    <2>1. PICK f : Flattens(f, s, k)
      BY <1>2
    <2> DEFINE g == [i \in 1 .. k + 1 |->
                        IF i <= k THEN f[i] ELSE IF i = 1 THEN s[i] ELSE f[k] \o s[i]]
    <2>2. ASSUME NEW i \in 1 .. k + 1
          PROVE  g[i] = IF i = 1 THEN s[i] ELSE g[i - 1] \o s[i]
      <3>1. CASE i <= k
        <4>1. i \in 1 .. k /\ (i # 1 => i - 1 \in 1 .. k + 1 /\ i - 1 <= k)
          BY <3>1
        <4>2. f[i] = IF i = 1 THEN s[i] ELSE f[i - 1] \o s[i]
          BY <2>1, <4>1, FlattensAt
        <4> QED
          BY <4>1, <4>2
      <3>2. CASE i = k + 1
        BY <3>2
      <3> QED
        BY <3>1, <3>2
    <2>3. Flattens(g, s, k + 1)
      BY <2>2 DEF Flattens
    <2> QED
      BY <2>3
  <1> HIDE DEF G
  <1>3. Nat \subseteq G
    BY <1>1, <1>2, NatInduct
  <1> QED
    BY <1>3 DEF G

\* The equation has one solution, also for the beginning of a longer sequence.
LEMMA FlattensUnique ==
    ASSUME NEW s, NEW t, NEW m \in Nat, NEW n \in Nat, NEW f, NEW g,
           Flattens(f, s, m), Flattens(g, t, n), m <= n,
           \A i \in 1 .. m : s[i] = t[i]
    PROVE  \A i \in 1 .. m : f[i] = g[i]
  <1> DEFINE G == {k \in Nat : k \in 1 .. m => f[k] = g[k]}
  <1>1. 0 \in G
    OBVIOUS
  <1>2. ASSUME NEW k \in Nat, k \in G PROVE k + 1 \in G
    <2>1. SUFFICES ASSUME k + 1 \in 1 .. m PROVE f[k + 1] = g[k + 1]
      OBVIOUS
    <2>2. /\ f[k + 1] = IF k + 1 = 1 THEN s[k + 1] ELSE f[k] \o s[k + 1]
          /\ g[k + 1] = IF k + 1 = 1 THEN t[k + 1] ELSE g[k] \o t[k + 1]
      <3>1. k + 1 \in 1 .. n /\ (k + 1) - 1 = k
        BY <2>1
      <3> QED
        BY <2>1, <3>1, FlattensAt
    <2> QED
      BY <1>2, <2>1, <2>2
  <1> HIDE DEF G
  <1>3. Nat \subseteq G
    BY <1>1, <1>2, NatInduct
  <1> QED
    BY <1>3 DEF G

LEMMA FlattenIs ==
    ASSUME NEW S, NEW s \in Seq(S), s # <<>>, NEW f, Flattens(f, s, Len(s))
    PROVE  FlattenSeq(s) = f[Len(s)]
  <1> DEFINE h == CHOOSE h : Flattens(h, s, Len(s))
  <1>1. FlattenSeq(s) = h[Len(s)]
    BY DEF FlattenSeq, Flattens
  <1>2. Flattens(h, s, Len(s))
    OBVIOUS
  <1> HIDE DEF h
  <1> QED
    BY <1>1, <1>2, FlattensUnique

LEMMA FlattenEmpty == FlattenSeq(<<>>) = <<>>
  BY DEF FlattenSeq

LEMMA FlattenAppendAny ==
    ASSUME NEW S, NEW s \in Seq(S), NEW e \in S
    PROVE  FlattenSeq(Append(s, e)) = IF s = <<>> THEN e ELSE FlattenSeq(s) \o e
  <1> DEFINE t == Append(s, e)
             n == Len(s)
  <1>1. /\ t \in Seq(S) /\ t # <<>> /\ Len(t) = n + 1 /\ n \in Nat /\ t[n + 1] = e
        /\ \A i \in 1 .. n : s[i] = t[i]
    OBVIOUS
  <1> HIDE DEF t, n
  <1>2. PICK g : Flattens(g, t, n + 1)
    <2>1. n + 1 \in Nat
      BY <1>1
    <2> QED
      BY <2>1, FlattensExists
  <1>3. PICK f : Flattens(f, s, n)
    BY <1>1, FlattensExists
  <1>4. FlattenSeq(t) = g[n + 1]
    BY <1>1, <1>2, FlattenIs
  <1>5. g[n + 1] = IF n = 0 THEN e ELSE g[n] \o e
    <2>1. n + 1 \in 1 .. n + 1 /\ (n + 1) - 1 = n /\ (n + 1 = 1 <=> n = 0)
      BY <1>1
    <2>2. g[n + 1] = IF n + 1 = 1 THEN t[n + 1] ELSE g[n + 1 - 1] \o t[n + 1]
      BY <1>2, <2>1, FlattensAt
    <2> QED
      BY <1>1, <2>1, <2>2
  <1>6. n # 0 => f[n] = g[n]
    BY <1>1, <1>2, <1>3, FlattensUnique
  <1>7. s = <<>> <=> n = 0
    BY DEF n
  <1>8. s # <<>> => FlattenSeq(s) = f[n]
    BY <1>3, FlattenIs DEF n
  <1> QED
    BY <1>4, <1>5, <1>6, <1>7, <1>8 DEF t

\* What it joins are sequences: it joins them, in order, and nothing else.
LEMMA FlattenType ==
    ASSUME NEW S, NEW ss \in Seq(Seq(S))
    PROVE  FlattenSeq(ss) \in Seq(S)
  <1> DEFINE G == {t \in Seq(Seq(S)) : FlattenSeq(t) \in Seq(S)}
  <1>1. <<>> \in G
    BY FlattenEmpty, EmptySeq
  <1>2. ASSUME NEW t \in Seq(Seq(S)), NEW e \in Seq(S), t \in G PROVE Append(t, e) \in G
    <2>1. FlattenSeq(Append(t, e)) = IF t = <<>> THEN e ELSE FlattenSeq(t) \o e
      BY FlattenAppendAny
    <2>2. FlattenSeq(t) \o e \in Seq(S)
      BY <1>2
    <2>3. FlattenSeq(Append(t, e)) \in Seq(S)
      BY <2>1, <2>2
    <2> QED
      BY <2>3, AppendProperties
  <1> HIDE DEF G
  <1>3. Seq(Seq(S)) \subseteq G
    BY <1>1, <1>2, SeqInduct
  <1> QED
    BY <1>3 DEF G

LEMMA FlattenAppend ==
    ASSUME NEW S, NEW ss \in Seq(Seq(S)), NEW e \in Seq(S)
    PROVE  FlattenSeq(Append(ss, e)) = FlattenSeq(ss) \o e
  <1>1. FlattenSeq(Append(ss, e)) = IF ss = <<>> THEN e ELSE FlattenSeq(ss) \o e
    BY FlattenAppendAny
  <1>2. ss = <<>> => FlattenSeq(ss) \o e = e
    BY FlattenEmpty
  <1> QED
    BY <1>1, <1>2

\* Where each part of a joined sequence begins: the parts are in it, and
\* nothing else is.
CutAt(ss, first) ==
    /\ \A k \in 1 .. Len(ss) : \A j \in 1 .. Len(ss[k]) :
          /\ first[k] + j - 1 \in 1 .. Len(FlattenSeq(ss))
          /\ FlattenSeq(ss)[first[k] + j - 1] = ss[k][j]
    /\ \A i \in 1 .. Len(FlattenSeq(ss)) :
          \E k \in 1 .. Len(ss) : \E j \in 1 .. Len(ss[k]) : i = first[k] + j - 1

LEMMA FlattenCut ==
    ASSUME NEW S, NEW ss \in Seq(Seq(S))
    PROVE  \E first \in [1 .. Len(ss) -> Nat \ {0}] : CutAt(ss, first)
  <1> DEFINE G == {t \in Seq(Seq(S)) : \E first \in [1 .. Len(t) -> Nat \ {0}] : CutAt(t, first)}
  <1>1. <<>> \in G
    <2>1. FlattenSeq(<<>>) = <<>> /\ Len(<<>>) = 0 /\ <<>> \in Seq(Seq(S))
      BY FlattenEmpty
    <2>2. [k \in 1 .. 0 |-> 1] \in [1 .. Len(<<>>) -> Nat \ {0}]
      OBVIOUS
    <2>3. CutAt(<<>>, [k \in 1 .. 0 |-> 1])
      BY <2>1 DEF CutAt
    <2> QED
      BY <2>1, <2>2, <2>3
  <1>2. ASSUME NEW t \in Seq(Seq(S)), NEW e \in Seq(S), t \in G PROVE Append(t, e) \in G
    <2>1. PICK f \in [1 .. Len(t) -> Nat \ {0}] : CutAt(t, f)
      BY <1>2
    <2> DEFINE all == FlattenSeq(t)
               n == Len(t)
               m == Len(all)
               u == Append(t, e)
               g == [k \in 1 .. n + 1 |-> IF k <= n THEN f[k] ELSE m + 1]
    <2>2. /\ all \in Seq(S) /\ n \in Nat /\ m \in Nat
          /\ FlattenSeq(u) = all \o e
          /\ Len(all \o e) = m + Len(e) /\ Len(e) \in Nat
      BY FlattenType, FlattenAppend
    <2>3. /\ \A i \in 1 .. m : (all \o e)[i] = all[i]
          /\ \A j \in 1 .. Len(e) : (all \o e)[m + j] = e[j]
      <3>1. all \in Seq(S)
        BY <2>2
      <3> HIDE DEF all
      <3> QED
        BY <3>1
    <2>4. /\ u \in Seq(Seq(S)) /\ Len(u) = n + 1 /\ u[n + 1] = e
          /\ \A k \in 1 .. n : u[k] = t[k] /\ t[k] \in Seq(S)
      <3> DEFINE Q == Seq(S)
      <3>1. t \in Seq(Q) /\ e \in Q
        OBVIOUS
      <3> HIDE DEF Q
      <3>2. /\ u \in Seq(Q) /\ Len(u) = n + 1 /\ u[n + 1] = e
            /\ \A k \in 1 .. n : u[k] = t[k] /\ t[k] \in Q
        BY <3>1
      <3> QED
        BY <3>2 DEF Q
    <2>5. g \in [1 .. Len(u) -> Nat \ {0}]
      BY <2>2, <2>4
    <2>6. /\ \A k \in 1 .. n : g[k] = f[k] /\ f[k] \in Nat
          /\ g[n + 1] = m + 1
      <3>1. n \in Nat /\ f \in [1 .. n -> Nat \ {0}]
        BY <2>1, <2>2
      <3> HIDE DEF n, m
      <3> QED
        BY <3>1
    <2>7. /\ \A k \in 1 .. n : \A j \in 1 .. Len(t[k]) :
                f[k] + j - 1 \in 1 .. m /\ all[f[k] + j - 1] = t[k][j]
          /\ \A i \in 1 .. m : \E k \in 1 .. n : \E j \in 1 .. Len(t[k]) : i = f[k] + j - 1
      BY <2>1 DEF CutAt
    <2> HIDE DEF all, n, m, u, g
    <2>8. ASSUME NEW k \in 1 .. n + 1, NEW j \in 1 .. Len(u[k])
          PROVE  g[k] + j - 1 \in 1 .. m + Len(e) /\ (all \o e)[g[k] + j - 1] = u[k][j]
      <3>1. CASE k \in 1 .. n
        <4>1. g[k] = f[k] /\ u[k] = t[k] /\ j \in 1 .. Len(t[k])
          BY <2>4, <2>6, <3>1
        <4>2. f[k] + j - 1 \in 1 .. m /\ all[f[k] + j - 1] = t[k][j]
          BY <2>7, <3>1, <4>1
        <4>3. (all \o e)[f[k] + j - 1] = t[k][j]
          BY <2>3, <4>2
        <4> QED
          BY <2>2, <4>1, <4>2, <4>3
      <3>2. CASE k = n + 1
        <4>1. g[k] = m + 1 /\ u[k] = e /\ j \in 1 .. Len(e)
          BY <2>4, <2>6, <3>2
        <4>2. g[k] + j - 1 = m + j
          BY <2>2, <4>1
        <4> QED
          BY <2>2, <2>3, <4>1, <4>2
      <3>3. k \in 1 .. n \/ k = n + 1
        BY <2>2
      <3> QED
        BY <3>1, <3>2, <3>3
    <2>9. ASSUME NEW i \in 1 .. m + Len(e)
          PROVE  \E k \in 1 .. n + 1 : \E j \in 1 .. Len(u[k]) : i = g[k] + j - 1
      <3>1. CASE i \in 1 .. m
        <4>1. PICK k \in 1 .. n : \E j \in 1 .. Len(t[k]) : i = f[k] + j - 1
          BY <2>7, <3>1
        <4>2. k \in 1 .. n + 1 /\ g[k] = f[k] /\ u[k] = t[k]
          BY <2>2, <2>4, <2>6
        <4> QED
          BY <4>1, <4>2
      <3>2. CASE i \in m + 1 .. m + Len(e)
        <4>1. i - m \in 1 .. Len(e) /\ i = m + 1 + (i - m) - 1
          BY <2>2, <3>2
        <4>2. n + 1 \in 1 .. n + 1
          BY <2>2
        <4> QED
          BY <2>4, <2>6, <4>1, <4>2
      <3>3. i \in 1 .. m \/ i \in m + 1 .. m + Len(e)
        BY <2>2
      <3> QED
        BY <3>1, <3>2, <3>3
    <2>10. CutAt(u, g)
      <3>1. Len(u) = n + 1 /\ FlattenSeq(u) = all \o e /\ Len(FlattenSeq(u)) = m + Len(e)
        BY <2>2, <2>4
      <3>2. \A k \in 1 .. Len(u) : \A j \in 1 .. Len(u[k]) :
               /\ g[k] + j - 1 \in 1 .. Len(FlattenSeq(u))
               /\ FlattenSeq(u)[g[k] + j - 1] = u[k][j]
        BY <2>8, <3>1
      <3>3. \A i \in 1 .. Len(FlattenSeq(u)) :
               \E k \in 1 .. Len(u) : \E j \in 1 .. Len(u[k]) : i = g[k] + j - 1
        BY <2>9, <3>1
      <3> QED
        BY Zenon, <3>2, <3>3 DEF CutAt
    <2> QED
      BY <2>4, <2>5, <2>10 DEF u
  <1> HIDE DEF G
  <1>3. Seq(Seq(S)) \subseteq G
    BY <1>1, <1>2, SeqInduct
  <1> QED
    BY <1>3 DEF G

\* Two lists whose parts have the same lengths, joined: what is related in the
\* parts is related in the whole.
Related(ss, tt, R) ==
    /\ Len(ss) = Len(tt)
    /\ \A k \in 1 .. Len(ss) :
          /\ Len(ss[k]) = Len(tt[k])
          /\ \A j \in 1 .. Len(ss[k]) : <<ss[k][j], tt[k][j]>> \in R

LEMMA FlattenPair ==
    ASSUME NEW S, NEW T, NEW R, NEW ss \in Seq(Seq(S)), NEW tt \in Seq(Seq(T)),
           Related(ss, tt, R)
    PROVE  /\ Len(FlattenSeq(ss)) = Len(FlattenSeq(tt))
           /\ \A i \in 1 .. Len(FlattenSeq(ss)) : <<FlattenSeq(ss)[i], FlattenSeq(tt)[i]>> \in R
  <1> DEFINE Paired(a, b) == /\ Len(a) = Len(b)
                             /\ \A i \in 1 .. Len(a) : <<a[i], b[i]>> \in R
             N == {n \in Nat : \A s \in Seq(Seq(S)), t \in Seq(Seq(T)) :
                      Len(s) = n /\ Related(s, t, R) => Paired(FlattenSeq(s), FlattenSeq(t))}
  <1>1. 0 \in N
    <2> SUFFICES ASSUME NEW s \in Seq(Seq(S)), NEW t \in Seq(Seq(T)), Len(s) = 0, Related(s, t, R)
                 PROVE  Paired(FlattenSeq(s), FlattenSeq(t))
      OBVIOUS
    <2>1. s = <<>> /\ t = <<>>
      BY DEF Related
    <2>2. Paired(<<>>, <<>>)
      OBVIOUS
    <2> HIDE DEF Paired
    <2> QED
      BY <2>1, <2>2, FlattenEmpty
  <1>2. ASSUME NEW n \in Nat, n \in N PROVE n + 1 \in N
    <2> SUFFICES ASSUME NEW s \in Seq(Seq(S)), NEW t \in Seq(Seq(T)),
                        Len(s) = n + 1, Related(s, t, R)
                 PROVE  Paired(FlattenSeq(s), FlattenSeq(t))
      OBVIOUS
    <2>1. PICK s1 \in Seq(Seq(S)), a \in Seq(S) : s = Append(s1, a)
      <3> DEFINE Q == Seq(S)
      <3>1. s \in Seq(Q) /\ s # <<>>
        OBVIOUS
      <3> HIDE DEF Q
      <3>2. \E s1 \in Seq(Q), a \in Q : s = Append(s1, a)
        BY <3>1, SequenceEmptyOrAppend
      <3> QED
        BY <3>2 DEF Q
    <2>2. PICK t1 \in Seq(Seq(T)), b \in Seq(T) : t = Append(t1, b)
      <3> DEFINE Q == Seq(T)
      <3>1. t \in Seq(Q) /\ Len(t) = n + 1
        BY DEF Related
      <3> HIDE DEF Q
      <3>2. t # <<>>
        BY <3>1
      <3>3. \E t1 \in Seq(Q), b \in Q : t = Append(t1, b)
        BY <3>1, <3>2, SequenceEmptyOrAppend
      <3> QED
        BY <3>3 DEF Q
    <2>3. /\ Len(s1) = n /\ s[n + 1] = a
          /\ \A k \in 1 .. n : s[k] = s1[k]
      <3> DEFINE Q == Seq(S)
      <3>1. s1 \in Seq(Q) /\ a \in Q
        OBVIOUS
      <3> HIDE DEF Q
      <3> QED
        BY <2>1, <3>1
    <2>4. /\ Len(t1) = n /\ t[n + 1] = b
          /\ \A k \in 1 .. n : t[k] = t1[k]
      <3> DEFINE Q == Seq(T)
      <3>1. t1 \in Seq(Q) /\ b \in Q /\ Len(t) = n + 1
        BY DEF Related
      <3> HIDE DEF Q
      <3> QED
        BY <2>2, <3>1
    <2>5. /\ Len(a) = Len(b)
          /\ \A j \in 1 .. Len(a) : <<a[j], b[j]>> \in R
      <3>1. n + 1 \in 1 .. Len(s)
        OBVIOUS
      <3> QED
        BY <2>3, <2>4, <3>1 DEF Related
    <2>6. Related(s1, t1, R)
      <3>1. \A k \in 1 .. n : k \in 1 .. Len(s)
        OBVIOUS
      <3> QED
        BY <2>3, <2>4, <3>1 DEF Related
    <2> DEFINE x == FlattenSeq(s1)
               y == FlattenSeq(t1)
    <2>7. /\ x \in Seq(S) /\ y \in Seq(T)
          /\ FlattenSeq(s) = x \o a /\ FlattenSeq(t) = y \o b
      BY <2>1, <2>2, FlattenType, FlattenAppend
    <2>8. Paired(x, y)
      BY <1>2, <2>3, <2>6
    <2> HIDE DEF x, y
    <2>9. /\ Len(x) = Len(y) /\ Len(x) \in Nat /\ Len(a) \in Nat
          /\ Len(x \o a) = Len(x) + Len(a) /\ Len(y \o b) = Len(x) + Len(a)
      <3>1. Len(x) = Len(y)
        BY Zenon, <2>8
      <3>2. a \in Seq(S) /\ x \in Seq(S)
        BY <2>1, <2>7
      <3>3. b \in Seq(T) /\ y \in Seq(T)
        BY <2>2, <2>7
      <3>4. Len(x \o a) = Len(x) + Len(a) /\ Len(x) \in Nat /\ Len(a) \in Nat
        BY <3>2
      <3>5. Len(y \o b) = Len(y) + Len(b)
        BY <3>3
      <3> QED
        BY Zenon, <2>5, <3>1, <3>4, <3>5
    <2>10. ASSUME NEW i \in 1 .. Len(x \o a) PROVE <<(x \o a)[i], (y \o b)[i]>> \in R
      <3>1. CASE i <= Len(x)
        <4>1. i \in 1 .. Len(x) /\ (x \o a)[i] = x[i] /\ (y \o b)[i] = y[i]
          BY <2>1, <2>2, <2>7, <2>9, <3>1
        <4> QED
          BY <2>8, <4>1
      <3>2. CASE i > Len(x)
        <4>1. PICK j \in 1 .. Len(a) : i = Len(x) + j
          <5>1. i - Len(x) \in 1 .. Len(a) /\ i = Len(x) + (i - Len(x))
            BY <2>9, <3>2
          <5> QED
            BY <5>1
        <4>2. (x \o a)[Len(x) + j] = a[j]
          <5>1. a \in Seq(S) /\ x \in Seq(S)
            BY <2>1, <2>7
          <5> QED
            BY <5>1, SecondOfConcat
        <4>3. (y \o b)[Len(y) + j] = b[j]
          <5>1. b \in Seq(T) /\ y \in Seq(T) /\ j \in 1 .. Len(b)
            BY <2>2, <2>5, <2>7
          <5> QED
            BY <5>1, SecondOfConcat
        <4>4. (x \o a)[i] = a[j] /\ (y \o b)[i] = b[j]
          BY Zenon, <2>9, <4>1, <4>2, <4>3
        <4>5. <<a[j], b[j]>> \in R
          BY Zenon, <2>5
        <4> QED
          BY Zenon, <4>4, <4>5
      <3>3. i <= Len(x) \/ i > Len(x)
        BY <2>9
      <3> QED
        BY Zenon, <3>1, <3>2, <3>3
    <2> QED
      BY <2>7, <2>10, <2>9
  <1> HIDE DEF N
  <1>3. Nat \subseteq N
    BY <1>1, <1>2, NatInduct
  <1> QED
    BY <1>3 DEF N

-----------------------------------------------------------------------------
(* FlattenSeq of two sequences, and of what a function makes of them       *)

LEMMA FlattenConcat ==
    ASSUME NEW S, NEW s \in Seq(Seq(S)), NEW t \in Seq(Seq(S))
    PROVE  FlattenSeq(s \o t) = FlattenSeq(s) \o FlattenSeq(t)
  <1> DEFINE Q == Seq(S)
             G == {u \in Seq(Q) : FlattenSeq(s \o u) = FlattenSeq(s) \o FlattenSeq(u)}
  <1>1. FlattenSeq(s) \in Seq(S)
    BY FlattenType
  <1>2. <<>> \in G
    <2>1. s \o <<>> = s /\ FlattenSeq(s) \o <<>> = FlattenSeq(s) /\ <<>> \in Seq(Q)
      <3> HIDE DEF Q
      <3>1. s \in Seq(Q)
        BY DEF Q
      <3> QED
        BY <1>1, <3>1
    <2> QED
      BY Zenon, <2>1, FlattenEmpty
  <1>3. ASSUME NEW u \in Seq(Q), NEW e \in Q, u \in G PROVE Append(u, e) \in G
    <2>1. FlattenSeq(u) \in Seq(S) /\ e \in Seq(S)
      BY FlattenType
    <2>2. s \o Append(u, e) = Append(s \o u, e) /\ s \o u \in Seq(Q) /\ Append(u, e) \in Seq(Q)
      <3>1. s \in Seq(Q)
        OBVIOUS
      <3> HIDE DEF Q
      <3> QED
        BY <3>1
    <2>3. FlattenSeq(Append(s \o u, e)) = FlattenSeq(s \o u) \o e
      BY <2>2, FlattenAppend
    <2>4. FlattenSeq(Append(u, e)) = FlattenSeq(u) \o e
      BY FlattenAppend
    <2>5. FlattenSeq(s \o u) = FlattenSeq(s) \o FlattenSeq(u)
      BY <1>3
    <2>6. (FlattenSeq(s) \o FlattenSeq(u)) \o e = FlattenSeq(s) \o (FlattenSeq(u) \o e)
      BY <1>1, <2>1
    <2> QED
      BY Zenon, <2>2, <2>3, <2>4, <2>5, <2>6
  <1> HIDE DEF G
  <1>4. Seq(Q) \subseteq G
    <2> HIDE DEF Q
    <2> QED
      BY <1>2, <1>3, SeqInduct
  <1> QED
    BY <1>4 DEF G

Mapped(f, s) == [i \in DOMAIN s |-> f[s[i]]]

LEMMA MappedType ==
    ASSUME NEW S, NEW T, NEW f \in [S -> T], NEW s \in Seq(S)
    PROVE  Mapped(f, s) \in Seq(T)
  BY DEF Mapped

LEMMA MappedConcat ==
    ASSUME NEW S, NEW f, NEW s \in Seq(S), NEW t \in Seq(S)
    PROVE  Mapped(f, s \o t) = Mapped(f, s) \o Mapped(f, t)
  <1> DEFINE l == Mapped(f, s \o t)
             r == Mapped(f, s) \o Mapped(f, t)
             T == {f[x] : x \in S}
  <1>1. /\ Mapped(f, s) \in Seq(T) /\ Mapped(f, t) \in Seq(T) /\ l \in Seq(T)
        /\ Len(Mapped(f, s)) = Len(s) /\ Len(Mapped(f, t)) = Len(t) /\ Len(l) = Len(s) + Len(t)
    BY DEF Mapped
  <1> HIDE DEF T
  <1>2. r \in Seq(T) /\ Len(r) = Len(l)
    <2>1. ASSUME NEW x \in Seq(T), NEW y \in Seq(T)
          PROVE  x \o y \in Seq(T) /\ Len(x \o y) = Len(x) + Len(y)
      OBVIOUS
    <2> HIDE DEF l
    <2> QED
      BY <1>1, <2>1
  <1>3. ASSUME NEW i \in 1 .. Len(l) PROVE l[i] = r[i]
    <2>1. CASE i <= Len(s)
      <3>1. (s \o t)[i] = s[i] /\ r[i] = Mapped(f, s)[i]
        BY <1>1, <2>1
      <3> QED
        BY <1>1, <2>1, <3>1 DEF Mapped
    <2>2. CASE i > Len(s)
      <3>1. PICK j \in 1 .. Len(t) : i = Len(s) + j
        <4>1. i - Len(s) \in 1 .. Len(t) /\ i = Len(s) + (i - Len(s))
          BY <1>1, <2>2
        <4> QED
          BY <4>1
      <3>2. (s \o t)[i] = t[j]
        BY <3>1
      <3>3. r[i] = Mapped(f, t)[j]
        BY <1>1, <3>1, SecondOfConcat
      <3> QED
        BY <1>1, <3>1, <3>2, <3>3 DEF Mapped
    <2> QED
      BY <1>1, <2>1, <2>2
  <1> HIDE DEF l, r
  <1>4. l = r
    BY <1>1, <1>2, <1>3
  <1> QED
    BY <1>4 DEF l, r

LEMMA FlattenMapped ==
    ASSUME NEW S, NEW T, NEW f \in [S -> Seq(T)], NEW s \in Seq(S), NEW t \in Seq(S)
    PROVE  /\ FlattenSeq(Mapped(f, s)) \in Seq(T)
           /\ FlattenSeq(Mapped(f, s \o t)) = FlattenSeq(Mapped(f, s)) \o FlattenSeq(Mapped(f, t))
  <1> DEFINE Q == Seq(T)
  <1>1. Mapped(f, s) \in Seq(Q) /\ Mapped(f, t) \in Seq(Q)
        /\ Mapped(f, s \o t) = Mapped(f, s) \o Mapped(f, t)
    <2>1. f \in [S -> Q]
      OBVIOUS
    <2> HIDE DEF Q
    <2>2. Mapped(f, s) \in Seq(Q) /\ Mapped(f, t) \in Seq(Q)
      BY Zenon, <2>1, MappedType
    <2>3. Mapped(f, s \o t) = Mapped(f, s) \o Mapped(f, t)
      BY MappedConcat
    <2> QED
      BY <2>2, <2>3
  <1> QED
    BY <1>1, FlattenType, FlattenConcat

LEMMA FlattenMappedOne ==
    ASSUME NEW S, NEW T, NEW f \in [S -> Seq(T)], NEW e \in S
    PROVE  FlattenSeq(Mapped(f, <<e>>)) = f[e]
  <1> DEFINE Q == Seq(T)
  <1>1. f[e] \in Q
    OBVIOUS
  <1>2. Mapped(f, <<e>>) = Append(<<>>, f[e]) /\ <<>> \in Seq(Q)
    <2> HIDE DEF Q
    <2> QED
      BY <1>1 DEF Mapped
  <1>3. FlattenSeq(Append(<<>>, f[e])) = f[e]
    BY <1>1, <1>2, FlattenAppendAny
  <1> QED
    BY <1>2, <1>3

-----------------------------------------------------------------------------
(* Joining short sequences                                                 *)

LEMMA ConcatIs ==
    ASSUME NEW S, NEW x \in Seq(S), NEW y \in Seq(S), NEW z \in Seq(S)
    PROVE  /\ x \o y \in Seq(S) /\ (x \o y) \o z = x \o (y \o z)
           /\ x \o <<>> = x /\ <<>> \o x = x
  OBVIOUS

LEMMA PrefixOfConcat ==
    ASSUME NEW S, NEW x \in Seq(S), NEW y \in Seq(S)
    PROVE  IsPrefix(x, x \o y)
  <1>1. SubSeq(x \o y, 1, Len(x)) = SubSeq(x, 1, Len(x))
    <2>1. Len(x) \in 0 .. Len(x)
      OBVIOUS
    <2> QED
      BY <2>1, BeginningOfConcat
  <1>2. Len(x) <= Len(x \o y)
    OBVIOUS
  <1> QED
    BY <1>1, <1>2 DEF IsPrefix

LEMMA PairIs ==
    ASSUME NEW S, NEW a \in S, NEW b \in S
    PROVE  /\ <<a>> \in Seq(S) /\ <<b>> \in Seq(S) /\ <<a, b>> \in Seq(S)
           /\ <<a>> \o <<b>> = <<a, b>>
  <1>1. <<a>> \in Seq(S) /\ <<b>> \in Seq(S) /\ <<a, b>> \in Seq(S)
    OBVIOUS
  <1>2. Len(<<a>> \o <<b>>) = 2 /\ (<<a>> \o <<b>>)[1] = a /\ (<<a>> \o <<b>>)[2] = b
    BY <1>1
  <1>3. <<a>> \o <<b>> \in Seq(S)
    BY <1>1
  <1>4. PICK x \in Seq(S), y \in Seq(S) : x = <<a>> \o <<b>> /\ y = <<a, b>>
    BY <1>1, <1>3
  <1>5. Len(x) = 2 /\ Len(y) = 2
    BY <1>2, <1>4
  <1>6. x[1] = a /\ x[2] = b /\ y[1] = a /\ y[2] = b
    BY <1>2, <1>4
  <1>7. \A i \in 1 .. 2 : x[i] = y[i]
    BY <1>6
  <1>8. x = y
    BY <1>5, <1>7
  <1> QED
    BY <1>1, <1>4, <1>8

LEMMA NothingTwice == <<>> \o <<>> = <<>>
  <1>1. \A s \in Seq(Nat) : <<>> \o s = s
    OBVIOUS
  <1>2. <<>> \in Seq(Nat)
    OBVIOUS
  <1> QED
    BY <1>1, <1>2

LEMMA HeadAndRest ==
    ASSUME NEW S, NEW s \in Seq(S), s # <<>>
    PROVE  \E e \in S, t \in Seq(S) : s = Cons(e, t)
  <1>1. s[1] \in S /\ Tail(s) \in Seq(S) /\ Len(Tail(s)) = Len(s) - 1
        /\ \A i \in 1 .. Len(Tail(s)) : Tail(s)[i] = s[i + 1]
    OBVIOUS
  <1>2. PICK e \in S, t \in Seq(S) : e = s[1] /\ t = Tail(s)
    BY <1>1
  <1>3. PICK n \in Nat : n = Len(t)
    BY <1>2
  <1>4. Len(s) = n + 1 /\ \A i \in 1 .. n : t[i] = s[i + 1]
    BY <1>1, <1>2, <1>3
  <1>5. <<e>> \o t \in Seq(S) /\ Len(<<e>> \o t) = n + 1
        /\ (<<e>> \o t)[1] = e /\ \A i \in 1 .. n : (<<e>> \o t)[i + 1] = t[i]
    BY <1>3
  <1>6. ASSUME NEW i \in 1 .. n + 1 PROVE (<<e>> \o t)[i] = s[i]
    <2>1. CASE i = 1
      BY <1>2, <1>5, <2>1
    <2>2. CASE i # 1
      <3>1. PICK j \in 1 .. n : i = j + 1
        <4>1. i - 1 \in 1 .. n /\ i = (i - 1) + 1
          BY <2>2
        <4> QED
          BY <4>1
      <3> QED
        BY <1>4, <1>5, <3>1
    <2> QED
      BY <2>1, <2>2
  <1>7. PICK r \in Seq(S) : r = <<e>> \o t
    BY <1>5
  <1>8. r = s
    BY <1>4, <1>5, <1>6, <1>7
  <1>9. s = Cons(e, t)
    BY Zenon, <1>7, <1>8 DEF Cons
  <1> QED
    BY <1>9

LEMMA CutIs ==
    ASSUME NEW S, NEW s \in Seq(S), NEW n \in DOMAIN s
    PROVE  /\ SubSeq(s, 1, n) \in Seq(S) /\ SubSeq(s, n + 1, Len(s)) \in Seq(S)
           /\ SubSeq(s, 1, n) \o SubSeq(s, n + 1, Len(s)) = s
  <1>1. PICK l \in Nat : l = Len(s) /\ n \in 1 .. l
    OBVIOUS
  <1>2. SubSeq(s, 1, n) \in Seq(S) /\ Len(SubSeq(s, 1, n)) = n
        /\ \A i \in 1 .. n : SubSeq(s, 1, n)[i] = s[i]
    BY <1>1
  <1>3. SubSeq(s, n + 1, l) \in Seq(S) /\ Len(SubSeq(s, n + 1, l)) = l - n
        /\ \A i \in 1 .. l - n : SubSeq(s, n + 1, l)[i] = s[n + i]
    BY <1>1
  <1>4. PICK a \in Seq(S), b \in Seq(S) : a = SubSeq(s, 1, n) /\ b = SubSeq(s, n + 1, l)
    BY <1>2, <1>3
  <1>5. /\ a \o b \in Seq(S) /\ Len(a \o b) = l
        /\ \A i \in 1 .. n : (a \o b)[i] = a[i]
    <2>1. Len(a) = n /\ Len(b) = l - n
      BY <1>2, <1>3, <1>4
    <2>2. /\ a \o b \in Seq(S) /\ Len(a \o b) = Len(a) + Len(b)
          /\ \A i \in 1 .. Len(a) : (a \o b)[i] = a[i]
      OBVIOUS
    <2> QED
      BY <1>1, <2>1, <2>2
  <1>6. \A j \in 1 .. l - n : (a \o b)[n + j] = b[j]
    <2>1. Len(a) = n /\ Len(b) = l - n
      BY <1>2, <1>3, <1>4
    <2>2. \A j \in 1 .. Len(b) : (a \o b)[Len(a) + j] = b[j]
      BY SecondOfConcat
    <2> QED
      BY Zenon, <2>1, <2>2
  <1>7. ASSUME NEW i \in 1 .. l PROVE (a \o b)[i] = s[i]
    <2>1. CASE i <= n
      BY <1>1, <1>2, <1>4, <1>5, <2>1
    <2>2. CASE i > n
      <3>1. PICK j \in 1 .. l - n : i = n + j
        <4>1. i - n \in 1 .. l - n /\ i = n + (i - n)
          BY <1>1, <2>2
        <4> QED
          BY <4>1
      <3> QED
        BY <1>3, <1>4, <1>6, <3>1
    <2>3. i <= n \/ i > n
      BY <1>1
    <2> QED
      BY Zenon, <2>1, <2>2, <2>3
  <1>8. PICK r \in Seq(S) : r = a \o b
    BY <1>5
  <1>9. r = s
    <2>1. Len(r) = Len(s) /\ \A i \in 1 .. Len(r) : r[i] = s[i]
      BY Zenon, <1>1, <1>5, <1>7, <1>8
    <2> QED
      BY <2>1
  <1> QED
    BY <1>1, <1>2, <1>3, <1>4, <1>8, <1>9
=============================================================================
