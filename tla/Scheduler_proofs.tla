-------------------------- MODULE Scheduler_proofs --------------------------
(***************************************************************************)
(* Proofs about the scheduler and its KV cache, for every configuration    *)
(* and every set of requests.                                              *)
(*                                                                         *)
(* First the cache: its invariant KVInv, and that it implements exclusive  *)
(* ownership.  Then the requests: CoreInv is about them and their blocks,  *)
(* and is kept by every change the calls make to them; PassInv is about    *)
(* the loops.  Then the batches: what is handed to the executor is true    *)
(* (SoundInv), nobody is passed over (FairInv), nobody waits on an idle    *)
(* cache (IdleInv) or is overtaken by one that asks for as much (ScanInv), *)
(* and the growth reserve holds (ReserveInv).  Where a theorem assumes     *)
(* ~PartialOutputs, the outputs are about the batch: what the execution    *)
(* pipeline lets through.                                                  *)
(***************************************************************************)
EXTENDS Scheduler, FiniteSetTheorems, FunctionTheorems, SequenceTheorems, TLAPS

-----------------------------------------------------------------------------
(* Lemmas about the operators                                              *)

\* A number of tokens takes a natural number of blocks.
LEMMA BlocksForTokensType ==
    ASSUME NEW n \in Nat
    PROVE  BlocksForTokens(n) \in Nat
  BY KVAssumption DEF BlocksForTokens

\* Cutting a list without repetitions gives two disjoint ones.
LEMMA CutInjective ==
    ASSUME NEW S, NEW list \in Seq(S), IsInjective(list), NEW n \in 0 .. Len(list)
    PROVE  LET front == SubSeq(list, 1, n)
               back  == SubSeq(list, n + 1, Len(list))
           IN  /\ front \in Seq(S) /\ back \in Seq(S)
               /\ Len(front) = n /\ Len(back) = Len(list) - n
               /\ IsInjective(front) /\ IsInjective(back)
               /\ Range(front) \cap Range(back) = {}
               /\ Range(front) \cup Range(back) = Range(list)
  <1> DEFINE front == SubSeq(list, 1, n)
             back  == SubSeq(list, n + 1, Len(list))
  <1>0. /\ Len(list) \in Nat /\ n \in Nat
        /\ DOMAIN list = 1 .. Len(list)
        /\ \A i \in 1 .. Len(list) : list[i] \in S
    BY LenProperties, ElementOfSeq
  <1>1. /\ front \in Seq(S) /\ Len(front) = n
        /\ \A i \in 1 .. n : front[i] = list[i]
    <2>1. \A i \in 1 .. n : list[i] \in S
      BY <1>0
    <2>2. /\ front \in Seq(S)
          /\ Len(front) = IF 1 <= n THEN n - 1 + 1 ELSE 0
          /\ \A i \in 1 .. n - 1 + 1 : front[i] = list[1 + i - 1]
      BY <1>0, <2>1, SubSeqProperties
    <2> QED
      BY <1>0, <2>2
  <1>2. /\ back \in Seq(S) /\ Len(back) = Len(list) - n
        /\ \A i \in 1 .. Len(list) - n : back[i] = list[n + i]
    <2>1. \A i \in n + 1 .. Len(list) : list[i] \in S
      BY <1>0
    <2>2. /\ back \in Seq(S)
          /\ Len(back) = IF n + 1 <= Len(list) THEN Len(list) - (n + 1) + 1 ELSE 0
          /\ \A i \in 1 .. Len(list) - (n + 1) + 1 : back[i] = list[n + 1 + i - 1]
      BY <1>0, <2>1, SubSeqProperties
    <2> HIDE DEF back
    <2>3. Len(back) = Len(list) - n
      <3>1. PICK m \in Nat : m = Len(list)
        BY <1>0
      <3>2. n \in 0 .. m /\ Len(back) = IF n + 1 <= m THEN m - (n + 1) + 1 ELSE 0
        BY <2>2, <3>1
      <3>3. Len(back) = m - n
        BY <3>2
      <3> QED
        BY <3>1, <3>3
    <2>4. ASSUME NEW i \in 1 .. Len(list) - n PROVE back[i] = list[n + i]
      <3>1. i \in 1 .. Len(list) - (n + 1) + 1 /\ n + 1 + i - 1 = n + i
        BY <1>0
      <3> QED
        BY <2>2, <3>1
    <2> QED
      BY <2>2, <2>3, <2>4
  <1>3. DOMAIN front = 1 .. n /\ DOMAIN back = 1 .. Len(list) - n
    BY <1>1, <1>2, LenProperties
  <1> HIDE DEF front, back
  <1>4. IsInjective(front) /\ IsInjective(back)
    <2>1. \A i, j \in 1 .. Len(list) : list[i] = list[j] => i = j
      BY <1>0 DEF IsInjective
    <2>2. \A i, j \in 1 .. n : front[i] = front[j] => i = j
      BY <1>0, <1>1, <2>1
    <2>3. ASSUME NEW i \in 1 .. Len(list) - n, NEW j \in 1 .. Len(list) - n,
                 back[i] = back[j]
          PROVE  i = j
      <3>1. n + i \in 1 .. Len(list) /\ n + j \in 1 .. Len(list)
        BY <1>0
      <3>2. list[n + i] = list[n + j]
        BY <1>2, <2>3
      <3> QED
        BY <1>0, <2>1, <3>1, <3>2
    <2> QED
      BY <1>3, <2>2, <2>3 DEF IsInjective
  <1>5. Range(front) \cap Range(back) = {}
    <2> SUFFICES ASSUME NEW i \in 1 .. n, NEW j \in 1 .. Len(list) - n,
                        front[i] = back[j]
                 PROVE  FALSE
      BY <1>3 DEF Range
    <2>1. list[i] = list[n + j] /\ i \in DOMAIN list /\ n + j \in DOMAIN list
      BY <1>0, <1>1, <1>2
    <2>2. i = n + j
      BY <2>1 DEF IsInjective
    <2> QED
      BY <1>0, <2>2
  <1>6. Range(front) \cup Range(back) = Range(list)
    <2>1. ASSUME NEW x \in Range(list)
          PROVE  x \in Range(front) \cup Range(back)
      <3>1. PICK i \in 1 .. Len(list) : x = list[i]
        BY <1>0 DEF Range
      <3>2. CASE i <= n
        BY <1>0, <1>1, <1>3, <3>1, <3>2 DEF Range
      <3>3. CASE i > n
        <4>1. i - n \in 1 .. Len(list) - n /\ back[i - n] = list[i]
          BY <1>0, <1>2, <3>1, <3>3
        <4> QED
          BY <1>3, <3>1, <4>1 DEF Range
      <3> QED
        BY <1>0, <3>1, <3>2, <3>3
    <2>2. Range(front) \subseteq Range(list)
      BY <1>0, <1>1, <1>3 DEF Range
    <2>3. ASSUME NEW j \in 1 .. Len(list) - n
          PROVE  back[j] \in Range(list)
      <3>1. n + j \in DOMAIN list /\ back[j] = list[n + j]
        BY <1>0, <1>2
      <3> QED
        BY <3>1 DEF Range
    <2>4. Range(back) \subseteq Range(list)
      BY <1>3, <2>3 DEF Range
    <2> QED
      BY <2>1, <2>2, <2>4
  <1> QED
    BY <1>1, <1>2, <1>4, <1>5, <1>6 DEF front, back

\* Joining two disjoint lists without repetitions gives one without.
LEMMA JoinInjective ==
    ASSUME NEW S, NEW a \in Seq(S), NEW b \in Seq(S),
           IsInjective(a), IsInjective(b), Range(a) \cap Range(b) = {}
    PROVE  /\ a \o b \in Seq(S)
           /\ IsInjective(a \o b)
           /\ Range(a \o b) = Range(a) \cup Range(b)
  <1>1. /\ a \o b \in Seq(S)
        /\ Len(a \o b) = Len(a) + Len(b)
        /\ \A i \in 1 .. Len(a) + Len(b) :
              (a \o b)[i] = IF i <= Len(a) THEN a[i] ELSE b[i - Len(a)]
    BY ConcatProperties
  <1>2. /\ Len(a) \in Nat /\ Len(b) \in Nat
        /\ DOMAIN a = 1 .. Len(a) /\ DOMAIN b = 1 .. Len(b)
        /\ DOMAIN (a \o b) = 1 .. Len(a) + Len(b)
    BY <1>1, LenProperties
  <1>3. \A i \in DOMAIN a, j \in DOMAIN b : a[i] # b[j]
    BY DEF Range
  <1>4. IsInjective(a \o b)
    <2> SUFFICES ASSUME NEW i \in 1 .. Len(a) + Len(b), NEW j \in 1 .. Len(a) + Len(b),
                        (a \o b)[i] = (a \o b)[j]
                 PROVE  i = j
      BY <1>2 DEF IsInjective
    <2>1. CASE i <= Len(a) /\ j <= Len(a)
      <3>1. i \in DOMAIN a /\ j \in DOMAIN a /\ a[i] = a[j]
        BY <1>1, <1>2, <2>1
      <3> QED
        BY <3>1 DEF IsInjective
    <2>2. CASE i > Len(a) /\ j > Len(a)
      <3>1. /\ i - Len(a) \in DOMAIN b /\ j - Len(a) \in DOMAIN b
            /\ b[i - Len(a)] = b[j - Len(a)]
        BY <1>1, <1>2, <2>2
      <3>2. i - Len(a) = j - Len(a)
        BY <3>1 DEF IsInjective
      <3> QED
        BY <1>2, <3>2
    <2>3. CASE i <= Len(a) /\ j > Len(a)
      <3>1. i \in DOMAIN a /\ j - Len(a) \in DOMAIN b /\ a[i] = b[j - Len(a)]
        BY <1>1, <1>2, <2>3
      <3> QED
        BY <1>3, <3>1
    <2>4. CASE i > Len(a) /\ j <= Len(a)
      <3>1. j \in DOMAIN a /\ i - Len(a) \in DOMAIN b /\ a[j] = b[i - Len(a)]
        BY <1>1, <1>2, <2>4
      <3> QED
        BY <1>3, <3>1
    <2> QED
      BY <1>2, <2>1, <2>2, <2>3, <2>4
  <1>5. Range(a \o b) = Range(a) \cup Range(b)
    BY RangeConcatenation
  <1> QED
    BY <1>1, <1>4, <1>5
-----------------------------------------------------------------------------
(* Every operation preserves the invariant                                 *)

LEMMA KVInitInv ==
    ASSUME KVInit
    PROVE  KVInv
  <1>1. freeList \in Seq(Blocks)
    <2>1. \A i \in 1 .. NumBlocks : i - 1 \in Blocks
      BY KVAssumption DEF Blocks
    <2> QED
      BY <2>1, KVAssumption, IsASeq DEF KVInit
  <1>2. Live = {}
    BY DEF KVInit, Live
  <1>3. FreeListExact
    <2>1. IsInjective(freeList)
      BY KVAssumption DEF KVInit, IsInjective
    <2>2. Range(freeList) = Blocks
      <3>1. ASSUME NEW b \in Blocks PROVE b \in Range(freeList)
        <4>1. b + 1 \in 1 .. NumBlocks /\ freeList[b + 1] = b
          BY KVAssumption DEF KVInit, Blocks
        <4> QED
          BY <4>1 DEF KVInit, Range
      <3>2. Range(freeList) \subseteq Blocks
        BY KVAssumption DEF KVInit, Blocks, Range
      <3> QED
        BY <3>1, <3>2
    <2> QED
      BY <2>1, <2>2 DEF FreeListExact, KVInit
  <1> QED
    BY <1>1, <1>2, <1>3 DEF KVInv, KVTypeOK, OwnedOnce, KVInit, Live

LEMMA AllocateSequenceInv ==
    ASSUME KVInv, NEW s \in SeqIds, NEW tokens \in Nat, AllocateSequence(s, tokens)
    PROVE  /\ KVInv'
           /\ pageTables'[s] \in Seq(Blocks)
           /\ Len(pageTables'[s]) = BlocksForTokens(tokens)
           /\ Range(pageTables'[s]) \subseteq Range(freeList)
  <1> DEFINE n     == BlocksForTokens(tokens)
             table == SubSeq(freeList, 1, n)
             back  == SubSeq(freeList, n + 1, Len(freeList))
  <1>1. n \in 0 .. Len(freeList)
    BY BlocksForTokensType, LenProperties
       DEF AllocateSequence, CanAllocate, NumFreeBlocks, KVInv, KVTypeOK
  <1>2. /\ table \in Seq(Blocks) /\ back \in Seq(Blocks)
        /\ Len(table) = n
        /\ IsInjective(table) /\ IsInjective(back)
        /\ Range(table) \cap Range(back) = {}
        /\ Range(table) \cup Range(back) = Range(freeList)
    BY <1>1, CutInjective DEF KVInv, KVTypeOK, FreeListExact
  <1>3. /\ s \notin Live
        /\ refCount' = [b \in Blocks |-> IF b \in Range(table) THEN 1 ELSE refCount[b]]
        /\ freeList' = back
        /\ pageTables' = [t \in Live \cup {s} |-> IF t = s THEN table ELSE pageTables[t]]
        /\ Live' = Live \cup {s}
    BY DEF AllocateSequence, NumFreeBlocks, Live
  <1> HIDE DEF n, table, back
  <1>4. Range(table) \subseteq Blocks /\ Range(back) \subseteq Blocks
    BY <1>2, RangeOfSeq
  <1>5. KVTypeOK'
    BY <1>2, <1>3 DEF KVInv, KVTypeOK
  <1>6. FreeListExact'
    BY <1>2, <1>3, <1>4 DEF KVInv, KVTypeOK, FreeListExact
  <1>7. OwnedOnce'
    <2>1. \A t \in Live : Range(pageTables[t]) \cap Range(freeList) = {}
      BY DEF KVInv, FreeListExact, OwnedOnce
    <2>2. \A t \in Live : pageTables'[t] = pageTables[t]
      BY <1>3
    <2>3. pageTables'[s] = table
      BY <1>3
    <2>4. \A t \in Live' : IsInjective(pageTables'[t])
      BY <1>2, <1>3, <2>2, <2>3 DEF KVInv, OwnedOnce
    <2>5. \A t, u \in Live' : t # u => Range(pageTables'[t]) \cap Range(pageTables'[u]) = {}
      BY <1>2, <1>3, <2>1, <2>2, <2>3 DEF KVInv, OwnedOnce
    <2>6. \A b \in Blocks : refCount'[b] = IF \E t \in Live' : b \in Range(pageTables'[t])
                                            THEN 1 ELSE 0
      BY <1>3, <2>2, <2>3 DEF KVInv, OwnedOnce
    <2> QED
      BY <2>4, <2>5, <2>6 DEF OwnedOnce
  <1>8. pageTables'[s] = table
    BY <1>3
  <1> QED
    BY <1>2, <1>5, <1>6, <1>7, <1>8 DEF KVInv, n

LEMMA AllocateBlockInv ==
    ASSUME KVInv, NEW s \in SeqIds, AllocateBlock(s)
    PROVE  /\ KVInv'
           /\ Head(freeList) \in Range(freeList)
           /\ pageTables'[s] = Append(pageTables[s], Head(freeList))
           /\ Range(pageTables'[s]) = Range(pageTables[s]) \cup {Head(freeList)}
           /\ Live' = Live
  <1> DEFINE b0   == Head(freeList)
             back == Tail(freeList)
  <1>1. freeList \in Seq(Blocks) /\ 1 \in 0 .. Len(freeList) /\ freeList # <<>>
    BY LenProperties, EmptySeq
       DEF AllocateBlock, CanAllocate, NumFreeBlocks, KVInv, KVTypeOK
  <1>2. /\ back = SubSeq(freeList, 1 + 1, Len(freeList))
        /\ SubSeq(freeList, 1, 1) = <<b0>>
    <2>1. b0 = freeList[1] /\ back = SubSeq(freeList, 2, Len(freeList))
      BY <1>1, TailIsSubSeq
    <2>2. 1 \in 1 .. Len(freeList)
      BY <1>1, LenProperties
    <2>3. SubSeq(freeList, 1, 1) = <<freeList[1]>> \o SubSeq(freeList, 1 + 1, 1)
      BY <1>1, <2>2, SubSeqRecursiveFirst
    <2>4. SubSeq(freeList, 1 + 1, 1) = <<>>
      BY SubSeqEmpty
    <2>5. <<freeList[1]>> \in Seq(Blocks)
      BY <1>1, <2>2, ElementOfSeq
    <2>6. SubSeq(freeList, 1, 1) = <<freeList[1]>>
      BY <2>3, <2>4, <2>5, ConcatEmptySeq
    <2> QED
      BY <2>1, <2>6
  <1>3. Range(<<b0>>) = {b0}
    BY DEF Range
  <1>4. /\ back \in Seq(Blocks) /\ IsInjective(back)
        /\ b0 \notin Range(back)
        /\ {b0} \cup Range(back) = Range(freeList)
    <2>1. /\ SubSeq(freeList, 1 + 1, Len(freeList)) \in Seq(Blocks)
          /\ IsInjective(SubSeq(freeList, 1 + 1, Len(freeList)))
          /\ Range(SubSeq(freeList, 1, 1)) \cap Range(SubSeq(freeList, 1 + 1, Len(freeList))) = {}
          /\ Range(SubSeq(freeList, 1, 1)) \cup Range(SubSeq(freeList, 1 + 1, Len(freeList)))
                = Range(freeList)
      <3>1. IsInjective(freeList)
        BY DEF KVInv, FreeListExact
      <3> HIDE DEF b0, back
      <3> QED
        BY <1>1, <3>1, CutInjective
    <2> HIDE DEF b0, back
    <2> QED
      BY <1>2, <1>3, <2>1
  <1>5. /\ s \in Live
        /\ refCount' = [refCount EXCEPT ![b0] = 1]
        /\ freeList' = back
        /\ pageTables' = [pageTables EXCEPT ![s] = Append(pageTables[s], b0)]
    BY DEF AllocateBlock
  <1>6. /\ Live' = Live
        /\ pageTables'[s] = Append(pageTables[s], b0)
        /\ \A t \in Live \ {s} : pageTables'[t] = pageTables[t]
    BY <1>5 DEF Live, KVInv, KVTypeOK
  <1> HIDE DEF b0, back
  <1>7. b0 \in Range(freeList) /\ b0 \in Blocks
    BY <1>1, <1>4, RangeOfSeq
  <1>8. /\ pageTables[s] \in Seq(Blocks) /\ IsInjective(pageTables[s])
        /\ b0 \notin Range(pageTables[s])
    BY <1>5, <1>7 DEF KVInv, KVTypeOK, OwnedOnce, FreeListExact
  <1>9. /\ Append(pageTables[s], b0) \in Seq(Blocks)
        /\ IsInjective(Append(pageTables[s], b0))
        /\ Range(Append(pageTables[s], b0)) = Range(pageTables[s]) \cup {b0}
    <2>1. Append(pageTables[s], b0) = pageTables[s] \o <<b0>>
      BY <1>7, <1>8, AppendIsConcat
    <2>2. <<b0>> \in Seq(Blocks) /\ IsInjective(<<b0>>)
      BY <1>7 DEF IsInjective
    <2>3. Range(pageTables[s]) \cap Range(<<b0>>) = {}
      BY <1>3, <1>8
    <2> DEFINE one == <<b0>>
    <2>4. /\ pageTables[s] \o one \in Seq(Blocks)
          /\ IsInjective(pageTables[s] \o one)
          /\ Range(pageTables[s] \o one) = Range(pageTables[s]) \cup Range(one)
      <3>1. one \in Seq(Blocks) /\ IsInjective(one) /\ Range(pageTables[s]) \cap Range(one) = {}
        BY <2>2, <2>3
      <3> HIDE DEF one
      <3> QED
        BY <1>8, <3>1, JoinInjective
    <2> QED
      BY <1>3, <2>1, <2>4
  <1>10. KVTypeOK'
    BY <1>4, <1>5, <1>6, <1>9 DEF KVInv, KVTypeOK, Live
  <1>11. FreeListExact'
    BY <1>4, <1>5, <1>7 DEF KVInv, KVTypeOK, FreeListExact
  <1>12. OwnedOnce'
    <2>1. \A t \in Live : b0 \notin Range(pageTables[t])
      BY <1>7 DEF KVInv, FreeListExact, OwnedOnce
    <2>2. Range(pageTables'[s]) = Range(pageTables[s]) \cup {b0}
      BY <1>6, <1>9
    <2>3. \A t \in Live' : IsInjective(pageTables'[t])
      BY <1>6, <1>9 DEF KVInv, OwnedOnce
    <2>4. \A t, u \in Live' : t # u => Range(pageTables'[t]) \cap Range(pageTables'[u]) = {}
      <3> SUFFICES ASSUME NEW t \in Live, NEW u \in Live, t # u
                   PROVE  Range(pageTables'[t]) \cap Range(pageTables'[u]) = {}
        BY <1>6
      <3>1. Range(pageTables[t]) \cap Range(pageTables[u]) = {}
        BY DEF KVInv, OwnedOnce
      <3>2. b0 \notin Range(pageTables[t]) /\ b0 \notin Range(pageTables[u])
        BY <2>1
      <3>3. CASE t = s
        BY <1>6, <2>2, <3>1, <3>2, <3>3
      <3>4. CASE u = s
        BY <1>6, <2>2, <3>1, <3>2, <3>4
      <3>5. CASE t # s /\ u # s
        BY <1>6, <3>1, <3>5
      <3> QED
        BY <3>3, <3>4, <3>5
    <2>5. ASSUME NEW b \in Blocks
          PROVE  refCount'[b] = IF \E t \in Live' : b \in Range(pageTables'[t])
                                THEN 1 ELSE 0
      BY <1>5, <1>6, <2>2 DEF KVInv, KVTypeOK, OwnedOnce
    <2> QED
      BY <2>3, <2>4, <2>5 DEF OwnedOnce
  <1> QED
    BY <1>6, <1>7, <1>9, <1>10, <1>11, <1>12 DEF KVInv, b0

LEMMA FreeSequenceInv ==
    ASSUME KVInv, NEW s \in SeqIds, FreeSequence(s)
    PROVE  /\ KVInv'
           /\ Live' = Live \ {s}
           /\ \A t \in Live' : pageTables'[t] = pageTables[t]
  <1> DEFINE table == pageTables[s]
  <1>1. /\ s \in Live
        /\ refCount' = [b \in Blocks |-> IF b \in Range(table) /\ refCount[b] > 0
                                         THEN refCount[b] - 1 ELSE refCount[b]]
        /\ freeList' = freeList \o Released(table)
        /\ pageTables' = [t \in Live \ {s} |-> pageTables[t]]
        /\ Live' = Live \ {s}
    BY DEF FreeSequence, Live
  <1>2. /\ table \in Seq(Blocks) /\ IsInjective(table)
        /\ Range(table) \subseteq Blocks
        /\ \A b \in Range(table) : refCount[b] = 1
    BY <1>1, RangeOfSeq DEF KVInv, KVTypeOK, OwnedOnce
  <1>3. Released(table) = table
    BY <1>2 DEF Released, Range
  <1>4. Range(freeList) \cap Range(table) = {}
    BY <1>2 DEF KVInv, FreeListExact
  <1> HIDE DEF table
  <1>5. /\ freeList' \in Seq(Blocks) /\ IsInjective(freeList')
        /\ Range(freeList') = Range(freeList) \cup Range(table)
    BY <1>1, <1>2, <1>3, <1>4, JoinInjective DEF KVInv, KVTypeOK, FreeListExact
  <1>6. refCount' = [b \in Blocks |-> IF b \in Range(table) THEN 0 ELSE refCount[b]]
    BY <1>1, <1>2
  <1>7. KVTypeOK'
    BY <1>1, <1>5, <1>6 DEF KVInv, KVTypeOK
  <1>8. FreeListExact'
    BY <1>2, <1>5, <1>6 DEF KVInv, KVTypeOK, FreeListExact
  <1>9. OwnedOnce'
    <2>1. \A t \in Live' : pageTables'[t] = pageTables[t]
      BY <1>1
    <2>2. \A t \in Live' : Range(pageTables[t]) \cap Range(table) = {}
      BY <1>1 DEF KVInv, OwnedOnce, table
    <2>3. ASSUME NEW b \in Blocks
          PROVE  refCount'[b] = IF \E t \in Live' : b \in Range(pageTables'[t])
                                THEN 1 ELSE 0
      BY <1>1, <1>6, <2>1, <2>2 DEF KVInv, OwnedOnce, table
    <2> QED
      BY <1>1, <2>1, <2>3 DEF KVInv, OwnedOnce
  <1> QED
    BY <1>1, <1>7, <1>8, <1>9 DEF KVInv

-----------------------------------------------------------------------------
(* The invariant                                                           *)

\* No sequence of calls loses a block, hands one out twice or shares one
\* between two sequences: the pool of src/kv_cache.rs keeps its free list, its
\* reference counts and its page tables consistent.
THEOREM KVInvariant == KVSpec => []KVInv
  <1>1. KVInit => KVInv
    BY KVInitInv
  <1>2. KVInv /\ [KVNext]_kvVars => KVInv'
    <2> SUFFICES ASSUME KVInv, [KVNext]_kvVars PROVE KVInv'
      OBVIOUS
    <2>1. ASSUME NEW s \in SeqIds, NEW tokens \in 0 .. NumBlocks * BlockSize + 1,
                 AllocateSequence(s, tokens)
          PROVE  KVInv'
      <3>1. tokens \in Nat
        BY KVAssumption
      <3> QED
        BY <2>1, <3>1, AllocateSequenceInv
    <2>2. ASSUME NEW s \in SeqIds, AllocateBlock(s) PROVE KVInv'
      BY <2>2, AllocateBlockInv
    <2>3. ASSUME NEW s \in SeqIds, FreeSequence(s) PROVE KVInv'
      BY <2>3, FreeSequenceInv
    <2>4. CASE UNCHANGED kvVars
      BY <2>4 DEF kvVars, KVInv, KVTypeOK, FreeListExact, OwnedOnce, Live
    <2> QED
      BY <2>1, <2>2, <2>3, <2>4 DEF KVNext
  <1> QED
    BY <1>1, <1>2, PTL DEF KVSpec
-----------------------------------------------------------------------------
(* What memory pressure is computed from                                   *)

LEMMA InjectiveLength ==
    ASSUME NEW S, NEW list \in Seq(S), IsInjective(list)
    PROVE  IsFiniteSet(Range(list)) /\ Cardinality(Range(list)) = Len(list)
  <1>1. /\ Len(list) \in Nat
        /\ list \in [1 .. Len(list) -> S]
        /\ DOMAIN list = 1 .. Len(list)
    BY LenProperties
  <1>2. list \in Injection(1 .. Len(list), S)
    BY <1>1, Fun_IsInj DEF IsInjective
  <1>3. list \in Bijection(1 .. Len(list), Range(list))
    BY <1>2, Fun_InjMeansBijImage
  <1>4. ExistsBijection(1 .. Len(list), Range(list))
    BY <1>3 DEF ExistsBijection
  <1>5. IsFiniteSet(1 .. Len(list)) /\ Cardinality(1 .. Len(list)) = Len(list)
    BY <1>1, FS_Interval
  <1> QED
    BY <1>4, <1>5, FS_Bijection

LEMMA KVInvUsed ==
    ASSUME KVInv
    PROVE  UsedIsHeld
  <1> DEFINE held == UNION {Range(pageTables[s]) : s \in Live}
  <1>1. \A s \in Live : Range(pageTables[s]) \subseteq Blocks
    BY RangeOfSeq DEF KVInv, KVTypeOK
  <1>2. held = Blocks \ Range(freeList)
    BY <1>1 DEF KVInv, OwnedOnce, FreeListExact
  <1>3. Range(freeList) \subseteq Blocks
    BY DEF KVInv, FreeListExact
  <1>4. Cardinality(Range(freeList)) = Len(freeList)
    BY InjectiveLength DEF KVInv, KVTypeOK, FreeListExact
  <1>5. IsFiniteSet(Blocks) /\ Cardinality(Blocks) = NumBlocks
    BY KVAssumption, FS_Interval DEF Blocks
  <1>6. Cardinality(held) = NumBlocks - Cardinality(Blocks \cap Range(freeList))
    BY <1>2, <1>5, FS_Difference
  <1>7. Blocks \cap Range(freeList) = Range(freeList)
    BY <1>3
  <1> QED
    BY <1>4, <1>6, <1>7 DEF UsedIsHeld, NumUsedBlocks, NumFreeBlocks

\* The number of used blocks that the scheduler reads from the cache is the
\* number of blocks that live sequences hold, in every reachable state.
THEOREM UsedBlocksExact == KVSpec => []UsedIsHeld
  BY KVInvariant, KVInvUsed, PTL

-----------------------------------------------------------------------------
(* The cache implements BlockOwnership                                     *)

\* The free blocks of the abstract specification are those of the free list.
LEMMA FreeIsFreeList ==
    ASSUME KVInv
    PROVE  Ownership!Free = Range(freeList)
  <1>1. UNION {[s \in SeqIds |-> Held(s)][h] : h \in SeqIds}
           = UNION {Range(pageTables[s]) : s \in Live}
    BY DEF Held, KVInv, KVTypeOK
  <1>2. \A s \in Live : Range(pageTables[s]) \subseteq Blocks
    BY RangeOfSeq DEF KVInv, KVTypeOK
  <1>3. Blocks \ UNION {Range(pageTables[s]) : s \in Live} = Range(freeList)
    BY <1>2 DEF KVInv, OwnedOnce, FreeListExact
  <1> QED
    BY <1>1, <1>3 DEF Ownership!Free

LEMMA AllocateSequenceAcquires ==
    ASSUME KVInv, NEW s \in SeqIds, NEW tokens \in Nat, AllocateSequence(s, tokens)
    PROVE  Ownership!Acquire(s, Range(pageTables'[s]))
  <1>1. Range(pageTables'[s]) \subseteq Ownership!Free
    BY AllocateSequenceInv, FreeIsFreeList
  <1>2. /\ s \notin Live /\ Live' = Live \cup {s}
        /\ \A t \in Live : pageTables'[t] = pageTables[t]
    BY DEF AllocateSequence, Live
  <1>3. \A t \in SeqIds : Held(t)' = IF t = s THEN Held(s) \cup Range(pageTables'[s]) ELSE Held(t)
    BY <1>2 DEF Held
  <1> QED
    BY <1>1, <1>2, <1>3 DEF Ownership!Acquire

LEMMA AllocateBlockAcquires ==
    ASSUME KVInv, NEW s \in SeqIds, AllocateBlock(s)
    PROVE  Ownership!Acquire(s, {Head(freeList)})
  <1>1. {Head(freeList)} \subseteq Ownership!Free
    BY AllocateBlockInv, FreeIsFreeList
  <1>2. /\ s \in Live /\ Live' = Live
        /\ Range(pageTables'[s]) = Range(pageTables[s]) \cup {Head(freeList)}
    BY AllocateBlockInv DEF AllocateBlock
  <1>3. \A t \in Live \ {s} : pageTables'[t] = pageTables[t]
    BY DEF AllocateBlock, KVInv, KVTypeOK, Live
  <1>4. \A t \in SeqIds : Held(t)' = IF t = s THEN Held(s) \cup {Head(freeList)} ELSE Held(t)
    BY <1>2, <1>3 DEF Held
  <1> QED
    BY <1>1, <1>2, <1>4 DEF Ownership!Acquire

LEMMA FreeSequenceReleases ==
    ASSUME KVInv, NEW s \in SeqIds, FreeSequence(s)
    PROVE  Ownership!Release(s)
  <1>1. /\ s \in Live /\ Live' = Live \ {s}
        /\ \A t \in Live' : pageTables'[t] = pageTables[t]
    BY FreeSequenceInv DEF FreeSequence
  <1>2. \A t \in SeqIds : Held(t)' = IF t = s THEN {} ELSE Held(t)
    BY <1>1 DEF Held
  <1> QED
    BY <1>1, <1>2 DEF Ownership!Release

\* The pool with its counts, lists and tables implements exclusive ownership:
\* every call acquires blocks that were free or releases a sequence's blocks.
THEOREM KVCacheImplementsOwnership == KVSpec => OwnershipSpec
  <1>1. KVInit => Ownership!Init
    <2> SUFFICES ASSUME KVInit PROVE Ownership!Init
      OBVIOUS
    <2>1. Live = {}
      BY DEF KVInit, Live
    <2> QED
      BY <2>1 DEF Ownership!Init, Held
  <1>2. KVInv /\ [KVNext]_kvVars => [Ownership!Next]_Ownership!vars
    <2> SUFFICES ASSUME KVInv, [KVNext]_kvVars
                 PROVE  Ownership!Next \/ UNCHANGED Ownership!vars
      OBVIOUS
    <2>1. ASSUME NEW s \in SeqIds, NEW new, new \subseteq Ownership!Free, Ownership!Acquire(s, new)
          PROVE  Ownership!Next
      BY <2>1 DEF Ownership!Next
    <2>2. ASSUME NEW s \in SeqIds, NEW tokens \in 0 .. NumBlocks * BlockSize + 1,
                 AllocateSequence(s, tokens)
          PROVE  Ownership!Next
      <3>1. tokens \in Nat
        BY KVAssumption
      <3> DEFINE new == Range(pageTables'[s])
      <3>2. Ownership!Acquire(s, new)
        BY <2>2, <3>1, AllocateSequenceAcquires
      <3> HIDE DEF new
      <3>3. new \subseteq Ownership!Free
        BY <3>2 DEF Ownership!Acquire
      <3> QED
        BY <2>1, <3>2, <3>3
    <2>3. ASSUME NEW s \in SeqIds, AllocateBlock(s) PROVE Ownership!Next
      <3> DEFINE new == {Head(freeList)}
      <3>1. Ownership!Acquire(s, new)
        BY <2>3, AllocateBlockAcquires
      <3> HIDE DEF new
      <3>2. new \subseteq Ownership!Free
        BY <3>1 DEF Ownership!Acquire
      <3> QED
        BY <2>1, <3>1, <3>2
    <2>4. ASSUME NEW s \in SeqIds, FreeSequence(s) PROVE Ownership!Next
      BY <2>4, FreeSequenceReleases DEF Ownership!Next
    <2>5. CASE UNCHANGED kvVars
      BY <2>5 DEF kvVars, Ownership!vars, Held, Live
    <2> QED
      BY <2>2, <2>3, <2>4, <2>5 DEF KVNext
  <1> QED
    BY <1>1, <1>2, KVInvariant, PTL DEF KVSpec, OwnershipSpec, Ownership!Spec

-----------------------------------------------------------------------------
(* The requests and their blocks                                           *)

CoreType ==
    /\ request \in Seq(Requests)
    /\ Submitted \subseteq SeqIds
    /\ logicalBlocks \in [SeqIds -> Seq(Blocks)]
    /\ generated \in [SeqIds -> Nat]
    /\ completed \subseteq [id : SeqIds, outcome : Outcomes]
    /\ reported \subseteq [id : SeqIds, outcome : Outcomes]

CoreInv == KVInv /\ CoreType /\ ExactlyOnePlace /\ TablesMatchActive

coreVars == <<kvVars, request, pending, prefill, decode, logicalBlocks, generated,
              completed, reported>>

-----------------------------------------------------------------------------
(* The changes to the requests keep CoreInv                                *)

LEMMA PlacesTyped ==
    ASSUME CoreInv
    PROVE  /\ pending \subseteq SeqIds /\ prefill \subseteq SeqIds /\ decode \subseteq SeqIds
           /\ Active \subseteq SeqIds
  BY DEF CoreInv, CoreType, ExactlyOnePlace, Active

LEMMA UnchangedCore ==
    ASSUME CoreInv, UNCHANGED coreVars
    PROVE  CoreInv'
  BY DEF coreVars, kvVars, CoreInv, CoreType, ExactlyOnePlace, TablesMatchActive, KVInv,
         KVTypeOK, FreeListExact, OwnedOnce, Live, Submitted, Active, Terminal, IdsOf

LEMMA IdsOfOne ==
    ASSUME NEW s, NEW outcome, NEW T
    PROVE  IdsOf(T \cup {[id |-> s, outcome |-> outcome]}) = IdsOf(T) \cup {s}
  <1> DEFINE rec == [id |-> s, outcome |-> outcome]
  <1>1. rec.id = s
    OBVIOUS
  <1> HIDE DEF rec
  <1>2. IdsOf(T \cup {rec}) = IdsOf(T) \cup {s}
    BY <1>1 DEF IdsOf
  <1> QED
    BY <1>2 DEF rec

LEMMA RetireCore ==
    ASSUME CoreInv, NEW s \in Active, NEW outcome \in Outcomes, Retire(s, outcome)
    PROVE  /\ CoreInv'
           /\ Active' = Active \ {s}
           /\ pending' = pending
           /\ prefill' = prefill \ {s} /\ decode' = decode \ {s}
           /\ \A t \in Active' : pageTables'[t] = pageTables[t]
  <1>1. s \in SeqIds
    BY PlacesTyped
  <1>2. /\ KVInv'
        /\ Live' = Live \ {s}
        /\ \A t \in Live' : pageTables'[t] = pageTables[t]
    BY <1>1, FreeSequenceInv DEF CoreInv, Retire
  <1> DEFINE rec == [id |-> s, outcome |-> outcome]
  <1>3. /\ prefill' = prefill \ {s} /\ decode' = decode \ {s}
        /\ logicalBlocks' = [logicalBlocks EXCEPT ![s] = <<>>]
        /\ generated' = [generated EXCEPT ![s] = 0]
        /\ completed' = completed \cup {rec}
        /\ request' = request /\ pending' = pending /\ reported' = reported
    BY DEF Retire
  <1>4. rec \in [id : SeqIds, outcome : Outcomes] /\ rec.id = s
    BY <1>1
  <1>5. Active' = Active \ {s}
    BY <1>3 DEF Active
  <1>6. CoreType'
    <2>1. <<>> \in Seq(Blocks)
      BY EmptySeq
    <2>2. logicalBlocks' \in [SeqIds -> Seq(Blocks)]
      BY <1>3, <2>1 DEF CoreInv, CoreType
    <2>3. generated' \in [SeqIds -> Nat]
      BY <1>3 DEF CoreInv, CoreType
    <2>4. completed' \subseteq [id : SeqIds, outcome : Outcomes]
      <3> HIDE DEF rec
      <3> QED
        BY <1>3, <1>4 DEF CoreInv, CoreType
    <2> QED
      BY <1>3, <2>2, <2>3, <2>4 DEF CoreInv, CoreType, Submitted
  <1>7. Terminal' = Terminal \cup {rec} /\ IdsOf(Terminal') = IdsOf(Terminal) \cup {s}
    <2>1. Terminal' = Terminal \cup {rec}
      BY <1>3 DEF Terminal
    <2>2. IdsOf(Terminal \cup {rec}) = IdsOf(Terminal) \cup {s}
      BY IdsOfOne
    <2> QED
      BY <2>1, <2>2
  <1> HIDE DEF rec
  <1>8. s \notin IdsOf(Terminal) /\ s \notin pending
    BY DEF CoreInv, ExactlyOnePlace
  <1>9. ExactlyOnePlace'
    <2>1. Submitted' = pending' \cup Active' \cup IdsOf(Terminal')
      BY <1>3, <1>5, <1>7 DEF CoreInv, ExactlyOnePlace, Submitted
    <2>2. /\ prefill' \cap decode' = {} /\ pending' \cap Active' = {}
          /\ IdsOf(Terminal') \cap (pending' \cup Active') = {}
      BY <1>3, <1>5, <1>7, <1>8 DEF CoreInv, ExactlyOnePlace
    <2>3. \A c \in Terminal : c.id # s
      BY <1>8 DEF IdsOf
    <2>4. completed' \cap reported' = {}
      BY <1>3, <1>4, <2>3 DEF CoreInv, ExactlyOnePlace, Terminal
    <2>5. \A c, d \in Terminal' : c.id = d.id => c = d
      BY <1>4, <1>7, <2>3 DEF CoreInv, ExactlyOnePlace
    <2> QED
      BY <2>1, <2>2, <2>4, <2>5 DEF ExactlyOnePlace
  <1>10. TablesMatchActive'
    <2>1. Live' = Active'
      BY <1>2, <1>5 DEF CoreInv, TablesMatchActive
    <2>2. ASSUME NEW t \in Active' PROVE logicalBlocks'[t] = pageTables'[t]
      <3>1. t \in Active /\ t # s /\ t \in SeqIds
        BY <1>5, PlacesTyped
      <3>2. logicalBlocks'[t] = logicalBlocks[t]
        BY <1>3, <3>1 DEF CoreInv, CoreType
      <3> QED
        BY <1>2, <2>1, <3>1, <3>2 DEF CoreInv, TablesMatchActive
    <2> QED
      BY <2>1, <2>2 DEF TablesMatchActive
  <1> QED
    BY <1>2, <1>3, <1>5, <1>6, <1>9, <1>10 DEF CoreInv, TablesMatchActive

LEMMA DropCore ==
    ASSUME CoreInv, NEW waiting \in SUBSET pending, NEW outcome \in Outcomes,
           Drop(waiting, outcome)
    PROVE  CoreInv' /\ pending' = pending \ waiting
  <1> DEFINE recs == {[id |-> w, outcome |-> outcome] : w \in waiting}
  <1>1. /\ pending' = pending \ waiting
        /\ completed' = completed \cup recs
        /\ UNCHANGED <<kvVars, request, prefill, decode, logicalBlocks, generated, reported>>
    BY DEF Drop
  <1>2. recs \subseteq [id : SeqIds, outcome : Outcomes]
    BY PlacesTyped
  <1>3. /\ \A r \in recs : r.id \in waiting
        /\ \A q, r \in recs : q.id = r.id => q = r
        /\ \A w \in waiting : \E r \in recs : r.id = w
    <2>1. ASSUME NEW r \in recs
          PROVE  r.id \in waiting /\ r = [id |-> r.id, outcome |-> outcome]
      <3>1. PICK w \in waiting : r = [id |-> w, outcome |-> outcome]
        OBVIOUS
      <3> QED
        BY <3>1
    <2>2. ASSUME NEW w \in waiting PROVE \E r \in recs : r.id = w
      <3>1. [id |-> w, outcome |-> outcome] \in recs
        OBVIOUS
      <3>2. [id |-> w, outcome |-> outcome].id = w
        OBVIOUS
      <3> QED
        BY <3>1, <3>2
    <2> HIDE DEF recs
    <2>3. \A q, r \in recs : q.id = r.id => q = r
      BY <2>1
    <2> QED
      BY <2>1, <2>2, <2>3
  <1> HIDE DEF recs
  <1>4. KVInv' /\ Active' = Active /\ Submitted' = Submitted /\ Live' = Live
    BY <1>1 DEF CoreInv, kvVars, KVInv, KVTypeOK, FreeListExact, OwnedOnce, Live, Active,
                Submitted
  <1>5. CoreType'
    BY <1>1, <1>2, <1>4 DEF CoreInv, CoreType
  <1>6. Terminal' = Terminal \cup recs /\ IdsOf(Terminal') = IdsOf(Terminal) \cup waiting
    <2>1. Terminal' = Terminal \cup recs
      BY <1>1 DEF Terminal
    <2> QED
      BY <1>3, <2>1 DEF IdsOf
  <1>7. \A c \in Terminal : c.id \notin waiting
    BY DEF CoreInv, ExactlyOnePlace, IdsOf
  <1>8. ExactlyOnePlace'
    <2>1. /\ Submitted' = pending' \cup Active' \cup IdsOf(Terminal')
          /\ prefill' \cap decode' = {} /\ pending' \cap Active' = {}
          /\ IdsOf(Terminal') \cap (pending' \cup Active') = {}
      BY <1>1, <1>4, <1>6 DEF CoreInv, ExactlyOnePlace
    <2>2. completed' \cap reported' = {}
      BY <1>1, <1>3, <1>7 DEF CoreInv, ExactlyOnePlace, Terminal
    <2>3. \A c, d \in Terminal' : c.id = d.id => c = d
      BY <1>3, <1>6, <1>7 DEF CoreInv, ExactlyOnePlace
    <2> QED
      BY <2>1, <2>2, <2>3 DEF ExactlyOnePlace
  <1>9. TablesMatchActive'
    BY <1>1, <1>4 DEF CoreInv, TablesMatchActive, kvVars
  <1> QED
    BY <1>1, <1>4, <1>5, <1>8, <1>9 DEF CoreInv

LEMMA AddCore ==
    ASSUME CoreInv, NEW r \in Requests, AddRequest(r)
    PROVE  CoreInv' /\ pending \subseteq pending' /\ pending' \subseteq SeqIds
  <1> DEFINE s == Len(request) + 1
  <1>1. /\ s \in SeqIds
        /\ request' = Append(request, r)
        /\ pending' = pending \cup {s}
        /\ UNCHANGED <<kvVars, prefill, decode, logicalBlocks, generated, completed, reported>>
    BY DEF AddRequest
  <1>2. request \in Seq(Requests) /\ Len(request) \in Nat /\ Submitted = 1 .. Len(request)
    BY LenProperties DEF CoreInv, CoreType, Submitted
  <1>3. /\ request' \in Seq(Requests)
        /\ Submitted' = Submitted \cup {s}
        /\ s \notin Submitted
    <2>1. request' \in Seq(Requests) /\ Len(request') = Len(request) + 1
      BY <1>1, <1>2, AppendProperties
    <2>2. Submitted' = 1 .. Len(request) + 1
      BY <2>1, LenProperties DEF Submitted
    <2> QED
      BY <1>2, <2>1, <2>2
  <1>4. /\ KVInv' /\ Active' = Active /\ Live' = Live
        /\ Terminal' = Terminal /\ IdsOf(Terminal') = IdsOf(Terminal)
    BY <1>1 DEF CoreInv, kvVars, KVInv, KVTypeOK, FreeListExact, OwnedOnce, Live, Active,
                Terminal, IdsOf
  <1> HIDE DEF s
  <1>5. CoreType'
    BY <1>1, <1>3 DEF CoreInv, CoreType
  <1>6. ExactlyOnePlace'
    BY <1>1, <1>3, <1>4 DEF CoreInv, ExactlyOnePlace
  <1>7. TablesMatchActive'
    BY <1>1, <1>4 DEF CoreInv, TablesMatchActive, kvVars
  <1> QED
    BY <1>1, <1>4, <1>5, <1>6, <1>7, PlacesTyped DEF CoreInv

\* A submitted request asks for a positive number of tokens.
LEMMA RequestTyped ==
    ASSUME CoreInv, NEW s \in Submitted
    PROVE  /\ request[s] \in Requests
           /\ Prompt(s) \in Nat \ {0} /\ request[s].maxTokens \in Nat \ {0}
           /\ request[s].priority \in Int
  <1>1. request[s] \in Requests
    BY ElementOfSeq, LenProperties DEF CoreInv, CoreType, Submitted
  <1> QED
    BY <1>1, SchedulerAssumption DEF Prompt

LEMMA StartCore ==
    ASSUME CoreInv, NEW s \in pending, StartPrefill(s)
    PROVE  /\ CoreInv'
           /\ pending' = pending \ {s}
           /\ Active' = Active \cup {s}
           /\ pageTables'[s] \in Seq(Blocks)
           /\ Len(pageTables'[s]) = BlocksForTokens(Prompt(s))
  <1>1. s \in SeqIds /\ s \in Submitted /\ s \notin Active
    BY PlacesTyped DEF CoreInv, ExactlyOnePlace
  <1>2. Prompt(s) \in Nat
    BY <1>1, RequestTyped
  <1>3. /\ AllocateSequence(s, Prompt(s))
        /\ pending' = pending \ {s}
        /\ prefill' = prefill \cup {s}
        /\ logicalBlocks' = [logicalBlocks EXCEPT ![s] = pageTables'[s]]
        /\ UNCHANGED <<request, decode, generated, completed, reported>>
    BY DEF StartPrefill
  <1>4. /\ KVInv'
        /\ pageTables'[s] \in Seq(Blocks)
        /\ Len(pageTables'[s]) = BlocksForTokens(Prompt(s))
    BY <1>1, <1>2, <1>3, AllocateSequenceInv DEF CoreInv
  <1>5. Live' = Live \cup {s} /\ \A t \in Live : t # s => pageTables'[t] = pageTables[t]
    BY <1>3 DEF AllocateSequence, Live
  <1>6. /\ Active' = Active \cup {s} /\ Terminal' = Terminal
        /\ IdsOf(Terminal') = IdsOf(Terminal)
    BY <1>3 DEF Active, Terminal, IdsOf
  <1>7. CoreType'
    BY <1>1, <1>3, <1>4 DEF CoreInv, CoreType, Submitted
  <1>8. ExactlyOnePlace'
    <2>1. Submitted' = Submitted
      BY <1>3 DEF Submitted
    <2>2. prefill' \cap decode' = {}
      BY <1>1, <1>3 DEF CoreInv, ExactlyOnePlace, Active
    <2> QED
      BY <1>1, <1>3, <1>6, <2>1, <2>2 DEF CoreInv, ExactlyOnePlace
  <1>9. TablesMatchActive'
    <2>1. ASSUME NEW t \in Active' PROVE logicalBlocks'[t] = pageTables'[t]
      <3>1. CASE t = s
        BY <1>1, <1>3, <3>1 DEF CoreInv, CoreType
      <3>2. CASE t # s
        <4>1. t \in Active /\ t \in SeqIds
          BY <1>6, <3>2, PlacesTyped
        <4>2. logicalBlocks'[t] = logicalBlocks[t]
          BY <1>3, <3>2, <4>1 DEF CoreInv, CoreType
        <4> QED
          BY <1>5, <3>2, <4>1, <4>2 DEF CoreInv, TablesMatchActive
      <3> QED
        BY <3>1, <3>2
    <2>2. Live' = Active'
      BY <1>5, <1>6 DEF CoreInv, TablesMatchActive
    <2> QED
      BY <2>1, <2>2 DEF TablesMatchActive
  <1> QED
    BY <1>3, <1>4, <1>6, <1>7, <1>8, <1>9 DEF CoreInv

LEMMA GrowCore ==
    ASSUME CoreInv, NEW s \in decode, DecodeGrow(s)
    PROVE  CoreInv' /\ logicalBlocks'[s] = pageTables'[s]
  <1>1. s \in SeqIds /\ s \in Active
    BY PlacesTyped DEF Active
  <1>2. /\ AllocateBlock(s)
        /\ logicalBlocks' = [logicalBlocks EXCEPT ![s] = Append(logicalBlocks[s], Head(freeList))]
        /\ UNCHANGED <<request, pending, prefill, decode, generated, completed, reported>>
    BY DEF DecodeGrow
  <1>3. /\ KVInv' /\ Live' = Live
        /\ pageTables'[s] = Append(pageTables[s], Head(freeList))
    BY <1>1, <1>2, AllocateBlockInv DEF CoreInv
  <1>4. logicalBlocks[s] = pageTables[s] /\ s \in Live
    BY <1>1 DEF CoreInv, TablesMatchActive
  <1>5. pageTables' = [pageTables EXCEPT ![s] = Append(pageTables[s], Head(freeList))]
    BY <1>2 DEF AllocateBlock
  <1>6. logicalBlocks'[s] = pageTables'[s] /\ pageTables'[s] \in Seq(Blocks)
    <2>1. logicalBlocks'[s] = Append(logicalBlocks[s], Head(freeList))
      BY <1>1, <1>2 DEF CoreInv, CoreType
    <2>2. pageTables'[s] \in Seq(Blocks)
      BY <1>3, <1>4 DEF KVInv, KVTypeOK
    <2> QED
      BY <1>3, <1>4, <2>1, <2>2
  <1>7. /\ Active' = Active /\ Terminal' = Terminal /\ IdsOf(Terminal') = IdsOf(Terminal)
        /\ Submitted' = Submitted
    BY <1>2 DEF Active, Terminal, IdsOf, Submitted
  <1>8. CoreType'
    <2>1. Append(logicalBlocks[s], Head(freeList)) \in Seq(Blocks)
      BY <1>3, <1>4, <1>6
    <2>2. logicalBlocks' \in [SeqIds -> Seq(Blocks)]
      BY <1>2, <2>1 DEF CoreInv, CoreType
    <2> QED
      BY <1>2, <1>7, <2>2 DEF CoreInv, CoreType
  <1>9. ExactlyOnePlace'
    BY <1>2, <1>7 DEF CoreInv, ExactlyOnePlace
  <1>10. TablesMatchActive'
    <2>1. ASSUME NEW t \in Active, t # s PROVE logicalBlocks'[t] = pageTables'[t]
      <3>1. logicalBlocks'[t] = logicalBlocks[t]
        BY <1>2, <2>1, PlacesTyped DEF CoreInv, CoreType
      <3>2. pageTables'[t] = pageTables[t]
        BY <1>5, <2>1 DEF CoreInv, TablesMatchActive, KVInv, KVTypeOK
      <3> QED
        BY <3>1, <3>2 DEF CoreInv, TablesMatchActive
    <2> QED
      BY <1>3, <1>6, <1>7, <2>1 DEF CoreInv, TablesMatchActive
  <1> QED
    BY <1>3, <1>6, <1>8, <1>9, <1>10 DEF CoreInv

LEMMA UpdateCore ==
    ASSUME CoreInv, NEW output, UpdateSequences(output)
    PROVE  /\ CoreInv'
           /\ Active' = Active /\ pending' = pending
           /\ toComplete' \subseteq Active
           /\ toFail' \subseteq DOMAIN output
           /\ toFail' \cap toComplete' = {}
  <1> DEFINE advanced == {s \in DOMAIN output \cap Active : output[s] # "missing"}
  <1>1. /\ prefill' = prefill \ advanced
        /\ decode' = decode \cup advanced
        /\ generated' = [s \in SeqIds |-> generated[s] + (IF s \in advanced THEN 1 ELSE 0)]
        /\ toComplete' \subseteq advanced
        /\ toFail' = DOMAIN output \ advanced
        /\ UNCHANGED <<kvVars, request, pending, logicalBlocks, completed, reported>>
    BY DEF UpdateSequences
  <1>2. advanced \subseteq Active
    OBVIOUS
  <1> HIDE DEF advanced
  <1>3. /\ Active' = Active /\ Terminal' = Terminal /\ IdsOf(Terminal') = IdsOf(Terminal)
        /\ Submitted' = Submitted /\ Live' = Live /\ KVInv'
    BY <1>1, <1>2 DEF Active, Terminal, IdsOf, Submitted, Live, kvVars, CoreInv, KVInv,
                      KVTypeOK, FreeListExact, OwnedOnce
  <1>4. CoreType'
    <2>1. generated' \in [SeqIds -> Nat]
      BY <1>1 DEF CoreInv, CoreType
    <2> QED
      BY <1>1, <1>3, <2>1 DEF CoreInv, CoreType
  <1>5. ExactlyOnePlace'
    <2>1. prefill' \cap decode' = {}
      BY <1>1 DEF CoreInv, ExactlyOnePlace
    <2> QED
      BY <1>1, <1>3, <2>1 DEF CoreInv, ExactlyOnePlace
  <1>6. TablesMatchActive'
    BY <1>1, <1>3 DEF CoreInv, TablesMatchActive, kvVars
  <1> QED
    BY <1>1, <1>2, <1>3, <1>4, <1>5, <1>6 DEF CoreInv

LEMMA TakeCore ==
    ASSUME CoreInv, TakeCompleted
    PROVE  CoreInv' /\ Active' = Active
  <1>1. /\ reported' = reported \cup completed /\ completed' = {}
        /\ UNCHANGED <<kvVars, request, pending, prefill, decode, logicalBlocks, generated>>
    BY DEF TakeCompleted
  <1>2. Terminal' = Terminal
    BY <1>1 DEF Terminal
  <1>3. /\ Active' = Active /\ IdsOf(Terminal') = IdsOf(Terminal)
        /\ Submitted' = Submitted /\ Live' = Live /\ KVInv'
    BY <1>1, <1>2 DEF Active, IdsOf, Submitted, Live, kvVars, CoreInv, KVInv,
                      KVTypeOK, FreeListExact, OwnedOnce
  <1>4. CoreType'
    BY <1>1, <1>3 DEF CoreInv, CoreType
  <1>5. ExactlyOnePlace'
    BY <1>1, <1>2, <1>3 DEF CoreInv, ExactlyOnePlace
  <1>6. TablesMatchActive'
    BY <1>1, <1>3 DEF CoreInv, TablesMatchActive, kvVars
  <1> QED
    BY <1>3, <1>4, <1>5, <1>6 DEF CoreInv

-----------------------------------------------------------------------------
(* The inductive invariant                                                 *)

\* The batch under construction keeps to its limits.
BatchBounded ==
    /\ batch \subseteq [id : SeqIds, isPrefill : BOOLEAN, blocks : Seq(Blocks),
                        context : Nat]
    /\ IsFiniteSet(batch)
    /\ Cardinality(batch) <= MaxBatchSize
    /\ totalTokens \in 0 .. MaxTotalTokens

\* A loop visits only members of its own collection, so its id has not left
\* the collection since the loop began.
LoopInv ==
    /\ pc \in Phases
    /\ underPressure \in BOOLEAN
    /\ todo \subseteq SeqIds /\ started \subseteq SeqIds
    /\ pc = "decode" => todo \subseteq decode
    /\ pc = "prefill" => todo \subseteq prefill
    /\ pc = "pending" => todo \subseteq pending

\* What update_sequences has still to complete is active, and not among what
\* it has still to fail.
FinishInv ==
    /\ toFail \subseteq SeqIds
    /\ toComplete \subseteq Active
    /\ toFail \cap toComplete = {}
    /\ pc # "finishing" => toComplete = {}

\* What the scan has started was not too large, so a resumed prefill never is.
PrefillFits == \A s \in prefill : ~TooLarge(s)

Inv == CoreInv /\ BatchBounded /\ LoopInv /\ FinishInv /\ PrefillFits

LifecycleStep == Lifecycle!Next \/ UNCHANGED Lifecycle!vars

LEMMA InitInv == Init => Inv /\ Lifecycle!Init
  <1> SUFFICES ASSUME Init PROVE Inv /\ Lifecycle!Init
    OBVIOUS
  <1>1. /\ KVInit /\ request = <<>> /\ pending = {} /\ prefill = {} /\ decode = {}
        /\ logicalBlocks = [s \in SeqIds |-> <<>>] /\ generated = [s \in SeqIds |-> 0]
        /\ completed = {} /\ reported = {} /\ underPressure = FALSE
        /\ pc = "idle" /\ todo = {} /\ batch = {} /\ totalTokens = 0 /\ started = {}
        /\ toFail = {} /\ toComplete = {}
    BY DEF Init
  <1>2. KVInv /\ Live = {}
    BY <1>1, KVInitInv DEF KVInit, Live
  <1>3. Active = {} /\ Terminal = {} /\ IdsOf(Terminal) = {} /\ Submitted = {}
    BY <1>1 DEF Active, Terminal, IdsOf, Submitted
  <1>4. CoreType
    <2>1. <<>> \in Seq(Requests) /\ <<>> \in Seq(Blocks)
      BY EmptySeq
    <2> QED
      BY <1>1, <1>3, <2>1 DEF CoreType
  <1>5. ExactlyOnePlace /\ TablesMatchActive
    BY <1>1, <1>2, <1>3 DEF ExactlyOnePlace, TablesMatchActive
  <1>6. BatchBounded
    BY <1>1, FS_EmptySet, SchedulerAssumption DEF BatchBounded
  <1>7. LoopInv /\ FinishInv /\ PrefillFits
    BY <1>1 DEF LoopInv, Phases, FinishInv, PrefillFits
  <1>8. Lifecycle!Init
    BY <1>1, <1>3 DEF Lifecycle!Init
  <1> QED
    BY <1>2, <1>4, <1>5, <1>6, <1>7, <1>8 DEF Inv, CoreInv

-----------------------------------------------------------------------------
(* What the actions have in common                                         *)

LEMMA JoinBounded ==
    ASSUME BatchBounded, CoreInv, NEW s \in Submitted, s \in SeqIds, NEW blocks \in Seq(Blocks),
           NEW tokens \in Nat, HasRoom, FitsTokens(tokens), Join(s, blocks, tokens)
    PROVE  BatchBounded'
  <1> DEFINE entry == Snapshot(s, blocks)
  <1>1. batch' = batch \cup {entry} /\ totalTokens' = totalTokens + tokens
    BY DEF Join
  <1>2. ContextLen(s) \in Nat
    BY RequestTyped DEF ContextLen, CoreInv, CoreType
  <1>3. entry \in [id : SeqIds, isPrefill : BOOLEAN, blocks : Seq(Blocks), context : Nat]
    BY <1>2 DEF Snapshot
  <1> HIDE DEF entry
  <1>4. IsFiniteSet(batch') /\ Cardinality(batch') <= MaxBatchSize
    <2>1. /\ IsFiniteSet(batch \cup {entry})
          /\ Cardinality(batch \cup {entry}) = IF entry \in batch THEN Cardinality(batch)
                                               ELSE Cardinality(batch) + 1
      BY FS_AddElement DEF BatchBounded
    <2>2. Cardinality(batch) \in Nat /\ MaxBatchSize \in Nat
      BY FS_CardinalityType, SchedulerAssumption DEF BatchBounded
    <2> QED
      BY <1>1, <2>1, <2>2 DEF HasRoom
  <1>5. totalTokens' \in 0 .. MaxTotalTokens
    BY <1>1, SchedulerAssumption DEF BatchBounded, FitsTokens
  <1> QED
    BY <1>1, <1>3, <1>4, <1>5 DEF BatchBounded

LEMMA BatchStays ==
    ASSUME BatchBounded, UNCHANGED <<batch, totalTokens>>
    PROVE  BatchBounded'
  BY DEF BatchBounded

LEMMA FitsStays ==
    ASSUME PrefillFits, prefill' \subseteq prefill, request' = request
    PROVE  PrefillFits'
  BY DEF PrefillFits, TooLarge, Prompt

LEMMA UnchangedRequests ==
    ASSUME CoreInv, PrefillFits, UNCHANGED <<kvVars, requestVars>>
    PROVE  CoreInv' /\ PrefillFits' /\ UNCHANGED Lifecycle!vars
  <1>1. UNCHANGED coreVars
    BY DEF requestVars, coreVars
  <1>2. CoreInv'
    BY <1>1, UnchangedCore
  <1>3. PrefillFits'
    BY FitsStays DEF requestVars
  <1>4. UNCHANGED Lifecycle!vars
    BY DEF requestVars, Lifecycle!vars, Active
  <1> QED
    BY <1>2, <1>3, <1>4

\* An active sequence that ends.
LEMMA RetireStep ==
    ASSUME CoreInv, PrefillFits, NEW s \in Active, NEW outcome \in Lifecycle!RunningOutcomes,
           Retire(s, outcome)
    PROVE  /\ CoreInv' /\ PrefillFits' /\ Lifecycle!Next
           /\ Active' = Active \ {s} /\ pending' = pending
           /\ prefill' = prefill \ {s} /\ decode' = decode \ {s}
           /\ underPressure' = underPressure
  <1>1. outcome \in Outcomes
    BY DEF Outcomes, Lifecycle!RunningOutcomes
  <1>2. /\ CoreInv' /\ Active' = Active \ {s} /\ pending' = pending
        /\ prefill' = prefill \ {s} /\ decode' = decode \ {s}
    BY <1>1, RetireCore
  <1>3. /\ request' = request /\ reported' = reported /\ underPressure' = underPressure
        /\ completed' = completed \cup {[id |-> s, outcome |-> outcome]}
    BY DEF Retire
  <1>4. PrefillFits'
    BY <1>2, <1>3, FitsStays
  <1>5. Lifecycle!FinishRunning(s, outcome)
    BY <1>2, <1>3 DEF Lifecycle!FinishRunning
  <1>6. s \in SeqIds
    BY PlacesTyped
  <1> QED
    BY <1>2, <1>3, <1>4, <1>5, <1>6 DEF Lifecycle!Next

\* Waiting requests that end.
LEMMA DropStep ==
    ASSUME CoreInv, PrefillFits, NEW waiting \in SUBSET pending,
           NEW outcome \in Lifecycle!WaitingOutcomes, Drop(waiting, outcome)
    PROVE  /\ CoreInv' /\ PrefillFits' /\ Lifecycle!Next
           /\ Active' = Active /\ pending' = pending \ waiting
           /\ prefill' = prefill /\ decode' = decode
           /\ underPressure' = underPressure
  <1>1. outcome \in Outcomes
    BY DEF Outcomes, Lifecycle!WaitingOutcomes
  <1>2. CoreInv' /\ pending' = pending \ waiting
    BY <1>1, DropCore
  <1>3. /\ request' = request /\ reported' = reported /\ underPressure' = underPressure
        /\ prefill' = prefill /\ decode' = decode
        /\ completed' = completed \cup {[id |-> w, outcome |-> outcome] : w \in waiting}
    BY DEF Drop
  <1>4. PrefillFits' /\ Active' = Active
    BY <1>3, FitsStays DEF Active
  <1>5. Lifecycle!FinishWaiting(waiting, outcome)
    BY <1>2, <1>3, <1>4 DEF Lifecycle!FinishWaiting
  <1>6. waiting \in SUBSET SeqIds
    BY PlacesTyped
  <1> QED
    BY <1>2, <1>3, <1>4, <1>5, <1>6 DEF Lifecycle!Next

-----------------------------------------------------------------------------
(* Every action keeps the invariant and is a step of the life cycle        *)

LEMMA AddRequestStep ==
    ASSUME Inv, NEW r \in Requests, AddRequest(r)
    PROVE  Inv' /\ LifecycleStep
  <1> DEFINE s == Len(request) + 1
  <1>1. /\ pc = "idle" /\ s \in SeqIds
        /\ request' = Append(request, r) /\ pending' = pending \cup {s}
        /\ underPressure' = FALSE
        /\ UNCHANGED <<prefill, decode, completed, reported, pc, todo, batch, totalTokens,
                       started, toFail, toComplete>>
    BY DEF AddRequest, passVars, updateVars
  <1>2. CoreInv'
    BY AddCore DEF Inv
  <1>3. BatchBounded' /\ LoopInv' /\ FinishInv'
    <2>1. Active' = Active
      BY <1>1 DEF Active
    <2> HIDE DEF s
    <2> QED
      BY <1>1, <2>1, BatchStays DEF Inv, LoopInv, FinishInv
  <1>4. /\ request \in Seq(Requests) /\ Len(request) \in Nat
        /\ Submitted = 1 .. Len(request)
    BY LenProperties DEF Inv, CoreInv, CoreType, Submitted
  <1>5. PrefillFits'
    <2> SUFFICES ASSUME NEW t \in prefill' PROVE ~TooLarge(t)'
      BY DEF PrefillFits
    <2>1. t \in prefill /\ t \in Submitted
      BY <1>1 DEF Inv, CoreInv, ExactlyOnePlace, Active
    <2>2. request'[t] = request[t]
      BY <1>1, <1>4, <2>1, AppendProperties
    <2> QED
      BY <2>1, <2>2 DEF Inv, PrefillFits, TooLarge, Prompt
  <1>6. Lifecycle!Submit(s)
    <2>1. Lifecycle!Known = Submitted
      BY DEF Lifecycle!Known, Inv, CoreInv, ExactlyOnePlace, Terminal, IdsOf
    <2>2. s \notin Submitted
      BY <1>4
    <2>3. Active' = Active
      BY <1>1 DEF Active
    <2> QED
      BY <1>1, <2>1, <2>2, <2>3 DEF Lifecycle!Submit
  <1> QED
    BY <1>1, <1>2, <1>3, <1>5, <1>6 DEF Inv, LifecycleStep, Lifecycle!Next

LEMMA BeginScheduleStep ==
    ASSUME Inv, BeginSchedule
    PROVE  Inv' /\ LifecycleStep
  <1>1. /\ pc = "idle" /\ pc' = "decode" /\ todo' = decode /\ batch' = {} /\ totalTokens' = 0
        /\ underPressure' = HighUtilization /\ started' = started
        /\ UNCHANGED <<kvVars, request, pending, prefill, decode, logicalBlocks, generated,
                       completed, reported, toFail, toComplete>>
    BY DEF BeginSchedule, updateVars
  <1>2. CoreInv' /\ PrefillFits' /\ UNCHANGED Lifecycle!vars
    <2>1. UNCHANGED coreVars
      BY <1>1 DEF coreVars
    <2>2. UNCHANGED Lifecycle!vars
      BY <1>1 DEF Lifecycle!vars, Active
    <2> QED
      BY <1>1, <2>1, <2>2, UnchangedCore, FitsStays DEF Inv
  <1>3. BatchBounded'
    BY <1>1, FS_EmptySet, SchedulerAssumption DEF BatchBounded
  <1>4. LoopInv'
    BY <1>1, PlacesTyped DEF Inv, LoopInv, Phases, HighUtilization
  <1>5. FinishInv'
    BY <1>1 DEF Inv, FinishInv, Active
  <1> QED
    BY <1>2, <1>3, <1>4, <1>5 DEF Inv, LifecycleStep

\* What every iteration of the decode loop has in common.
LEMMA DecodeAtFacts ==
    ASSUME Inv, NEW s \in SeqIds, DecodeAt(s)
    PROVE  /\ pc = "decode" /\ pc' = pc
           /\ s \in decode /\ s \in Active /\ s \in Submitted
           /\ todo' = todo \ {s} /\ todo \subseteq decode
           /\ HasRoom /\ FitsTokens(1)
           /\ UNCHANGED <<started, toFail, toComplete>>
           /\ toComplete = {}
  BY DEF DecodeAt, First, Inv, LoopInv, FinishInv, Active, updateVars, CoreInv, ExactlyOnePlace

LEMMA DecodeInPlaceStep ==
    ASSUME Inv, NEW s \in SeqIds, DecodeInPlace(s)
    PROVE  Inv' /\ LifecycleStep
  <1>1. DecodeAt(s) /\ Join(s, logicalBlocks[s], 1) /\ UNCHANGED <<kvVars, requestVars>>
    BY DEF DecodeInPlace
  <1>2. CoreInv' /\ PrefillFits' /\ UNCHANGED Lifecycle!vars
    BY <1>1, UnchangedRequests DEF Inv
  <1>3. BatchBounded'
    <2>1. logicalBlocks[s] \in Seq(Blocks)
      BY DEF Inv, CoreInv, CoreType
    <2> QED
      BY <1>1, <2>1, DecodeAtFacts, JoinBounded DEF Inv
  <1>4. LoopInv' /\ FinishInv'
    BY <1>1, DecodeAtFacts DEF Inv, LoopInv, FinishInv, requestVars, Active
  <1> QED
    BY <1>2, <1>3, <1>4 DEF Inv, LifecycleStep

LEMMA DecodeGrowStep ==
    ASSUME Inv, NEW s \in SeqIds, DecodeGrow(s)
    PROVE  Inv' /\ LifecycleStep
  <1>1. /\ DecodeAt(s) /\ Join(s, logicalBlocks'[s], 1)
        /\ UNCHANGED <<request, pending, prefill, decode, generated, completed, reported,
                       underPressure>>
    BY DEF DecodeGrow
  <1>2. CoreInv' /\ logicalBlocks'[s] \in Seq(Blocks)
    BY <1>1, DecodeAtFacts, GrowCore DEF Inv, CoreInv, CoreType
  <1>3. PrefillFits' /\ UNCHANGED Lifecycle!vars
    BY <1>1, FitsStays DEF Inv, Lifecycle!vars, Active
  <1>4. BatchBounded'
    BY <1>1, <1>2, DecodeAtFacts, JoinBounded DEF Inv
  <1>5. LoopInv' /\ FinishInv'
    BY <1>1, DecodeAtFacts DEF Inv, LoopInv, FinishInv, Active
  <1> QED
    BY <1>2, <1>3, <1>4, <1>5 DEF Inv, LifecycleStep

LEMMA DecodeOutOfBlocksStep ==
    ASSUME Inv, NEW s \in SeqIds, DecodeOutOfBlocks(s)
    PROVE  Inv' /\ LifecycleStep
  <1>1. DecodeAt(s) /\ Retire(s, "outOfBlocks") /\ UNCHANGED <<batch, totalTokens>>
    BY DEF DecodeOutOfBlocks
  <1>2. "outOfBlocks" \in Lifecycle!RunningOutcomes
    BY DEF Lifecycle!RunningOutcomes
  <1>3. /\ CoreInv' /\ PrefillFits' /\ Lifecycle!Next
        /\ Active' = Active \ {s} /\ decode' = decode \ {s} /\ underPressure' = underPressure
    BY <1>1, <1>2, DecodeAtFacts, RetireStep DEF Inv
  <1>4. BatchBounded'
    BY <1>1, BatchStays DEF Inv
  <1>5. LoopInv' /\ FinishInv'
    BY <1>1, <1>3, DecodeAtFacts DEF Inv, LoopInv, FinishInv
  <1> QED
    BY <1>3, <1>4, <1>5 DEF Inv, LifecycleStep

\* The steps from one loop to the next change only the pass.
LEMMA EndLoopStep ==
    ASSUME Inv, EndDecode \/ EndPrefill \/ EndSchedule \/ EndUpdate
    PROVE  Inv' /\ LifecycleStep
  <1>1. UNCHANGED <<kvVars, requestVars, batch, totalTokens, toFail, toComplete>>
    BY DEF EndDecode, EndPrefill, EndSchedule, EndUpdate, updateVars
  <1>2. CoreInv' /\ PrefillFits' /\ UNCHANGED Lifecycle!vars /\ BatchBounded'
    BY <1>1, UnchangedRequests, BatchStays DEF Inv
  <1>3. UNCHANGED <<pending, prefill, decode, underPressure>>
    BY <1>1 DEF requestVars
  <1>4. LoopInv'
    <2>1. CASE EndDecode
      BY <1>3, <2>1, PlacesTyped DEF EndDecode, Inv, LoopInv, Phases
    <2>2. CASE EndPrefill
      BY <1>3, <2>2, PlacesTyped DEF EndPrefill, Inv, LoopInv, Phases
    <2>3. CASE EndSchedule
      BY <1>3, <2>3 DEF EndSchedule, Inv, LoopInv, Phases
    <2>4. CASE EndUpdate
      BY <1>3, <2>4 DEF EndUpdate, Inv, LoopInv, Phases
    <2> QED
      BY <2>1, <2>2, <2>3, <2>4
  <1>5. FinishInv'
    <2>1. toComplete = {}
      BY DEF EndDecode, EndPrefill, EndSchedule, EndUpdate, Inv, FinishInv
    <2> QED
      BY <1>1, <2>1 DEF Inv, FinishInv
  <1> QED
    BY <1>2, <1>4, <1>5 DEF Inv, LifecycleStep

\* A prefill that waits is never found too large, so it never ends here.
LEMMA ResumePrefillStep ==
    ASSUME Inv, NEW s \in SeqIds, ResumePrefill(s)
    PROVE  Inv' /\ LifecycleStep
  <1>1. /\ pc = "prefill" /\ pc' = pc /\ s \in prefill /\ s \in Submitted
        /\ todo' = todo \ {s} /\ HasRoom /\ toComplete = {}
        /\ UNCHANGED <<started, toFail, toComplete>>
    BY DEF ResumePrefill, First, Inv, LoopInv, FinishInv, updateVars, Active, CoreInv,
           ExactlyOnePlace
  <1>2. ~TooLarge(s)
    BY <1>1 DEF Inv, PrefillFits
  <1>3. UNCHANGED <<kvVars, requestVars>>
    BY <1>2 DEF ResumePrefill
  <1>4. CoreInv' /\ PrefillFits' /\ UNCHANGED Lifecycle!vars
    BY <1>3, UnchangedRequests DEF Inv
  <1>5. BatchBounded'
    <2>1. CASE FitsTokens(Prompt(s))
      <3>1. Join(s, logicalBlocks[s], Prompt(s))
        BY <1>2, <2>1 DEF ResumePrefill
      <3>2. logicalBlocks[s] \in Seq(Blocks) /\ Prompt(s) \in Nat
        BY <1>1, RequestTyped DEF Inv, CoreInv, CoreType
      <3> QED
        BY <1>1, <2>1, <3>1, <3>2, JoinBounded DEF Inv
    <2>2. CASE ~FitsTokens(Prompt(s))
      BY <1>2, <2>2, BatchStays DEF ResumePrefill, Inv
    <2> QED
      BY <2>1, <2>2
  <1>6. LoopInv' /\ FinishInv'
    BY <1>1, <1>3 DEF Inv, LoopInv, FinishInv, requestVars, Active
  <1> QED
    BY <1>4, <1>5, <1>6 DEF Inv, LifecycleStep

\* What every iteration of the scan of the waiting requests has in common.
LEMMA PendingAtFacts ==
    ASSUME Inv, NEW s \in SeqIds, PendingAt(s)
    PROVE  /\ pc = "pending" /\ pc' = pc
           /\ s \in pending /\ s \in Submitted
           /\ todo' = todo \ {s} /\ todo \subseteq pending
           /\ UNCHANGED <<toFail, toComplete>>
           /\ toComplete = {}
  BY DEF PendingAt, First, Inv, LoopInv, FinishInv, updateVars, CoreInv, ExactlyOnePlace

LEMMA DeferPendingStep ==
    ASSUME Inv, NEW s \in SeqIds, DeferPending(s)
    PROVE  Inv' /\ LifecycleStep
  <1>1. PendingAt(s) /\ UNCHANGED <<kvVars, requestVars, batch, totalTokens, started>>
    BY DEF DeferPending
  <1>2. CoreInv' /\ PrefillFits' /\ UNCHANGED Lifecycle!vars /\ BatchBounded'
    BY <1>1, UnchangedRequests, BatchStays DEF Inv
  <1>3. LoopInv' /\ FinishInv'
    BY <1>1, PendingAtFacts DEF Inv, LoopInv, FinishInv, requestVars, Active
  <1> QED
    BY <1>2, <1>3 DEF Inv, LifecycleStep

LEMMA RejectPendingStep ==
    ASSUME Inv, NEW s \in SeqIds, RejectPending(s)
    PROVE  Inv' /\ LifecycleStep
  <1>1. PendingAt(s) /\ Drop({s}, "rejected") /\ UNCHANGED <<batch, totalTokens, started>>
    BY DEF RejectPending
  <1>2. "rejected" \in Lifecycle!WaitingOutcomes /\ {s} \in SUBSET pending
    BY <1>1, PendingAtFacts DEF Lifecycle!WaitingOutcomes
  <1>3. /\ CoreInv' /\ PrefillFits' /\ Lifecycle!Next
        /\ Active' = Active /\ pending' = pending \ {s} /\ underPressure' = underPressure
    BY <1>1, <1>2, DropStep DEF Inv
  <1>4. BatchBounded'
    BY <1>1, BatchStays DEF Inv
  <1>5. LoopInv' /\ FinishInv'
    BY <1>1, <1>3, PendingAtFacts DEF Inv, LoopInv, FinishInv
  <1> QED
    BY <1>3, <1>4, <1>5 DEF Inv, LifecycleStep

LEMMA StartPrefillStep ==
    ASSUME Inv, NEW s \in SeqIds, StartPrefill(s)
    PROVE  Inv' /\ LifecycleStep
  <1>1. /\ PendingAt(s) /\ HasRoom /\ ~TooLarge(s) /\ FitsTokens(Prompt(s))
        /\ started' = started \cup {s} /\ prefill' = prefill \cup {s}
        /\ Join(s, pageTables'[s], Prompt(s))
        /\ UNCHANGED <<request, decode, completed, reported, underPressure>>
    BY DEF StartPrefill
  <1>2. /\ CoreInv' /\ pending' = pending \ {s} /\ Active' = Active \cup {s}
        /\ pageTables'[s] \in Seq(Blocks)
    BY <1>1, PendingAtFacts, StartCore DEF Inv
  <1>3. PrefillFits'
    BY <1>1 DEF Inv, PrefillFits, TooLarge, Prompt
  <1>4. BatchBounded'
    <2>1. Prompt(s) \in Nat
      BY <1>1, PendingAtFacts, RequestTyped DEF Inv
    <2> QED
      BY <1>1, <1>2, <2>1, PendingAtFacts, JoinBounded DEF Inv
  <1>5. LoopInv' /\ FinishInv'
    BY <1>1, <1>2, PendingAtFacts DEF Inv, LoopInv, FinishInv
  <1>6. Lifecycle!Start(s)
    BY <1>1, <1>2, PendingAtFacts DEF Lifecycle!Start
  <1> QED
    BY <1>2, <1>3, <1>4, <1>5, <1>6 DEF Inv, LifecycleStep, Lifecycle!Next

LEMMA UpdateSequencesStep ==
    ASSUME Inv, NEW output \in Outputs, UpdateSequences(output)
    PROVE  Inv' /\ LifecycleStep
  <1>1. /\ pc = "executing" /\ pc' = "finishing"
        /\ prefill' \subseteq prefill
        /\ UNCHANGED <<request, pending, completed, reported, underPressure, todo, batch,
                       totalTokens, started>>
    BY DEF UpdateSequences
  <1>2. DOMAIN output \subseteq SeqIds
    <2>1. InBatch \subseteq SeqIds
      BY DEF InBatch, Inv, BatchBounded
    <2> QED
      BY <2>1 DEF Outputs
  <1>3. /\ CoreInv' /\ Active' = Active
        /\ toComplete' \subseteq Active /\ toFail' \subseteq SeqIds
        /\ toFail' \cap toComplete' = {}
    BY <1>2, UpdateCore DEF Inv
  <1>4. PrefillFits' /\ BatchBounded'
    BY <1>1, FitsStays, BatchStays DEF Inv
  <1>5. LoopInv' /\ FinishInv'
    BY <1>1, <1>3 DEF Inv, LoopInv, FinishInv, Phases
  <1>6. UNCHANGED Lifecycle!vars
    BY <1>1, <1>3 DEF Lifecycle!vars
  <1> QED
    BY <1>3, <1>4, <1>5, <1>6 DEF Inv, LifecycleStep

LEMMA ExecutionErrorStep ==
    ASSUME Inv, ExecutionError
    PROVE  Inv' /\ LifecycleStep
  <1>1. /\ pc = "executing" /\ pc' = "finishing" /\ toFail' = InBatch
        /\ UNCHANGED <<kvVars, requestVars, todo, batch, totalTokens, started, toComplete>>
    BY DEF ExecutionError
  <1>2. CoreInv' /\ PrefillFits' /\ UNCHANGED Lifecycle!vars /\ BatchBounded'
    BY <1>1, UnchangedRequests, BatchStays DEF Inv
  <1>3. InBatch \subseteq SeqIds /\ toComplete = {}
    BY <1>1 DEF InBatch, Inv, BatchBounded, FinishInv
  <1>4. LoopInv' /\ FinishInv'
    BY <1>1, <1>3 DEF Inv, LoopInv, FinishInv, Phases, requestVars, Active
  <1> QED
    BY <1>2, <1>4 DEF Inv, LifecycleStep

\* Ending a sequence wherever it is, outside the loops over the collections.
LEMMA FailSequenceStep ==
    ASSUME CoreInv, PrefillFits, NEW s \in SeqIds,
           NEW outcome \in Lifecycle!RunningOutcomes \cap Lifecycle!WaitingOutcomes,
           FailSequence(s, outcome)
    PROVE  /\ CoreInv' /\ PrefillFits' /\ LifecycleStep
           /\ Active' = Active \ {s} /\ underPressure' = underPressure
  <1>1. CASE s \in Active /\ Retire(s, outcome)
    BY <1>1, RetireStep DEF LifecycleStep
  <1>2. CASE s \in pending /\ Drop({s}, outcome)
    <2>1. /\ CoreInv' /\ PrefillFits' /\ Lifecycle!Next
          /\ Active' = Active /\ underPressure' = underPressure
      BY <1>2, DropStep
    <2>2. s \notin Active
      BY <1>2 DEF CoreInv, ExactlyOnePlace
    <2> QED
      BY <2>1, <2>2 DEF LifecycleStep
  <1>3. CASE s \notin Active \cup pending /\ UNCHANGED <<kvVars, requestVars>>
    <2>1. CoreInv' /\ PrefillFits' /\ UNCHANGED Lifecycle!vars
      BY <1>3, UnchangedRequests
    <2> QED
      BY <1>3, <2>1 DEF LifecycleStep, requestVars, Active
  <1> QED
    BY <1>1, <1>2, <1>3 DEF FailSequence

LEMMA FailNextStep ==
    ASSUME Inv, NEW s \in SeqIds, FailNext(s)
    PROVE  Inv' /\ LifecycleStep
  <1>1. /\ pc = "finishing" /\ s \in toFail /\ toFail' = toFail \ {s}
        /\ FailSequence(s, "execution")
        /\ UNCHANGED <<pc, todo, batch, totalTokens, started, toComplete>>
    BY DEF FailNext, passVars
  <1>2. "execution" \in Lifecycle!RunningOutcomes \cap Lifecycle!WaitingOutcomes
    BY DEF Lifecycle!RunningOutcomes, Lifecycle!WaitingOutcomes
  <1>3. /\ CoreInv' /\ PrefillFits' /\ LifecycleStep
        /\ Active' = Active \ {s} /\ underPressure' = underPressure
    BY <1>1, <1>2, FailSequenceStep DEF Inv
  <1>4. BatchBounded' /\ LoopInv'
    BY <1>1, <1>3, BatchStays DEF Inv, LoopInv
  <1>5. FinishInv'
    BY <1>1, <1>3 DEF Inv, FinishInv
  <1> QED
    BY <1>3, <1>4, <1>5 DEF Inv

LEMMA CompleteNextStep ==
    ASSUME Inv, NEW s \in SeqIds, CompleteNext(s)
    PROVE  Inv' /\ LifecycleStep
  <1>1. /\ pc = "finishing" /\ s \in Active /\ toComplete' = toComplete \ {s}
        /\ Retire(s, "completed")
        /\ UNCHANGED <<pc, todo, batch, totalTokens, started, toFail>>
    BY DEF CompleteNext, passVars, Inv, FinishInv
  <1>2. "completed" \in Lifecycle!RunningOutcomes
    BY DEF Lifecycle!RunningOutcomes
  <1>3. /\ CoreInv' /\ PrefillFits' /\ Lifecycle!Next
        /\ Active' = Active \ {s} /\ underPressure' = underPressure
    BY <1>1, <1>2, RetireStep DEF Inv
  <1>4. BatchBounded' /\ LoopInv'
    BY <1>1, <1>3, BatchStays DEF Inv, LoopInv
  <1>5. FinishInv'
    BY <1>1, <1>3 DEF Inv, FinishInv
  <1> QED
    BY <1>3, <1>4, <1>5 DEF Inv, LifecycleStep

\* Between passes and after an update a call may end any request.
LEMMA CallKeepsPass ==
    ASSUME Inv, pc \in {"idle", "collecting"}, UNCHANGED <<passVars, updateVars>>,
           CoreInv', PrefillFits', underPressure' = underPressure
    PROVE  Inv'
  <1>1. UNCHANGED <<pc, todo, batch, totalTokens, started, toFail, toComplete>>
    BY DEF passVars, updateVars
  <1>2. BatchBounded' /\ LoopInv' /\ FinishInv'
    BY <1>1, BatchStays DEF Inv, LoopInv, FinishInv
  <1> QED
    BY <1>2 DEF Inv

LEMMA CompleteByStopSequenceStep ==
    ASSUME Inv, NEW s \in SeqIds, CompleteByStopSequence(s)
    PROVE  Inv' /\ LifecycleStep
  <1>1. /\ pc = "collecting" /\ s \in Active /\ Retire(s, "stopped")
        /\ UNCHANGED <<passVars, updateVars>>
    BY DEF CompleteByStopSequence
  <1>2. "stopped" \in Lifecycle!RunningOutcomes
    BY DEF Lifecycle!RunningOutcomes
  <1>3. CoreInv' /\ PrefillFits' /\ Lifecycle!Next /\ underPressure' = underPressure
    BY <1>1, <1>2, RetireStep DEF Inv
  <1> QED
    BY <1>1, <1>3, CallKeepsPass DEF LifecycleStep

LEMMA FailByRequestIdStep ==
    ASSUME Inv, NEW s \in SeqIds, FailByRequestId(s)
    PROVE  Inv' /\ LifecycleStep
  <1>1. UNCHANGED <<passVars, updateVars>> /\ pc \in {"idle", "collecting"}
    BY DEF FailByRequestId
  <1>2. CASE FailSequence(s, "cancelled")
    <2>1. "cancelled" \in Lifecycle!RunningOutcomes \cap Lifecycle!WaitingOutcomes
      BY DEF Lifecycle!RunningOutcomes, Lifecycle!WaitingOutcomes
    <2>2. CoreInv' /\ PrefillFits' /\ LifecycleStep /\ underPressure' = underPressure
      BY <1>2, <2>1, FailSequenceStep DEF Inv
    <2> QED
      BY <1>1, <2>2, CallKeepsPass
  <1>3. CASE s \in Active /\ Retire(s, "undecodable")
    <2>1. "undecodable" \in Lifecycle!RunningOutcomes
      BY DEF Lifecycle!RunningOutcomes
    <2>2. CoreInv' /\ PrefillFits' /\ Lifecycle!Next /\ underPressure' = underPressure
      BY <1>3, <2>1, RetireStep DEF Inv
    <2> QED
      BY <1>1, <2>2, CallKeepsPass DEF LifecycleStep
  <1> QED
    BY <1>2, <1>3 DEF FailByRequestId

LEMMA FailPendingRequestsStep ==
    ASSUME Inv, FailPendingRequests
    PROVE  Inv' /\ LifecycleStep
  <1>1. pc = "idle" /\ Drop(pending, "stalled") /\ UNCHANGED <<passVars, updateVars>>
    BY DEF FailPendingRequests
  <1>2. "stalled" \in Lifecycle!WaitingOutcomes
    BY DEF Lifecycle!WaitingOutcomes
  <1>3. CoreInv' /\ PrefillFits' /\ Lifecycle!Next /\ underPressure' = underPressure
    BY <1>1, <1>2, DropStep DEF Inv
  <1> QED
    BY <1>1, <1>3, CallKeepsPass DEF LifecycleStep

LEMMA TakeCompletedStep ==
    ASSUME Inv, TakeCompleted
    PROVE  Inv' /\ LifecycleStep
  <1>1. /\ pc = "collecting" /\ pc' = "idle"
        /\ reported' = reported \cup completed /\ completed' = {} /\ batch' = {}
        /\ UNCHANGED <<request, pending, prefill, underPressure, todo, totalTokens, started,
                       toFail, toComplete>>
    BY DEF TakeCompleted, updateVars
  <1>2. CoreInv' /\ Active' = Active
    BY TakeCore DEF Inv
  <1>3. PrefillFits'
    BY <1>1, FitsStays DEF Inv
  <1>4. BatchBounded'
    BY <1>1, FS_EmptySet, SchedulerAssumption DEF Inv, BatchBounded
  <1>5. LoopInv' /\ FinishInv'
    BY <1>1, <1>2 DEF Inv, LoopInv, FinishInv, Phases
  <1>6. Lifecycle!Report
    BY <1>1, <1>2 DEF Lifecycle!Report
  <1> QED
    BY <1>2, <1>3, <1>4, <1>5, <1>6 DEF Inv, LifecycleStep, Lifecycle!Next

LEMMA StutterStep ==
    ASSUME Inv, UNCHANGED vars
    PROVE  Inv' /\ LifecycleStep
  <1>1. /\ UNCHANGED <<kvVars, requestVars>>
        /\ UNCHANGED <<pc, todo, batch, totalTokens, started, toFail, toComplete>>
    BY DEF vars, passVars, updateVars
  <1>2. CoreInv' /\ PrefillFits' /\ UNCHANGED Lifecycle!vars
    BY <1>1, UnchangedRequests DEF Inv
  <1>3. BatchBounded' /\ LoopInv' /\ FinishInv'
    BY <1>1, BatchStays DEF Inv, LoopInv, FinishInv, requestVars, Active
  <1> QED
    BY <1>2, <1>3 DEF Inv, LifecycleStep

LEMMA NextStep == Inv /\ [Next]_vars => Inv' /\ LifecycleStep
  <1> SUFFICES ASSUME Inv, [Next]_vars PROVE Inv' /\ LifecycleStep
    OBVIOUS
  <1>1. CASE Schedule
    BY <1>1, BeginScheduleStep, DecodeInPlaceStep, DecodeGrowStep, DecodeOutOfBlocksStep,
       ResumePrefillStep, DeferPendingStep, RejectPendingStep, StartPrefillStep, EndLoopStep
       DEF Schedule
  <1>2. CASE Update
    BY <1>2, UpdateSequencesStep, ExecutionErrorStep, FailNextStep, CompleteNextStep,
       EndLoopStep DEF Update
  <1>3. CASE TakeCompleted
    BY <1>3, TakeCompletedStep
  <1>4. CASE Call
    BY <1>4, AddRequestStep, CompleteByStopSequenceStep, FailByRequestIdStep,
       FailPendingRequestsStep DEF Call
  <1>5. CASE UNCHANGED vars
    BY <1>5, StutterStep
  <1> QED
    BY <1>1, <1>2, <1>3, <1>4, <1>5 DEF Next, Step

-----------------------------------------------------------------------------
(* The theorems                                                            *)

LEMMA SpecInv == Spec => []Inv
  <1>1. Init => Inv
    BY InitInv
  <1>2. Inv /\ [Next]_vars => Inv'
    BY NextStep
  <1> QED
    BY <1>1, <1>2, PTL DEF Spec

LEMMA InvTypeOK == Inv => TypeOK
  <1> SUFFICES ASSUME Inv PROVE TypeOK
    OBVIOUS
  <1>1. pending \subseteq SeqIds /\ prefill \subseteq SeqIds /\ decode \subseteq SeqIds
    BY PlacesTyped DEF Inv
  <1>2. toComplete \subseteq SeqIds
    BY <1>1 DEF Inv, FinishInv, Active
  <1> QED
    BY <1>1, <1>2 DEF TypeOK, Inv, CoreInv, CoreType, KVInv, BatchBounded, LoopInv, FinishInv

\* The scheduler's state has its type, and no batch of src/scheduler.rs ever
\* exceeds max_batch_size sequences or max_total_tokens tokens, whatever the
\* configuration, the requests and the outputs of the executor.
THEOREM SchedulerTypeCorrect == Spec => []TypeOK
  BY SpecInv, InvTypeOK, PTL

\* No request is lost, scheduled from two collections or finished twice, at
\* any point of a pass: not by a cancel, a stop sequence, a failed execution,
\* or an output with missing, unknown or waiting ids.
THEOREM RequestsInOnePlace == Spec => []ExactlyOnePlace
  <1>1. Inv => ExactlyOnePlace
    BY DEF Inv, CoreInv
  <1> QED
    BY <1>1, SpecInv, PTL

\* Exactly the active sequences hold blocks, so every way out of the scheduler
\* gives them back, and the block list of a sequence is its page table.
THEOREM TablesFollowRequests == Spec => []TablesMatchActive
  <1>1. Inv => TablesMatchActive
    BY DEF Inv, CoreInv
  <1> QED
    BY <1>1, SpecInv, PTL

\* The scheduler implements the life cycle of a request: once started it is
\* never put back, and it ends once, with an outcome that reaches the engine.
THEOREM SchedulerImplementsLifecycle == Spec => LifecycleSpec
  <1>1. Init => Lifecycle!Init
    BY InitInv
  <1>2. Inv /\ [Next]_vars => [Lifecycle!Next]_Lifecycle!vars
    BY NextStep DEF LifecycleStep
  <1> QED
    BY <1>1, <1>2, SpecInv, PTL DEF Spec, LifecycleSpec, Lifecycle!Spec

-----------------------------------------------------------------------------
(* The batches                                                             *)

Snapshots == [id : SeqIds, isPrefill : BOOLEAN, blocks : Seq(Blocks), context : Nat]

\* Only a decoding sequence has generated, and its blocks reach up to the
\* latest token; those of a prefill hold all of its prompt.
SizeInv ==
    /\ \A s \in SeqIds \ decode : generated[s] = 0
    /\ \A s \in prefill : Len(logicalBlocks[s]) >= BlocksForTokens(ContextLen(s))
    /\ \A s \in decode : Len(logicalBlocks[s]) >= BlocksForTokens(ContextLen(s) - 1)

InPass == pc \in {"decode", "prefill", "pending", "executing"}

\* What one snapshot says is still true.
Current(e) ==
    /\ e.id \in Active
    /\ e.isPrefill <=> e.id \in prefill
    /\ e.context = ContextLen(e.id)
    /\ e.blocks = pageTables[e.id]
    /\ Len(e.blocks) >= BlocksForTokens(e.context)

\* The snapshots stay true while the pass goes on, and the loops have still to
\* come to other sequences.
BatchInv ==
    InPass =>
        /\ \A e \in batch : Current(e)
        /\ pc \in {"decode", "prefill"} => InBatch \cap todo = {}
        /\ pc = "decode" => InBatch \subseteq decode

SoundInv == Inv /\ SizeInv /\ BatchInv

-----------------------------------------------------------------------------
(* Facts                                                                   *)

LEMMA QuotientGrows ==
    ASSUME NEW a \in Nat
    PROVE  /\ a \div BlockSize \in Nat
           /\ (a + 1) \div BlockSize \in {a \div BlockSize, a \div BlockSize + 1}
  BY KVAssumption

\* One more token takes at most one more block.
LEMMA OneMoreToken ==
    ASSUME NEW n \in Nat
    PROVE  /\ BlocksForTokens(n) \in Nat
           /\ BlocksForTokens(n + 1) \in {BlocksForTokens(n), BlocksForTokens(n) + 1}
  <1> DEFINE a == n + BlockSize - 1
  <1>1. a \in Nat /\ (n + 1) + BlockSize - 1 = a + 1
    BY KVAssumption
  <1> HIDE DEF a
  <1>2. a \div BlockSize \in Nat /\ (a + 1) \div BlockSize \in {a \div BlockSize, a \div BlockSize + 1}
    BY <1>1, QuotientGrows
  <1>3. BlocksForTokens(n) = a \div BlockSize /\ BlocksForTokens(n + 1) = (a + 1) \div BlockSize
    BY <1>1 DEF BlocksForTokens, a
  <1> QED
    BY <1>2, <1>3

\* What is known of the sizes of an active sequence.
LEMMA ActiveSizes ==
    ASSUME Inv, NEW s \in Active
    PROVE  /\ s \in SeqIds /\ s \in Submitted /\ s \in Live
           /\ generated[s] \in Nat /\ Prompt(s) \in Nat \ {0}
           /\ ContextLen(s) \in Nat \ {0} /\ ContextLen(s) - 1 \in Nat
           /\ logicalBlocks[s] = pageTables[s] /\ logicalBlocks[s] \in Seq(Blocks)
           /\ Len(logicalBlocks[s]) \in Nat
           /\ s \in decode <=> s \notin prefill
  <1>1. s \in SeqIds /\ s \in Submitted /\ s \in Live /\ logicalBlocks[s] = pageTables[s]
    BY PlacesTyped DEF Inv, CoreInv, ExactlyOnePlace, TablesMatchActive
  <1>2. Prompt(s) \in Nat \ {0} /\ generated[s] \in Nat
    BY <1>1, RequestTyped DEF Inv, CoreInv, CoreType
  <1>3. ContextLen(s) \in Nat \ {0} /\ ContextLen(s) - 1 \in Nat
    BY <1>2 DEF ContextLen
  <1>4. logicalBlocks[s] \in Seq(Blocks) /\ Len(logicalBlocks[s]) \in Nat
    BY <1>1, LenProperties DEF Inv, CoreInv, CoreType
  <1>5. s \in decode <=> s \notin prefill
    BY DEF Inv, CoreInv, ExactlyOnePlace, Active
  <1> QED
    BY <1>1, <1>2, <1>3, <1>4, <1>5

\* The snapshot of s, as long as it is current.
LEMMA SnapshotFields ==
    ASSUME NEW s, NEW blocks
    PROVE  /\ Snapshot(s, blocks).id = s
           /\ Snapshot(s, blocks).isPrefill = (s \notin decode)
           /\ Snapshot(s, blocks).blocks = blocks
           /\ Snapshot(s, blocks).context = ContextLen(s)
  BY DEF Snapshot

\* A snapshot is current when it is taken, if the blocks hold the context.
LEMMA CurrentSnapshot ==
    ASSUME Inv, NEW s \in Active, Len(logicalBlocks[s]) >= BlocksForTokens(ContextLen(s)),
           NEW e, e = Snapshot(s, logicalBlocks[s])
    PROVE  Current(e)
  <1>1. /\ e.id = s /\ e.isPrefill = (s \notin decode) /\ e.blocks = logicalBlocks[s]
        /\ e.context = ContextLen(s)
    BY SnapshotFields
  <1>2. e.isPrefill <=> e.id \in prefill
    <2>1. s \in decode <=> s \notin prefill
      BY ActiveSizes
    <2> QED
      BY <1>1, <2>1
  <1>3. logicalBlocks[s] = pageTables[s]
    BY ActiveSizes
  <1> QED
    BY <1>1, <1>2, <1>3 DEF Current

LEMMA InBatchOfJoin ==
    ASSUME NEW s, NEW blocks, NEW tokens, Join(s, blocks, tokens)
    PROVE  /\ InBatch' = InBatch \cup {s}
           /\ batch' = batch \cup {Snapshot(s, blocks)}
  <1> DEFINE entry == Snapshot(s, blocks)
  <1>1. batch' = batch \cup {entry} /\ entry.id = s
    BY SnapshotFields DEF Join
  <1> HIDE DEF entry
  <1>2. InBatch' = InBatch \cup {s}
    BY <1>1 DEF InBatch
  <1> QED
    BY <1>1, <1>2 DEF entry

\* Where nothing is done to its sequence, a snapshot stays current.
LEMMA CurrentStays ==
    ASSUME NEW e, Current(e),
           e.id \in Active', e.id \in prefill <=> e.id \in prefill',
           request'[e.id] = request[e.id], generated'[e.id] = generated[e.id],
           pageTables'[e.id] = pageTables[e.id]
    PROVE  Current(e)'
  BY DEF Current, ContextLen, Prompt

\* So does a size.
LEMMA SizeStays ==
    ASSUME SizeInv, prefill' \subseteq prefill, decode' \subseteq decode,
           \A s \in SeqIds \ decode' : generated'[s] = 0,
           \A s \in Active' : /\ request'[s] = request[s] /\ generated'[s] = generated[s]
                              /\ logicalBlocks'[s] = logicalBlocks[s]
    PROVE  SizeInv'
  BY DEF SizeInv, Active, ContextLen, Prompt

-----------------------------------------------------------------------------
(* The changes to the requests                                             *)

\* What touches neither an active sequence nor its blocks.
LEMMA QuietKeeps ==
    ASSUME SizeInv, UNCHANGED <<kvVars, request, prefill, decode, logicalBlocks, generated>>
    PROVE  SizeInv' /\ \A e : Current(e) => Current(e)'
  BY DEF SizeInv, Current, ContextLen, Prompt, Active, kvVars

\* The active sequence s ends.
LEMMA RetireKeeps ==
    ASSUME Inv, SizeInv, NEW s \in Active, NEW outcome \in Outcomes, Retire(s, outcome)
    PROVE  /\ SizeInv'
           /\ decode' = decode \ {s} /\ prefill' = prefill \ {s}
           /\ \A e : Current(e) /\ e.id # s => Current(e)'
  <1>1. /\ Active' = Active \ {s} /\ prefill' = prefill \ {s} /\ decode' = decode \ {s}
        /\ \A t \in Active' : pageTables'[t] = pageTables[t]
    BY RetireCore DEF Inv
  <1>2. /\ logicalBlocks' = [logicalBlocks EXCEPT ![s] = <<>>]
        /\ generated' = [generated EXCEPT ![s] = 0]
        /\ request' = request
    BY DEF Retire
  <1>3. \A t \in SeqIds : t # s => /\ logicalBlocks'[t] = logicalBlocks[t]
                                   /\ generated'[t] = generated[t]
    BY <1>2 DEF Inv, CoreInv, CoreType
  <1>4. s \in SeqIds /\ generated'[s] = 0
    BY <1>2, PlacesTyped DEF Inv, CoreInv, CoreType
  <1>5. SizeInv'
    <2>1. \A t \in SeqIds \ decode' : generated'[t] = 0
      BY <1>1, <1>3, <1>4 DEF SizeInv
    <2>2. \A t \in Active' : /\ request'[t] = request[t] /\ generated'[t] = generated[t]
                             /\ logicalBlocks'[t] = logicalBlocks[t]
      BY <1>1, <1>2, <1>3, PlacesTyped DEF Inv
    <2> QED
      BY <1>1, <2>1, <2>2, SizeStays
  <1>6. ASSUME NEW e, Current(e), e.id # s PROVE Current(e)'
    <2>1. e.id \in Active /\ e.id \in Active' /\ e.id \in SeqIds
      BY <1>1, <1>6, PlacesTyped DEF Current, Inv
    <2>2. /\ request'[e.id] = request[e.id] /\ generated'[e.id] = generated[e.id]
          /\ pageTables'[e.id] = pageTables[e.id]
          /\ e.id \in prefill <=> e.id \in prefill'
      BY <1>1, <1>2, <1>3, <1>6, <2>1
    <2> QED
      BY <1>6, <2>1, <2>2, CurrentStays
  <1> QED
    BY <1>1, <1>5, <1>6

\* A sequence that is found nowhere, waits or is active ends.
LEMMA FailSequenceKeeps ==
    ASSUME Inv, SizeInv, NEW s, NEW outcome \in Outcomes, FailSequence(s, outcome)
    PROVE  SizeInv'
  <1>1. CASE s \in Active /\ Retire(s, outcome)
    BY <1>1, RetireKeeps
  <1>2. CASE s \in pending /\ Drop({s}, outcome)
    BY <1>2, QuietKeeps DEF Drop
  <1>3. CASE s \notin Active \cup pending /\ UNCHANGED <<kvVars, requestVars>>
    BY <1>3, QuietKeeps DEF requestVars
  <1> QED
    BY <1>1, <1>2, <1>3 DEF FailSequence

-----------------------------------------------------------------------------
(* Every action keeps SizeInv and BatchInv                                 *)

Kept == SizeInv' /\ BatchInv'

\* Outside the loops there is no batch to speak of.
LEMMA OutsidePass ==
    ASSUME ~InPass'
    PROVE  BatchInv'
  BY DEF BatchInv

\* A step of the pass that leaves the batch and its sequences alone.
LEMMA BatchStaysCurrent ==
    ASSUME SoundInv, InPass, batch' = batch,
           \A e \in batch : Current(e) => Current(e)',
           pc' \in {"decode", "prefill"} => InBatch \cap todo' = {},
           pc' = "decode" => InBatch \subseteq decode'
    PROVE  BatchInv'
  BY DEF SoundInv, BatchInv, InBatch

\* A step of the pass that adds the snapshot of s.
LEMMA JoinStaysCurrent ==
    ASSUME SoundInv, InPass, pc' = pc, NEW s, NEW blocks, NEW tokens, Join(s, blocks, tokens),
           \A e \in batch : Current(e) => Current(e)',
           \A e : e = Snapshot(s, blocks) => Current(e)',
           todo' = todo \ {s},
           pc' = "decode" => s \in decode' /\ InBatch \subseteq decode'
    PROVE  BatchInv'
  <1>1. InBatch' = InBatch \cup {s} /\ batch' = batch \cup {Snapshot(s, blocks)}
    BY InBatchOfJoin
  <1>2. \A e \in batch' : Current(e)'
    <2>1. \A e \in batch : Current(e)'
      BY DEF SoundInv, BatchInv
    <2>2. \A e \in batch' : e \in batch \/ e = Snapshot(s, blocks)
      BY <1>1
    <2> QED
      BY <2>1, <2>2
  <1>3. pc' \in {"decode", "prefill"} => InBatch' \cap todo' = {}
    BY <1>1 DEF SoundInv, BatchInv
  <1>4. pc' = "decode" => InBatch' \subseteq decode'
    BY <1>1
  <1> QED
    BY <1>2, <1>3, <1>4 DEF BatchInv

LEMMA DecodeInPlaceKeeps ==
    ASSUME SoundInv, NEW s \in SeqIds, DecodeInPlace(s)
    PROVE  Kept
  <1>1. /\ DecodeAt(s) /\ ~NeedsBlock(s) /\ Join(s, logicalBlocks[s], 1)
        /\ UNCHANGED <<kvVars, request, prefill, decode, logicalBlocks, generated>>
    BY DEF DecodeInPlace, requestVars
  <1>2. /\ pc = "decode" /\ pc' = pc /\ s \in decode /\ s \in Active /\ todo' = todo \ {s}
    BY <1>1, DecodeAtFacts DEF SoundInv
  <1>3. SizeInv' /\ \A e : Current(e) => Current(e)'
    BY <1>1, QuietKeeps DEF SoundInv
  <1>4. \A e : e = Snapshot(s, logicalBlocks[s]) => Current(e)
    <2> DEFINE n == ContextLen(s)
    <2>1. n \in Nat /\ Len(logicalBlocks[s]) \in Nat
      BY <1>2, ActiveSizes DEF SoundInv
    <2>2. ~(BlocksForTokens(n + 1) > Len(logicalBlocks[s]))
      BY <1>1 DEF NeedsBlock
    <2> HIDE DEF n
    <2>3. /\ BlocksForTokens(n) \in Nat
          /\ BlocksForTokens(n + 1) \in {BlocksForTokens(n), BlocksForTokens(n) + 1}
      BY <2>1, OneMoreToken
    <2>4. Len(logicalBlocks[s]) >= BlocksForTokens(n)
      BY <2>1, <2>2, <2>3
    <2> QED
      BY <1>2, <2>4, CurrentSnapshot DEF SoundInv, n
  <1>5. InBatch \subseteq decode'
    BY <1>1, <1>2 DEF SoundInv, BatchInv, InPass
  <1>6. BatchInv'
    BY <1>1, <1>2, <1>3, <1>4, <1>5, JoinStaysCurrent DEF InPass
  <1> QED
    BY <1>3, <1>6 DEF Kept

LEMMA DecodeGrowKeeps ==
    ASSUME SoundInv, NEW s \in SeqIds, DecodeGrow(s)
    PROVE  Kept
  <1>1. /\ DecodeAt(s) /\ Join(s, logicalBlocks'[s], 1) /\ AllocateBlock(s)
        /\ logicalBlocks' = [logicalBlocks EXCEPT ![s] = Append(logicalBlocks[s], Head(freeList))]
        /\ UNCHANGED <<request, prefill, decode, generated>>
    BY DEF DecodeGrow
  <1>2. /\ pc = "decode" /\ pc' = pc /\ s \in decode /\ s \in Active /\ todo' = todo \ {s}
        /\ s \in todo
    BY <1>1, DecodeAtFacts DEF SoundInv, DecodeAt, First
  <1>3. CoreInv' /\ logicalBlocks'[s] = pageTables'[s]
    BY <1>2, GrowCore DEF SoundInv, Inv
  <1>4. /\ logicalBlocks \in [SeqIds -> Seq(Blocks)]
        /\ pageTables' = [pageTables EXCEPT ![s] = Append(pageTables[s], Head(freeList))]
    BY <1>1 DEF AllocateBlock, SoundInv, Inv, CoreInv, CoreType
  <1>5. /\ \A t \in SeqIds : t # s => logicalBlocks'[t] = logicalBlocks[t]
        /\ \A t \in Active : t # s => pageTables'[t] = pageTables[t]
    <2>1. ASSUME NEW t \in Active, t # s PROVE pageTables'[t] = pageTables[t]
      BY <1>4, <2>1 DEF SoundInv, Inv, CoreInv, TablesMatchActive, KVInv, KVTypeOK
    <2> QED
      BY <1>1, <1>4, <2>1
  <1>6. Len(logicalBlocks'[s]) = Len(logicalBlocks[s]) + 1
    <2>1. logicalBlocks'[s] = Append(logicalBlocks[s], Head(freeList))
      BY <1>1, <1>4
    <2>2. Head(freeList) \in Blocks
      BY <1>1, AllocateBlockInv, RangeOfSeq DEF SoundInv, Inv, CoreInv, KVInv, KVTypeOK
    <2>3. logicalBlocks[s] \in Seq(Blocks)
      BY <1>4
    <2> QED
      BY <2>1, <2>2, <2>3, AppendProperties
  <1>7. /\ Len(logicalBlocks'[s]) >= BlocksForTokens(ContextLen(s))
        /\ Len(logicalBlocks'[s]) >= BlocksForTokens(ContextLen(s) - 1)
    <2> DEFINE n == ContextLen(s) - 1
    <2>1. n \in Nat /\ Len(logicalBlocks[s]) \in Nat /\ ContextLen(s) = n + 1
      BY <1>2, ActiveSizes DEF SoundInv
    <2>2. Len(logicalBlocks[s]) >= BlocksForTokens(n)
      BY <1>2 DEF SoundInv, SizeInv
    <2> HIDE DEF n
    <2>3. BlocksForTokens(n) \in Nat
          /\ BlocksForTokens(n + 1) \in {BlocksForTokens(n), BlocksForTokens(n) + 1}
      BY <2>1, OneMoreToken
    <2>4. /\ Len(logicalBlocks'[s]) >= BlocksForTokens(n + 1)
          /\ Len(logicalBlocks'[s]) >= BlocksForTokens(n)
      BY <1>6, <2>1, <2>2, <2>3
    <2> QED
      BY <2>1, <2>4 DEF n
  <1>8. Active' = Active /\ \A t \in Active : ContextLen(t)' = ContextLen(t)
    BY <1>1 DEF Active, ContextLen, Prompt
  <1>9. SizeInv'
    <2>1. ASSUME NEW t \in prefill' PROVE Len(logicalBlocks'[t]) >= BlocksForTokens(ContextLen(t)')
      <3>1. t \in Active /\ t \in SeqIds /\ t # s /\ t \in prefill
        BY <1>1, <1>2, PlacesTyped DEF Active, SoundInv, Inv, CoreInv, ExactlyOnePlace
      <3> QED
        BY <1>5, <1>8, <3>1 DEF SoundInv, SizeInv
    <2>2. ASSUME NEW t \in decode' PROVE Len(logicalBlocks'[t]) >= BlocksForTokens(ContextLen(t)' - 1)
      <3>1. t \in Active /\ t \in SeqIds /\ t \in decode
        BY <1>1, PlacesTyped DEF Active, SoundInv, Inv
      <3>2. CASE t = s
        BY <1>7, <1>8, <3>1, <3>2
      <3>3. CASE t # s
        BY <1>5, <1>8, <3>1, <3>3 DEF SoundInv, SizeInv
      <3> QED
        BY <3>2, <3>3
    <2> QED
      BY <1>1, <2>1, <2>2 DEF SoundInv, SizeInv
  <1>10. ASSUME NEW e \in batch, Current(e) PROVE Current(e)'
    <2>1. e.id \in Active /\ e.id # s
      BY <1>2, <1>10 DEF Current, SoundInv, BatchInv, InPass, InBatch
    <2> QED
      BY <1>1, <1>5, <1>8, <1>10, <2>1, CurrentStays
  <1>11. ASSUME NEW e, e = Snapshot(s, logicalBlocks'[s]) PROVE Current(e)'
    <2>1. /\ e.id = s /\ e.isPrefill = (s \notin decode) /\ e.blocks = logicalBlocks'[s]
          /\ e.context = ContextLen(s)
      BY <1>11, SnapshotFields
    <2>2. s \in decode <=> s \notin prefill
      BY <1>2, ActiveSizes DEF SoundInv
    <2> QED
      BY <1>1, <1>2, <1>3, <1>7, <1>8, <2>1, <2>2 DEF Current
  <1>12. InBatch \subseteq decode'
    BY <1>1, <1>2 DEF SoundInv, BatchInv, InPass
  <1>13. BatchInv'
    BY <1>1, <1>2, <1>10, <1>11, <1>12, JoinStaysCurrent DEF InPass
  <1> QED
    BY <1>9, <1>13 DEF Kept

LEMMA DecodeOutOfBlocksKeeps ==
    ASSUME SoundInv, NEW s \in SeqIds, DecodeOutOfBlocks(s)
    PROVE  Kept
  <1>1. DecodeAt(s) /\ Retire(s, "outOfBlocks") /\ batch' = batch
    BY DEF DecodeOutOfBlocks
  <1>2. /\ pc = "decode" /\ pc' = pc /\ s \in Active /\ todo' = todo \ {s} /\ s \in todo
    BY <1>1, DecodeAtFacts DEF SoundInv, DecodeAt, First
  <1>3. /\ SizeInv' /\ decode' = decode \ {s}
        /\ \A e : Current(e) /\ e.id # s => Current(e)'
    BY <1>1, <1>2, RetireKeeps DEF SoundInv, Outcomes
  <1>4. InBatch \cap todo = {} /\ InBatch \subseteq decode
    BY <1>2 DEF SoundInv, BatchInv, InPass
  <1>5. \A e \in batch : Current(e) => Current(e)'
    BY <1>2, <1>3, <1>4 DEF InBatch
  <1>6. BatchInv'
    BY <1>1, <1>2, <1>3, <1>4, <1>5, BatchStaysCurrent DEF InPass
  <1> QED
    BY <1>3, <1>6 DEF Kept

LEMMA ResumePrefillKeeps ==
    ASSUME SoundInv, NEW s \in SeqIds, ResumePrefill(s)
    PROVE  Kept
  <1>1. /\ pc = "prefill" /\ pc' = pc /\ s \in prefill /\ s \in Active /\ todo' = todo \ {s}
    BY DEF ResumePrefill, First, SoundInv, Inv, LoopInv, Active
  <1>2. ~TooLarge(s)
    BY <1>1 DEF SoundInv, Inv, PrefillFits
  <1>3. UNCHANGED <<kvVars, request, prefill, decode, logicalBlocks, generated>>
    BY <1>2 DEF ResumePrefill, requestVars
  <1>4. SizeInv' /\ \A e : Current(e) => Current(e)'
    BY <1>3, QuietKeeps DEF SoundInv
  <1>5. CASE Join(s, logicalBlocks[s], Prompt(s))
    <2>1. \A e : e = Snapshot(s, logicalBlocks[s]) => Current(e)
      <3>1. Len(logicalBlocks[s]) >= BlocksForTokens(ContextLen(s))
        BY <1>1 DEF SoundInv, SizeInv
      <3> QED
        BY <1>1, <3>1, CurrentSnapshot DEF SoundInv
    <2>2. BatchInv'
      BY <1>1, <1>4, <1>5, <2>1, JoinStaysCurrent DEF InPass
    <2> QED
      BY <1>4, <2>2 DEF Kept
  <1>6. CASE batch' = batch
    <2>1. InBatch \cap todo' = {}
      BY <1>1 DEF SoundInv, BatchInv, InPass
    <2>2. BatchInv'
      BY <1>1, <1>4, <1>6, <2>1, BatchStaysCurrent DEF InPass
    <2> QED
      BY <1>4, <2>2 DEF Kept
  <1> QED
    BY <1>2, <1>5, <1>6 DEF ResumePrefill

LEMMA StartPrefillKeeps ==
    ASSUME SoundInv, NEW s \in SeqIds, StartPrefill(s)
    PROVE  Kept
  <1>1. /\ PendingAt(s) /\ AllocateSequence(s, Prompt(s)) /\ prefill' = prefill \cup {s}
        /\ logicalBlocks' = [logicalBlocks EXCEPT ![s] = pageTables'[s]]
        /\ Join(s, pageTables'[s], Prompt(s))
        /\ UNCHANGED <<request, decode, generated>>
    BY DEF StartPrefill
  <1>2. /\ pc = "pending" /\ pc' = pc /\ s \in pending /\ s \in Submitted /\ todo' = todo \ {s}
    BY <1>1, PendingAtFacts DEF SoundInv
  <1>3. /\ CoreInv' /\ Active' = Active \cup {s}
        /\ Len(pageTables'[s]) = BlocksForTokens(Prompt(s))
    BY <1>2, StartCore DEF SoundInv, Inv
  <1>4. s \notin Active /\ generated[s] = 0 /\ Prompt(s) \in Nat
    BY <1>2, RequestTyped DEF SoundInv, Inv, CoreInv, ExactlyOnePlace, SizeInv, Active
  <1>5. ContextLen(s) = Prompt(s) /\ BlocksForTokens(ContextLen(s)) \in Nat
    BY <1>4, BlocksForTokensType DEF ContextLen
  <1>6. /\ logicalBlocks'[s] = pageTables'[s]
        /\ \A t \in SeqIds : t # s => logicalBlocks'[t] = logicalBlocks[t]
        /\ \A t \in Active : pageTables'[t] = pageTables[t]
    BY <1>1, <1>4 DEF SoundInv, Inv, CoreInv, CoreType, TablesMatchActive, AllocateSequence, Live
  <1>7. \A t : ContextLen(t)' = ContextLen(t)
    BY <1>1 DEF ContextLen, Prompt
  <1>8. SizeInv'
    <2>1. ASSUME NEW t \in prefill' PROVE Len(logicalBlocks'[t]) >= BlocksForTokens(ContextLen(t)')
      <3>1. CASE t = s
        BY <1>3, <1>5, <1>6, <1>7, <3>1
      <3>2. CASE t # s
        <4>1. t \in prefill /\ t \in SeqIds
          BY <1>1, <3>2, PlacesTyped DEF SoundInv, Inv
        <4> QED
          BY <1>6, <1>7, <3>2, <4>1 DEF SoundInv, SizeInv
      <3> QED
        BY <3>1, <3>2
    <2>2. ASSUME NEW t \in decode' PROVE Len(logicalBlocks'[t]) >= BlocksForTokens(ContextLen(t)' - 1)
      <3>1. t \in decode /\ t \in SeqIds /\ t # s
        BY <1>1, <1>4, PlacesTyped DEF SoundInv, Inv, Active
      <3> QED
        BY <1>6, <1>7, <3>1 DEF SoundInv, SizeInv
    <2> QED
      BY <1>1, <2>1, <2>2 DEF SoundInv, SizeInv
  <1>9. ASSUME NEW e \in batch, Current(e) PROVE Current(e)'
    <2>1. e.id \in Active /\ e.id # s /\ e.id \in Active'
      BY <1>3, <1>4, <1>9 DEF Current
    <2> QED
      BY <1>1, <1>6, <1>9, <2>1, CurrentStays
  <1>10. ASSUME NEW e, e = Snapshot(s, pageTables'[s]) PROVE Current(e)'
    <2>1. /\ e.id = s /\ e.isPrefill = (s \notin decode) /\ e.blocks = pageTables'[s]
          /\ e.context = ContextLen(s)
      BY <1>10, SnapshotFields
    <2>2. s \notin decode /\ s \in prefill' /\ s \in Active'
      BY <1>1, <1>3, <1>4 DEF Active
    <2>3. e.isPrefill <=> e.id \in prefill'
      BY <2>1, <2>2
    <2>4. /\ e.context = ContextLen(e.id)' /\ e.blocks = pageTables'[e.id]
          /\ Len(e.blocks) >= BlocksForTokens(e.context)
      BY <1>3, <1>5, <1>7, <2>1
    <2> QED
      BY <2>1, <2>2, <2>3, <2>4 DEF Current
  <1>11. BatchInv'
    BY <1>1, <1>2, <1>9, <1>10, JoinStaysCurrent DEF InPass
  <1> QED
    BY <1>8, <1>11 DEF Kept

\* The steps of the pass that add no snapshot and end no active sequence.
LEMMA PassingKeeps ==
    ASSUME SoundInv, NEW s,
           BeginSchedule \/ EndDecode \/ EndPrefill \/ EndSchedule
               \/ DeferPending(s) \/ RejectPending(s)
    PROVE  Kept
  <1>1. UNCHANGED <<kvVars, request, prefill, decode, logicalBlocks, generated>>
    BY DEF BeginSchedule, EndDecode, EndPrefill, EndSchedule, DeferPending, RejectPending, Drop,
           requestVars
  <1>2. SizeInv' /\ \A e : Current(e) => Current(e)'
    BY <1>1, QuietKeeps DEF SoundInv
  <1>3. CASE BeginSchedule
    BY <1>2, <1>3 DEF BeginSchedule, Kept, BatchInv, InBatch
  <1>4. CASE ~BeginSchedule
    <2>1. batch' = batch /\ InPass
      BY <1>4 DEF BeginSchedule, EndDecode, EndPrefill, EndSchedule, DeferPending, RejectPending,
                  PendingAt, InPass
    <2>2. pc' # "decode"
      BY <1>4 DEF EndDecode, EndPrefill, EndSchedule, DeferPending, RejectPending, PendingAt
    <2>3. pc' = "prefill" => InBatch \cap todo' = {}
      <3>1. SUFFICES ASSUME pc' = "prefill" PROVE InBatch \cap todo' = {}
        OBVIOUS
      <3>2. EndDecode
        BY <1>4, <3>1 DEF EndPrefill, EndSchedule, DeferPending, RejectPending, PendingAt
      <3>3. InBatch \subseteq decode /\ todo' = prefill
        BY <3>2 DEF EndDecode, SoundInv, BatchInv, InPass
      <3>4. prefill \cap decode = {}
        BY DEF SoundInv, Inv, CoreInv, ExactlyOnePlace
      <3> QED
        BY <3>3, <3>4
    <2>4. BatchInv'
      BY <1>2, <2>1, <2>2, <2>3, BatchStaysCurrent
    <2> QED
      BY <1>2, <2>4 DEF Kept
  <1> QED
    BY <1>3, <1>4

\* An output that is about the batch moves sequences on whose blocks hold all
\* of their context.
LEMMA UpdateSequencesKeeps ==
    ASSUME SoundInv, ~PartialOutputs, NEW output \in Outputs, UpdateSequences(output)
    PROVE  Kept
  <1> DEFINE advanced == {s \in DOMAIN output \cap Active : output[s] # "missing"}
  <1>1. /\ pc = "executing" /\ pc' = "finishing"
        /\ prefill' = prefill \ advanced /\ decode' = decode \cup advanced
        /\ generated' = [s \in SeqIds |-> generated[s] + (IF s \in advanced THEN 1 ELSE 0)]
        /\ UNCHANGED <<kvVars, request, logicalBlocks>>
    BY DEF UpdateSequences
  <1>2. advanced \subseteq InBatch /\ advanced \subseteq Active
    BY DEF Outputs
  <1> HIDE DEF advanced
  <1>3. ASSUME NEW s \in advanced
        PROVE  Len(logicalBlocks[s]) >= BlocksForTokens(ContextLen(s))
    <2>1. PICK e \in batch : e.id = s
      BY <1>2 DEF InBatch
    <2>2. Current(e)
      BY <1>1 DEF SoundInv, BatchInv, InPass
    <2>3. logicalBlocks[s] = pageTables[s]
      BY <1>2, ActiveSizes DEF SoundInv
    <2> QED
      BY <2>1, <2>2, <2>3 DEF Current
  <1>4. ASSUME NEW s \in Active
        PROVE  ContextLen(s)' = IF s \in advanced THEN ContextLen(s) + 1 ELSE ContextLen(s)
    <2>1. s \in SeqIds /\ generated[s] \in Nat /\ Prompt(s) \in Nat
      BY ActiveSizes DEF SoundInv
    <2>2. generated'[s] = IF s \in advanced THEN generated[s] + 1 ELSE generated[s]
      BY <1>1, <2>1
    <2>3. Prompt(s)' = Prompt(s)
      BY <1>1 DEF Prompt
    <2> QED
      BY <2>1, <2>2, <2>3 DEF ContextLen
  <1>5. \A s \in SeqIds \ decode' : generated'[s] = 0
    BY <1>1 DEF SoundInv, SizeInv
  <1>6. ASSUME NEW s \in prefill'
        PROVE  Len(logicalBlocks'[s]) >= BlocksForTokens(ContextLen(s)')
    <2>1. s \in prefill /\ s \in Active /\ s \notin advanced
      BY <1>1 DEF Active
    <2>2. ContextLen(s)' = ContextLen(s)
      BY <1>4, <2>1
    <2> QED
      BY <1>1, <2>1, <2>2 DEF SoundInv, SizeInv
  <1>7. ASSUME NEW s \in decode'
        PROVE  Len(logicalBlocks'[s]) >= BlocksForTokens(ContextLen(s)' - 1)
    <2>1. CASE s \in advanced
      <3>1. ContextLen(s) \in Nat /\ ContextLen(s)' = ContextLen(s) + 1
        BY <1>2, <1>4, <2>1, ActiveSizes DEF SoundInv
      <3>2. ContextLen(s)' - 1 = ContextLen(s)
        BY <3>1
      <3> QED
        BY <1>1, <1>3, <2>1, <3>2
    <2>2. CASE s \notin advanced
      <3>1. s \in decode /\ s \in Active
        BY <1>1, <2>2 DEF Active
      <3>2. ContextLen(s)' = ContextLen(s)
        BY <1>4, <2>2, <3>1
      <3> QED
        BY <1>1, <3>1, <3>2 DEF SoundInv, SizeInv
    <2> QED
      BY <2>1, <2>2
  <1>8. SizeInv'
    BY <1>5, <1>6, <1>7 DEF SizeInv
  <1> QED
    BY <1>1, <1>8, OutsidePass DEF Kept, InPass

\* Everything else happens outside of the pass.
LEMMA OthersKeep ==
    ASSUME SoundInv, NEW s, NEW r,
           \/ ExecutionError \/ FailNext(s) \/ CompleteNext(s) \/ EndUpdate \/ TakeCompleted
           \/ r \in Requests /\ AddRequest(r)
           \/ CompleteByStopSequence(s) \/ FailByRequestId(s) \/ FailPendingRequests
    PROVE  Kept
  <1>1. ~InPass'
    BY DEF InPass, ExecutionError, FailNext, CompleteNext, EndUpdate, TakeCompleted, AddRequest,
           CompleteByStopSequence, FailByRequestId, FailPendingRequests, passVars
  <1>2. CASE ExecutionError \/ EndUpdate \/ TakeCompleted \/ FailPendingRequests
    <2>1. UNCHANGED <<kvVars, request, prefill, decode, logicalBlocks, generated>>
      BY <1>2 DEF ExecutionError, EndUpdate, TakeCompleted, FailPendingRequests, Drop, requestVars
    <2> QED
      BY <1>1, <2>1, OutsidePass, QuietKeeps DEF SoundInv, Kept
  <1>3. CASE FailNext(s)
    BY <1>1, <1>3, OutsidePass, FailSequenceKeeps DEF FailNext, SoundInv, Kept, Outcomes
  <1>4. CASE CompleteNext(s)
    <2>1. s \in Active /\ Retire(s, "completed")
      BY <1>4 DEF CompleteNext, SoundInv, Inv, FinishInv
    <2> QED
      BY <1>1, <2>1, OutsidePass, RetireKeeps DEF SoundInv, Kept, Outcomes
  <1>5. CASE CompleteByStopSequence(s)
    BY <1>1, <1>5, OutsidePass, RetireKeeps DEF CompleteByStopSequence, SoundInv, Kept, Outcomes
  <1>6. CASE FailByRequestId(s)
    <2>1. CASE FailSequence(s, "cancelled")
      BY <1>1, <2>1, OutsidePass, FailSequenceKeeps DEF SoundInv, Kept, Outcomes
    <2>2. CASE s \in Active /\ Retire(s, "undecodable")
      BY <1>1, <2>2, OutsidePass, RetireKeeps DEF SoundInv, Kept, Outcomes
    <2> QED
      BY <1>6, <2>1, <2>2 DEF FailByRequestId
  <1>7. CASE r \in Requests /\ AddRequest(r)
    <2>1. /\ request' = Append(request, r)
          /\ UNCHANGED <<prefill, decode, logicalBlocks, generated>>
      BY <1>7 DEF AddRequest
    <2>2. request \in Seq(Requests) /\ Submitted = 1 .. Len(request)
      BY LenProperties DEF SoundInv, Inv, CoreInv, CoreType, Submitted
    <2>3. \A t \in Active' : request'[t] = request[t]
      <3>1. ASSUME NEW t \in Active PROVE request'[t] = request[t]
        <4>1. t \in 1 .. Len(request)
          BY <2>2, ActiveSizes DEF SoundInv
        <4> QED
          BY <2>1, <2>2, <4>1, AppendProperties
      <3> QED
        BY <2>1, <3>1 DEF Active
    <2>4. SizeInv'
      BY <2>1, <2>3, SizeStays DEF SoundInv, SizeInv
    <2> QED
      BY <1>1, <2>4, OutsidePass DEF Kept
  <1> QED
    BY <1>2, <1>3, <1>4, <1>5, <1>6, <1>7

-----------------------------------------------------------------------------
(* The theorem                                                             *)

LEMMA InitSound == Init => SoundInv
  <1> SUFFICES ASSUME Init PROVE SoundInv
    OBVIOUS
  <1>1. Inv
    BY InitInv
  <1>2. SizeInv /\ BatchInv
    BY DEF Init, SizeInv, BatchInv, InPass
  <1> QED
    BY <1>1, <1>2 DEF SoundInv

LEMMA StutterKeeps ==
    ASSUME SoundInv, UNCHANGED vars
    PROVE  Kept
  <1>1. /\ UNCHANGED <<kvVars, request, prefill, decode, logicalBlocks, generated>>
        /\ UNCHANGED <<pc, todo, batch>>
    BY DEF vars, requestVars, passVars
  <1>2. SizeInv' /\ \A e : Current(e) => Current(e)'
    BY <1>1, QuietKeeps DEF SoundInv
  <1>3. BatchInv'
    BY <1>1, <1>2 DEF SoundInv, BatchInv, InBatch, InPass
  <1> QED
    BY <1>2, <1>3 DEF Kept

LEMMA SoundStep ==
    ASSUME ~PartialOutputs, SoundInv, [Next]_vars
    PROVE  SoundInv'
  <1>1. Inv'
    BY NextStep DEF SoundInv
  <1>2. CASE BeginSchedule \/ EndDecode \/ EndPrefill \/ EndSchedule
    BY <1>1, <1>2, PassingKeeps DEF Kept, SoundInv
  <1>3. ASSUME NEW s \in SeqIds,
               \/ DecodeInPlace(s) \/ DecodeGrow(s) \/ DecodeOutOfBlocks(s)
               \/ ResumePrefill(s)
               \/ DeferPending(s) \/ RejectPending(s) \/ StartPrefill(s)
        PROVE  Kept
    BY <1>3, DecodeInPlaceKeeps, DecodeGrowKeeps, DecodeOutOfBlocksKeeps, ResumePrefillKeeps,
       PassingKeeps, StartPrefillKeeps
  <1>4. CASE Schedule
    BY <1>1, <1>2, <1>3, <1>4 DEF Schedule, Kept, SoundInv
  <1>5. CASE Update
    <2>1. CASE \E output \in Outputs : UpdateSequences(output)
      BY <1>1, <2>1, UpdateSequencesKeeps DEF Kept, SoundInv
    <2>2. CASE ExecutionError \/ EndUpdate
      BY <1>1, <2>2, OthersKeep DEF Kept, SoundInv
    <2>3. CASE \E s \in SeqIds : FailNext(s) \/ CompleteNext(s)
      BY <1>1, <2>3, OthersKeep DEF Kept, SoundInv
    <2> QED
      BY <1>5, <2>1, <2>2, <2>3 DEF Update
  <1>6. CASE TakeCompleted \/ Call
    <2>1. CASE TakeCompleted \/ FailPendingRequests
      BY <1>1, <2>1, OthersKeep DEF Kept, SoundInv
    <2>2. CASE \E r \in Requests : AddRequest(r)
      BY <1>1, <2>2, OthersKeep DEF Kept, SoundInv
    <2>3. CASE \E s \in SeqIds : CompleteByStopSequence(s) \/ FailByRequestId(s)
      BY <1>1, <2>3, OthersKeep DEF Kept, SoundInv
    <2> QED
      BY <1>6, <2>1, <2>2, <2>3 DEF Call
  <1>7. CASE UNCHANGED vars
    BY <1>1, <1>7, StutterKeeps DEF Kept, SoundInv
  <1> QED
    BY <1>4, <1>5, <1>6, <1>7 DEF Next, Step

\* What is handed to the executor: each snapshot is of an active sequence, with
\* the blocks it has now, which hold its whole context, and no block is in two
\* of them; for every configuration, when the outputs are about the batch.
THEOREM BatchesSound ==
    ASSUME ~PartialOutputs
    PROVE  Spec => []BatchSound
  <1>1. SoundInv => BatchSound
    <2> SUFFICES ASSUME SoundInv, pc = "executing" PROVE BatchSound
      BY DEF BatchSound
    <2>1. \A e \in batch : Current(e)
      BY DEF SoundInv, BatchInv, InPass
    <2>2. ASSUME NEW e \in batch, NEW f \in batch, e # f
          PROVE  e.id # f.id /\ Range(e.blocks) \cap Range(f.blocks) = {}
      <3>1. e \in Snapshots /\ f \in Snapshots
        BY DEF SoundInv, Inv, BatchBounded, Snapshots
      <3>2. Current(e) /\ Current(f)
        BY <2>1
      <3>3. e.id # f.id
        <4>1. SUFFICES ASSUME e.id = f.id PROVE FALSE
          OBVIOUS
        <4>2. e.context = f.context /\ e.blocks = f.blocks
          BY <3>2, <4>1 DEF Current
        <4>3. e.isPrefill = f.isPrefill
          BY <3>1, <3>2, <4>1 DEF Current, Snapshots
        <4> QED
          BY <2>2, <3>1, <4>1, <4>2, <4>3 DEF Snapshots
      <3>4. e.id \in Live /\ f.id \in Live
        BY <3>2 DEF Current, SoundInv, Inv, CoreInv, TablesMatchActive
      <3>5. Range(e.blocks) \cap Range(f.blocks) = {}
        BY <3>2, <3>3, <3>4 DEF Current, SoundInv, Inv, CoreInv, KVInv, OwnedOnce
      <3> QED
        BY <3>3, <3>5
    <2> QED
      BY <2>1, <2>2 DEF BatchSound, Current
  <1>2. SoundInv /\ [Next]_vars => SoundInv'
    BY SoundStep
  <1> QED
    BY <1>1, <1>2, InitSound, PTL DEF Spec

-----------------------------------------------------------------------------
(* Nobody is passed over                                                   *)

\* As many sequences as a pass can take, one token each.
Small(S) ==
    /\ IsFiniteSet(S)
    /\ Cardinality(S) <= MaxBatchSize /\ Cardinality(S) <= MaxTotalTokens

\* A step advances all active sequences or fails them, so between steps all of
\* them decode, and they were in one batch together: the next one has room for
\* them.  While the first loop runs, it has room for all that are left.
FairInv ==
    /\ pc \in {"idle", "decode", "prefill", "collecting"} => prefill = {}
    /\ pc = "finishing" => prefill \subseteq toFail
    /\ pc \in {"idle", "collecting", "finishing"} => Small(decode)
    /\ pc = "decode" =>
          /\ IsFiniteSet(todo) /\ decode = InBatch \cup todo
          /\ Cardinality(batch) + Cardinality(todo) <= MaxBatchSize
          /\ totalTokens + Cardinality(todo) <= MaxTotalTokens
    /\ pc \in {"prefill", "pending", "executing"} => Active = InBatch
    /\ InPass => Cardinality(batch) <= totalTokens

LEMMA BatchCounts ==
    ASSUME Inv
    PROVE  /\ IsFiniteSet(batch) /\ Cardinality(batch) \in Nat
           /\ totalTokens \in Nat /\ MaxBatchSize \in Nat /\ MaxTotalTokens \in Nat
  BY FS_CardinalityType, SchedulerAssumption DEF Inv, BatchBounded

LEMMA SmallerIsSmall ==
    ASSUME NEW S, Small(S), NEW T, T \subseteq S
    PROVE  Small(T)
  <1>1. IsFiniteSet(T) /\ Cardinality(T) <= Cardinality(S)
    BY FS_Subset DEF Small
  <1>2. Cardinality(S) \in Nat /\ Cardinality(T) \in Nat
    BY <1>1, FS_CardinalityType DEF Small
  <1> QED
    BY <1>1, <1>2, SchedulerAssumption DEF Small

\* The sequences of a batch are no more than its entries, nor than its tokens.
LEMMA BatchIsSmall ==
    ASSUME Inv, Cardinality(batch) <= totalTokens
    PROVE  Small(InBatch)
  <1> DEFINE f == [e \in batch |-> e.id]
  <1>1. f \in Surjection(batch, InBatch)
    BY DEF Surjection, InBatch
  <1> HIDE DEF f
  <1>2. IsFiniteSet(InBatch) /\ Cardinality(InBatch) <= Cardinality(batch)
    BY <1>1, BatchCounts, FS_Surjection
  <1>3. Cardinality(InBatch) \in Nat
    BY <1>2, FS_CardinalityType
  <1>4. Cardinality(batch) <= MaxBatchSize /\ totalTokens <= MaxTotalTokens
    BY SchedulerAssumption DEF Inv, BatchBounded
  <1> QED
    BY <1>2, <1>3, <1>4, BatchCounts DEF Small

\* One entry more, and at least one token.
LEMMA JoinCounts ==
    ASSUME Inv, NEW s, NEW blocks, NEW tokens \in Nat \ {0}, Join(s, blocks, tokens)
    PROVE  /\ Cardinality(batch') <= Cardinality(batch) + 1
           /\ Cardinality(batch') \in Nat
           /\ Cardinality(batch) <= totalTokens => Cardinality(batch') <= totalTokens'
  <1> DEFINE entry == Snapshot(s, blocks)
  <1>1. batch' = batch \cup {entry} /\ totalTokens' = totalTokens + tokens
    BY DEF Join
  <1> HIDE DEF entry
  <1>2. /\ IsFiniteSet(batch')
        /\ Cardinality(batch') = IF entry \in batch THEN Cardinality(batch)
                                 ELSE Cardinality(batch) + 1
    BY <1>1, BatchCounts, FS_AddElement
  <1> QED
    BY <1>1, <1>2, BatchCounts

\* The first loop takes s off its list.
LEMMA TodoCounts ==
    ASSUME IsFiniteSet(todo), NEW s \in todo, todo' = todo \ {s}
    PROVE  /\ IsFiniteSet(todo')
           /\ Cardinality(todo) \in Nat /\ Cardinality(todo') \in Nat
           /\ Cardinality(todo') + 1 = Cardinality(todo)
  <1>1. IsFiniteSet(todo') /\ Cardinality(todo') = Cardinality(todo) - 1
    BY FS_RemoveElement
  <1>2. Cardinality(todo) \in Nat /\ Cardinality(todo') \in Nat
    BY <1>1, FS_CardinalityType
  <1> QED
    BY <1>1, <1>2

\* An iteration of the first loop that takes s into the batch.
LEMMA DecodeKeepsFair ==
    ASSUME SoundInv, FairInv, NEW s \in SeqIds, DecodeInPlace(s) \/ DecodeGrow(s)
    PROVE  FairInv'
  <1>1. /\ DecodeAt(s) /\ prefill' = prefill /\ decode' = decode
        /\ \E blocks : Join(s, blocks, 1)
    BY DEF DecodeInPlace, DecodeGrow, requestVars
  <1>2. /\ pc = "decode" /\ pc' = "decode" /\ s \in todo /\ todo' = todo \ {s}
    BY <1>1, DecodeAtFacts DEF SoundInv, DecodeAt, First
  <1>3. PICK blocks : Join(s, blocks, 1)
    BY <1>1
  <1>4. /\ InBatch' = InBatch \cup {s}
        /\ totalTokens' = totalTokens + 1
        /\ Cardinality(batch') <= Cardinality(batch) + 1 /\ Cardinality(batch') \in Nat
        /\ Cardinality(batch') <= totalTokens'
    BY <1>2, <1>3, InBatchOfJoin, JoinCounts DEF Join, SoundInv, FairInv, InPass
  <1>5. /\ IsFiniteSet(todo') /\ Cardinality(todo') + 1 = Cardinality(todo)
        /\ Cardinality(todo) \in Nat /\ Cardinality(todo') \in Nat
    BY <1>2, TodoCounts DEF FairInv
  <1>6. /\ Cardinality(batch') + Cardinality(todo') <= MaxBatchSize
        /\ totalTokens' + Cardinality(todo') <= MaxTotalTokens
    BY <1>2, <1>4, <1>5, BatchCounts DEF FairInv, SoundInv
  <1>7. decode' = InBatch' \cup todo' /\ prefill' = {}
    BY <1>1, <1>2, <1>4 DEF FairInv
  <1> QED
    BY <1>2, <1>4, <1>5, <1>6, <1>7 DEF FairInv, InPass

LEMMA DecodeOutOfBlocksKeepsFair ==
    ASSUME SoundInv, FairInv, NEW s \in SeqIds, DecodeOutOfBlocks(s)
    PROVE  FairInv'
  <1>1. /\ pc = "decode" /\ pc' = "decode" /\ s \in todo /\ todo' = todo \ {s}
        /\ UNCHANGED <<batch, totalTokens>>
        /\ decode' = decode \ {s} /\ prefill' = prefill \ {s}
    BY DecodeAtFacts DEF SoundInv, DecodeOutOfBlocks, DecodeAt, First, Retire
  <1>2. s \notin InBatch /\ InBatch' = InBatch
    BY <1>1 DEF SoundInv, BatchInv, InPass, InBatch
  <1>3. /\ IsFiniteSet(todo') /\ Cardinality(todo') + 1 = Cardinality(todo)
        /\ Cardinality(todo) \in Nat /\ Cardinality(todo') \in Nat
    BY <1>1, TodoCounts DEF FairInv
  <1>4. /\ Cardinality(batch') + Cardinality(todo') <= MaxBatchSize
        /\ totalTokens' + Cardinality(todo') <= MaxTotalTokens
        /\ Cardinality(batch') <= totalTokens'
    BY <1>1, <1>3, BatchCounts DEF FairInv, SoundInv, InPass
  <1>5. decode' = InBatch' \cup todo' /\ prefill' = {}
    BY <1>1, <1>2 DEF FairInv
  <1> QED
    BY <1>1, <1>3, <1>4, <1>5 DEF FairInv

\* The breaks of the first loop are never taken with somebody left to visit.
LEMMA EndDecodeKeepsFair ==
    ASSUME SoundInv, FairInv, EndDecode
    PROVE  FairInv'
  <1>1. pc = "decode" /\ pc' = "prefill" /\ (HasRoom /\ FitsTokens(1) => todo = {})
        /\ UNCHANGED <<prefill, decode, batch, totalTokens>>
    BY DEF EndDecode, requestVars
  <1>2. todo = {}
    <2>1. SUFFICES ASSUME todo # {} PROVE HasRoom /\ FitsTokens(1)
      BY <1>1
    <2>2. Cardinality(todo) \in Nat \ {0}
      BY <1>1, <2>1, FS_CardinalityType, FS_EmptySet DEF FairInv
    <2> QED
      BY <1>1, <2>2, BatchCounts DEF FairInv, SoundInv, HasRoom, FitsTokens
  <1>3. InBatch' = InBatch /\ Active' = InBatch' /\ prefill' = {}
    BY <1>1, <1>2 DEF FairInv, InBatch, Active
  <1> QED
    BY <1>1, <1>3 DEF FairInv, InPass

LEMMA StartPrefillKeepsFair ==
    ASSUME SoundInv, FairInv, NEW s \in SeqIds, StartPrefill(s)
    PROVE  FairInv'
  <1>1. pc = "pending" /\ pc' = "pending" /\ s \in pending /\ s \in Submitted
    BY PendingAtFacts DEF SoundInv, StartPrefill
  <1>2. Prompt(s) \in Nat \ {0}
    BY <1>1, RequestTyped DEF SoundInv, Inv, CoreInv, CoreType
  <1>3. /\ prefill' = prefill \cup {s} /\ decode' = decode
        /\ Join(s, pageTables'[s], Prompt(s))
    BY DEF StartPrefill
  <1>4. InBatch' = InBatch \cup {s}
    BY <1>3, InBatchOfJoin
  <1>5. Cardinality(batch') <= totalTokens'
    BY <1>1, <1>2, <1>3, JoinCounts DEF SoundInv, FairInv, InPass
  <1>6. Active' = InBatch'
    BY <1>1, <1>3, <1>4 DEF FairInv, Active
  <1> QED
    BY <1>1, <1>5, <1>6 DEF FairInv

\* The other steps of a pass.
LEMMA PassKeepsFair ==
    ASSUME SoundInv, FairInv, NEW s,
           \/ BeginSchedule \/ EndPrefill \/ EndSchedule
           \/ ResumePrefill(s) \/ DeferPending(s) \/ RejectPending(s)
    PROVE  FairInv'
  <1>1. CASE BeginSchedule
    <2>1. /\ pc = "idle" /\ pc' = "decode" /\ todo' = decode /\ batch' = {}
          /\ totalTokens' = 0 /\ decode' = decode /\ prefill' = {}
      BY <1>1 DEF BeginSchedule, FairInv
    <2>2. Small(decode) /\ Cardinality(decode) \in Nat
      BY <2>1, FS_CardinalityType DEF FairInv, Small
    <2>3. InBatch' = {} /\ Cardinality(batch') = 0
      BY <2>1, FS_EmptySet DEF InBatch
    <2> QED
      BY <2>1, <2>2, <2>3 DEF FairInv, Small
  <1>2. ~ResumePrefill(s)
    BY DEF ResumePrefill, First, SoundInv, Inv, LoopInv, FairInv
  <1>3. CASE EndPrefill \/ DeferPending(s) \/ RejectPending(s)
    <2>1. /\ pc \in {"prefill", "pending"} /\ pc' = "pending"
          /\ UNCHANGED <<prefill, decode, batch, totalTokens>>
      BY <1>3 DEF EndPrefill, DeferPending, RejectPending, PendingAt, Drop, requestVars
    <2> QED
      BY <2>1 DEF FairInv, InPass, Active, InBatch
  <1>4. CASE EndSchedule
    <2>1. /\ pc = "pending" /\ pc' = IF batch = {} THEN "collecting" ELSE "executing"
          /\ UNCHANGED <<prefill, decode, batch, totalTokens>>
      BY <1>4 DEF EndSchedule, requestVars
    <2>2. Active = InBatch /\ Small(InBatch) /\ Cardinality(batch) <= totalTokens
      BY <2>1, BatchIsSmall DEF FairInv, InPass, SoundInv
    <2>3. Small(decode')
      BY <2>1, <2>2, SmallerIsSmall DEF Active
    <2>4. batch = {} => prefill' = {}
      BY <2>1, <2>2 DEF InBatch, Active
    <2>5. Active' = InBatch' /\ Cardinality(batch') <= totalTokens'
      BY <2>1, <2>2 DEF Active, InBatch
    <2> QED
      BY <2>1, <2>3, <2>4, <2>5 DEF FairInv, InPass
  <1> QED
    BY <1>1, <1>2, <1>3, <1>4

\* An output that is about the batch has a token for each active sequence.
LEMMA ExecutionKeepsFair ==
    ASSUME SoundInv, FairInv, ~PartialOutputs, NEW output \in Outputs,
           UpdateSequences(output) \/ ExecutionError
    PROVE  FairInv'
  <1>1. pc = "executing" /\ pc' = "finishing"
    BY DEF UpdateSequences, ExecutionError
  <1>2. Active = InBatch /\ Small(Active)
    BY <1>1, BatchIsSmall DEF FairInv, SoundInv, InPass
  <1>3. decode' \subseteq Active /\ prefill' \subseteq toFail'
    <2>1. CASE UpdateSequences(output)
      <3> DEFINE advanced == {s \in DOMAIN output \cap Active : output[s] # "missing"}
      <3>1. DOMAIN output = Active /\ \A s \in Active : output[s] # "missing"
        BY <1>2 DEF Outputs
      <3>2. advanced = Active
        BY <3>1
      <3>3. prefill' = prefill \ advanced /\ decode' = decode \cup advanced
        BY <2>1 DEF UpdateSequences
      <3> HIDE DEF advanced
      <3> QED
        BY <3>2, <3>3 DEF Active
    <2>2. CASE ExecutionError
      BY <1>2, <2>2 DEF ExecutionError, requestVars, Active
    <2> QED
      BY <2>1, <2>2
  <1>4. Small(decode')
    BY <1>2, <1>3, SmallerIsSmall
  <1> QED
    BY <1>1, <1>3, <1>4 DEF FairInv, InPass

\* Outside of the pass sequences only leave.
LEMMA LeavingKeepsFair ==
    ASSUME FairInv, pc' \in {"idle", "collecting", "finishing"},
           pc \in {"idle", "collecting", "finishing"},
           prefill' \subseteq prefill, decode' \subseteq decode,
           pc = "finishing" => prefill' \subseteq toFail',
           pc = "finishing" /\ pc' # pc => toFail' = {},
           pc' = "finishing" => pc = pc'
    PROVE  FairInv'
  <1>1. Small(decode) /\ Small(decode')
    BY SmallerIsSmall DEF FairInv
  <1> QED
    BY <1>1 DEF FairInv, InPass

LEMMA OthersKeepFair ==
    ASSUME SoundInv, FairInv, NEW s, NEW r,
           \/ FailNext(s) \/ CompleteNext(s) \/ EndUpdate \/ TakeCompleted
           \/ AddRequest(r)
           \/ CompleteByStopSequence(s) \/ FailByRequestId(s) \/ FailPendingRequests
    PROVE  FairInv'
  <1>1. ASSUME NEW outcome, FailSequence(s, outcome)
        PROVE  prefill' = prefill \ {s} /\ decode' \subseteq decode
    BY <1>1 DEF FailSequence, Retire, Drop, requestVars, Active, SoundInv, Inv, CoreInv,
                ExactlyOnePlace
  <1>2. CASE FailNext(s)
    <2>1. pc = "finishing" /\ pc' = "finishing" /\ toFail' = toFail \ {s}
      BY <1>2 DEF FailNext, passVars
    <2>2. prefill' = prefill \ {s} /\ decode' \subseteq decode
      BY <1>1, <1>2 DEF FailNext
    <2> QED
      BY <2>1, <2>2, LeavingKeepsFair DEF FairInv
  <1>3. CASE CompleteNext(s) \/ EndUpdate
    <2>1. /\ pc = "finishing" /\ pc' \in {"finishing", "collecting"}
          /\ toFail = {} /\ toFail' = {}
          /\ prefill' \subseteq prefill /\ decode' \subseteq decode
      BY <1>3 DEF CompleteNext, EndUpdate, Retire, passVars, updateVars, requestVars
    <2> QED
      BY <2>1, LeavingKeepsFair DEF FairInv
  <1>4. CASE FailByRequestId(s)
    <2>1. pc \in {"idle", "collecting"} /\ pc' = pc
      BY <1>4 DEF FailByRequestId, passVars
    <2>2. prefill' \subseteq prefill /\ decode' \subseteq decode
      BY <1>1, <1>4 DEF FailByRequestId, Retire
    <2> QED
      BY <2>1, <2>2, LeavingKeepsFair
  <1>5. CASE TakeCompleted \/ AddRequest(r) \/ CompleteByStopSequence(s) \/ FailPendingRequests
    <2>1. /\ pc \in {"idle", "collecting"} /\ pc' \in {"idle", "collecting"}
          /\ prefill' \subseteq prefill /\ decode' \subseteq decode
      BY <1>5 DEF TakeCompleted, AddRequest, CompleteByStopSequence, FailPendingRequests, Retire,
                  Drop, passVars
    <2> QED
      BY <2>1, LeavingKeepsFair
  <1> QED
    BY <1>2, <1>3, <1>4, <1>5

LEMMA FairStep ==
    ASSUME ~PartialOutputs, SoundInv, FairInv, [Next]_vars
    PROVE  FairInv'
  <1>1. CASE Schedule
    BY <1>1, PassKeepsFair, DecodeKeepsFair, DecodeOutOfBlocksKeepsFair, EndDecodeKeepsFair,
       StartPrefillKeepsFair DEF Schedule
  <1>2. CASE Update
    <2>1. CASE \E output \in Outputs : UpdateSequences(output)
      BY <2>1, ExecutionKeepsFair
    <2>2. CASE ExecutionError
      <3>1. [s \in InBatch |-> "word"] \in Outputs
        BY DEF Outputs
      <3> QED
        BY <2>2, <3>1, ExecutionKeepsFair
    <2> QED
      BY <1>2, <2>1, <2>2, OthersKeepFair DEF Update
  <1>3. CASE TakeCompleted \/ Call
    BY <1>3, OthersKeepFair DEF Call
  <1>4. CASE UNCHANGED vars
    <2>1. UNCHANGED <<prefill, decode, pc, todo, batch, totalTokens, toFail>>
      BY <1>4 DEF vars, requestVars, passVars, updateVars
    <2> QED
      BY <2>1 DEF FairInv, InBatch, Active, InPass, Small
  <1> QED
    BY <1>1, <1>2, <1>3, <1>4 DEF Next, Step

LEMMA InitFair == Init => FairInv
  <1>1. Small({})
    BY FS_EmptySet, SchedulerAssumption DEF Small
  <1> QED
    BY <1>1 DEF Init, FairInv, InPass

\* The breaks of the first two loops of schedule() are dead code when the
\* outputs are about the batch: whoever is active is in every batch, so none
\* waits while it holds its blocks.
THEOREM NobodyPassedOver ==
    ASSUME ~PartialOutputs
    PROVE  Spec => []ActiveAlwaysScheduled
  <1>1. SoundInv /\ FairInv => ActiveAlwaysScheduled
    BY DEF FairInv, ActiveAlwaysScheduled
  <1>2. (SoundInv /\ FairInv) /\ [Next]_vars => (SoundInv /\ FairInv)'
    BY SoundStep, FairStep
  <1> QED
    BY <1>1, <1>2, InitSound, InitFair, PTL DEF Spec

-----------------------------------------------------------------------------
(* Nobody waits on an idle cache                                           *)

\* As long as nothing is active, a scan has put nobody back.
IdleInv ==
    /\ InPass /\ batch = {} => totalTokens = 0
    /\ pc = "pending" /\ Active = {} /\ ~underPressure => pending = todo

\* The watermark of a threshold below one leaves a block.
LEMMA WatermarkLeavesBlock ==
    ASSUME ThresholdNum < ThresholdDen, NumBlocks > 0
    PROVE  Watermark \in Nat /\ Watermark < NumBlocks
  <1> DEFINE x == NumBlocks * ThresholdNum
             y == NumBlocks * ThresholdDen
             q == x \div ThresholdDen
  <1>1. NumBlocks \in Nat \ {0} /\ ThresholdNum \in Nat /\ ThresholdDen \in Nat \ {0}
    BY KVAssumption, SchedulerAssumption
  <1>2. x \in Nat /\ y \in Nat /\ x < y
    BY <1>1
  <1>3. q \in Nat /\ q * ThresholdDen <= x
    BY <1>1, <1>2
  <1>4. q * ThresholdDen < NumBlocks * ThresholdDen
    <2> DEFINE z == q * ThresholdDen
    <2>1. z \in Nat
      BY <1>1, <1>3
    <2> HIDE DEF x, z
    <2>2. z < y
      BY <1>2, <1>3, <2>1 DEF z
    <2> QED
      BY <2>2 DEF z
  <1> HIDE DEF q
  <1>5. q < NumBlocks
    BY <1>1, <1>3, <1>4
  <1> QED
    BY <1>3, <1>5 DEF Watermark, q

\* On an idle cache all blocks are free and no growth is due.
LEMMA IdleCache ==
    ASSUME Inv, Active = {}
    PROVE  NumUsedBlocks = 0 /\ NumFreeBlocks = NumBlocks /\ GrowthReserve = 0
  <1>1. Live = {} /\ UsedIsHeld
    BY KVInvUsed DEF Inv, CoreInv, TablesMatchActive
  <1>2. NumUsedBlocks = 0
    BY <1>1, FS_EmptySet DEF UsedIsHeld
  <1>3. NumFreeBlocks \in Nat
    BY LenProperties DEF NumFreeBlocks, Inv, CoreInv, KVInv, KVTypeOK
  <1>4. NumFreeBlocks = NumBlocks
    BY <1>2, <1>3, KVAssumption DEF NumUsedBlocks
  <1>5. GrowthReserve = 0
    BY FS_EmptySet DEF GrowthReserve
  <1> QED
    BY <1>2, <1>4, <1>5

\* Whoever is under the watermark then has its budget.
LEMMA BudgetOfIdleCache ==
    ASSUME Inv, Active = {}, ThresholdNum < ThresholdDen,
           NEW n \in Nat \ {0}, BlocksForTokens(n) <= NumBlocks, BlocksForTokens(n) <= Watermark
    PROVE  HasPrefillBudget(n)
  <1> DEFINE needed == BlocksForTokens(n)
  <1>1. needed \in Nat \ {0}
    <2>1. n - 1 \in Nat /\ n + BlockSize - 1 = (n - 1) + BlockSize
          /\ BlockSize \in Nat \ {0}
      BY KVAssumption
    <2>2. ((n - 1) + BlockSize) \div BlockSize \in Nat \ {0}
      BY <2>1
    <2> QED
      BY <2>1, <2>2 DEF BlocksForTokens
  <1> HIDE DEF needed
  <1>2. NumBlocks \in Nat /\ needed <= NumBlocks /\ needed <= Watermark
    BY KVAssumption DEF needed
  <1>3. Watermark \in Nat /\ Watermark < NumBlocks
    BY <1>1, <1>2, WatermarkLeavesBlock
  <1>4. NumUsedBlocks = 0 /\ NumFreeBlocks = NumBlocks /\ GrowthReserve = 0
    BY IdleCache
  <1>5. NumUsedBlocks + needed <= Watermark /\ NumFreeBlocks >= needed
    BY <1>1, <1>2, <1>3, <1>4
  <1>6. NumFreeBlocks - needed >= GrowthReserve + (IF NeedsReserve(n) THEN 1 ELSE 0)
    BY <1>1, <1>2, <1>3, <1>4
  <1> QED
    BY <1>5, <1>6 DEF HasPrefillBudget, needed

\* On an idle cache the scan starts or rejects, it does not put back.
LEMMA IdleScanDefersNobody ==
    ASSUME SoundInv, IdleInv, ThresholdNum < ThresholdDen, Active = {},
           NEW s \in SeqIds, DeferPending(s)
    PROVE  FALSE
  <1>1. pc = "pending" /\ s \in Submitted
    BY PendingAtFacts DEF SoundInv, DeferPending
  <1>2. batch = {} /\ totalTokens = 0
    BY <1>1 DEF SoundInv, BatchInv, InPass, Current, IdleInv
  <1>3. HasRoom
    BY <1>2, FS_EmptySet, SchedulerAssumption DEF HasRoom
  <1>4. Prompt(s) \in Nat \ {0}
    BY <1>1, RequestTyped DEF SoundInv, Inv, CoreInv, CoreType
  <1>5. /\ ~TooLarge(s)
        /\ \/ ~FitsTokens(Prompt(s))
           \/ ~OverWatermark(s) /\ ~HasPrefillBudget(Prompt(s))
    BY <1>3 DEF DeferPending
  <1>6. FitsTokens(Prompt(s))
    BY <1>2, <1>4, <1>5, SchedulerAssumption DEF FitsTokens, TooLarge
  <1>7. BlocksForTokens(Prompt(s)) \in Nat
    BY <1>4, BlocksForTokensType
  <1>8. ~OverWatermark(s) => HasPrefillBudget(Prompt(s))
    <2>1. SUFFICES ASSUME ~OverWatermark(s) PROVE HasPrefillBudget(Prompt(s))
      OBVIOUS
    <2>2. BlocksForTokens(Prompt(s)) <= NumBlocks
      BY <1>5, <1>7, KVAssumption DEF TooLarge
    <2>3. NumBlocks > 0 => Watermark \in Nat
      BY WatermarkLeavesBlock
    <2>4. BlocksForTokens(Prompt(s)) <= Watermark
      BY <1>7, <2>1, <2>3, KVAssumption, SchedulerAssumption DEF OverWatermark, Watermark
    <2> QED
      BY <1>4, <2>2, <2>4, BudgetOfIdleCache DEF SoundInv
  <1> QED
    BY <1>5, <1>6, <1>8

\* The steps of the scan.
LEMMA ScanKeepsIdle ==
    ASSUME SoundInv, IdleInv, ThresholdNum < ThresholdDen, NEW s \in SeqIds,
           DeferPending(s) \/ RejectPending(s) \/ StartPrefill(s)
    PROVE  IdleInv'
  <1>1. pc = "pending" /\ pc' = "pending" /\ todo' = todo \ {s} /\ underPressure' = underPressure
    BY PendingAtFacts DEF SoundInv, DeferPending, RejectPending, StartPrefill, Drop, requestVars
  <1>2. CASE DeferPending(s)
    <2>1. Active # {}
      BY <1>2, IdleScanDefersNobody
    <2>2. UNCHANGED <<prefill, decode, batch, totalTokens>>
      BY <1>2 DEF DeferPending, requestVars
    <2> QED
      BY <1>1, <2>1, <2>2 DEF IdleInv, InPass, Active
  <1>3. CASE RejectPending(s)
    <2>1. pending' = pending \ {s} /\ UNCHANGED <<prefill, decode, batch, totalTokens>>
      BY <1>3 DEF RejectPending, Drop
    <2> QED
      BY <1>1, <2>1 DEF IdleInv, InPass, Active
  <1>4. CASE StartPrefill(s)
    <2>1. prefill' = prefill \cup {s} /\ batch' # {}
      BY <1>4, InBatchOfJoin DEF StartPrefill, Join
    <2> QED
      BY <2>1 DEF IdleInv, Active
  <1> QED
    BY <1>2, <1>3, <1>4

\* The steps before and after it.
LEMMA OthersKeepIdle ==
    ASSUME SoundInv, IdleInv, NEW s,
           \/ BeginSchedule \/ EndDecode \/ EndPrefill \/ EndSchedule
           \/ DecodeInPlace(s) \/ DecodeGrow(s) \/ DecodeOutOfBlocks(s) \/ ResumePrefill(s)
    PROVE  IdleInv'
  <1>1. CASE BeginSchedule \/ EndDecode \/ EndPrefill \/ EndSchedule
    BY <1>1 DEF BeginSchedule, EndDecode, EndPrefill, EndSchedule, IdleInv, InPass, requestVars
  <1>2. CASE DecodeInPlace(s) \/ DecodeGrow(s) \/ DecodeOutOfBlocks(s) \/ ResumePrefill(s)
    <2>1. pc \in {"decode", "prefill"} /\ pc' = pc
      BY <1>2 DEF DecodeInPlace, DecodeGrow, DecodeOutOfBlocks, DecodeAt, ResumePrefill
    <2>2. UNCHANGED <<batch, totalTokens>> \/ batch' # {}
      BY <1>2 DEF DecodeInPlace, DecodeGrow, DecodeOutOfBlocks, ResumePrefill, Join
    <2> QED
      BY <2>1, <2>2 DEF IdleInv, InPass
  <1> QED
    BY <1>1, <1>2

LEMMA IdleStep ==
    ASSUME ThresholdNum < ThresholdDen, SoundInv, IdleInv, [Next]_vars
    PROVE  IdleInv'
  <1>1. CASE Schedule
    BY <1>1, ScanKeepsIdle, OthersKeepIdle DEF Schedule
  <1>2. CASE Update \/ TakeCompleted \/ Call
    <2>1. pc' \notin {"decode", "prefill", "pending", "executing"}
      BY <1>2 DEF Update, UpdateSequences, ExecutionError, FailNext, CompleteNext, EndUpdate,
                  TakeCompleted, Call, AddRequest, CompleteByStopSequence, FailByRequestId,
                  FailPendingRequests, passVars
    <2> QED
      BY <2>1 DEF IdleInv, InPass
  <1>3. CASE UNCHANGED vars
    BY <1>3 DEF vars, requestVars, passVars, IdleInv, InPass, Active
  <1> QED
    BY <1>1, <1>2, <1>3 DEF Next, Step

\* With a threshold below one, whoever is put back waits for others: a scan
\* during which nothing is active starts or fails everybody
\* (src/scheduler.rs:263).  With a threshold of one it is not so.
THEOREM NobodyWaitsInVain ==
    ASSUME ~PartialOutputs, ThresholdNum < ThresholdDen
    PROVE  Spec => []DeferredMeansWaiting
  <1>1. IdleInv => DeferredMeansWaiting
    BY DEF IdleInv, DeferredMeansWaiting
  <1>2. Init => IdleInv
    BY DEF Init, IdleInv, InPass
  <1>3. (SoundInv /\ IdleInv) /\ [Next]_vars => (SoundInv /\ IdleInv)'
    BY SoundStep, IdleStep
  <1> QED
    BY <1>1, <1>2, <1>3, InitSound, PTL DEF Spec

-----------------------------------------------------------------------------
(* Who overtakes whom                                                      *)

\* There is room for the waiting s now.
Fits(s) == HasRoom /\ FitsTokens(Prompt(s)) /\ HasPrefillBudget(Prompt(s))

AsksForLess(s, t) ==
    \/ Prompt(t) > Prompt(s)
    \/ NeedsReserve(Prompt(t)) /\ ~NeedsReserve(Prompt(s))

\* What the scan has passed over did not fit and does not fit since, and who
\* was started before it, and ranks after it, asked for less.
ScanInv ==
    /\ pc = "prefill" => started = {}
    /\ pc = "pending" /\ underPressure => started = {} /\ todo = {}
    /\ pc = "pending" /\ ~underPressure => \A t \in pending \ todo : ~Fits(t)
    /\ pc \in {"pending", "executing"} =>
          \A s \in started, t \in pending : Before(t, s) => AsksForLess(s, t)

\* More tokens take no fewer blocks.
LEMMA BlocksGrow ==
    ASSUME NEW m \in Nat, NEW n \in Nat, m <= n
    PROVE  BlocksForTokens(m) <= BlocksForTokens(n)
  <1> DEFINE a == m + BlockSize - 1
             b == n + BlockSize - 1
             q == a \div BlockSize
             r == b \div BlockSize
  <1>1. a \in Nat /\ b \in Nat /\ a <= b /\ BlockSize \in Nat \ {0}
    BY KVAssumption
  <1> HIDE DEF a, b
  <1>2. q \in Nat /\ r \in Nat /\ q * BlockSize <= a /\ b < (r + 1) * BlockSize
    BY <1>1
  <1> HIDE DEF q, r
  <1>3. SUFFICES ASSUME q > r PROVE FALSE
    BY <1>2 DEF BlocksForTokens, a, b, q, r
  <1>4. q >= r + 1
    BY <1>2, <1>3
  <1>5. q * BlockSize >= (r + 1) * BlockSize
    BY <1>1, <1>2, <1>4
  <1>6. q * BlockSize \in Nat /\ (r + 1) * BlockSize \in Nat
    BY <1>1, <1>2
  <1> QED
    BY <1>1, <1>2, <1>5, <1>6

\* Only finitely many requests are submitted, so only as many are active.
LEMMA ActiveFinite ==
    ASSUME Inv
    PROVE  IsFiniteSet(Active)
  <1>1. Active \subseteq 1 .. Len(request) /\ Len(request) \in Nat
    BY LenProperties DEF Inv, CoreInv, CoreType, ExactlyOnePlace, Submitted
  <1>2. IsFiniteSet(1 .. Len(request))
    BY <1>1, FS_Interval
  <1> QED
    BY <1>1, <1>2, FS_Subset

LEMMA ReserveTyped ==
    ASSUME Inv
    PROVE  /\ NumFreeBlocks \in Nat /\ NumUsedBlocks \in Int /\ NumBlocks \in Nat
           /\ NumUsedBlocks = NumBlocks - NumFreeBlocks
           /\ GrowthReserve \in Nat /\ Watermark \in Int
  <1>1. NumFreeBlocks \in Nat
    BY LenProperties DEF NumFreeBlocks, Inv, CoreInv, KVInv, KVTypeOK
  <1>2. GrowthReserve \in Nat
    <2>1. IsFiniteSet({s \in Active : BlocksForTokens(ContextLen(s) + 2) > Len(logicalBlocks[s])})
      BY ActiveFinite, FS_Subset
    <2> QED
      BY <2>1, FS_CardinalityType DEF GrowthReserve
  <1> QED
    BY <1>1, <1>2, KVAssumption, SchedulerAssumption DEF NumUsedBlocks, Watermark

\* Who asks for no less than t, and fits, leaves room enough for t.
LEMMA SmallerFits ==
    ASSUME Inv, NEW s \in Submitted, NEW t \in Submitted, Fits(s), ~AsksForLess(s, t)
    PROVE  Fits(t)
  <1> DEFINE m == Prompt(t)
             n == Prompt(s)
             extra(p) == IF NeedsReserve(p) THEN 1 ELSE 0
  <1>1. m \in Nat /\ n \in Nat
    BY RequestTyped DEF Inv
  <1>2. m <= n /\ extra(m) <= extra(n)
    BY <1>1 DEF AsksForLess
  <1>3. FitsTokens(m)
    BY <1>1, <1>2, BatchCounts DEF Fits, FitsTokens
  <1>4. HasPrefillBudget(m)
    <2> DEFINE c == BlocksForTokens(m)
               d == BlocksForTokens(n)
    <2>1. c \in Nat /\ d \in Nat /\ c <= d
      BY <1>1, <1>2, BlocksForTokensType, BlocksGrow
    <2>2. /\ NumFreeBlocks \in Nat /\ NumUsedBlocks \in Int /\ GrowthReserve \in Nat
          /\ Watermark \in Int
      BY ReserveTyped
    <2>3. /\ NumUsedBlocks + d <= Watermark
          /\ (IF NumFreeBlocks >= d THEN NumFreeBlocks - d ELSE 0) >= GrowthReserve + extra(n)
      BY DEF Fits, HasPrefillBudget
    <2>4. extra(m) \in {0, 1} /\ extra(n) \in {0, 1}
      OBVIOUS
    <2> HIDE DEF c, d, extra, m, n
    <2>5. /\ NumUsedBlocks + c <= Watermark
          /\ (IF NumFreeBlocks >= c THEN NumFreeBlocks - c ELSE 0) >= GrowthReserve + extra(m)
      BY <1>2, <2>1, <2>2, <2>3, <2>4
    <2> QED
      BY <2>5 DEF HasPrefillBudget, c, extra
  <1> QED
    BY <1>3, <1>4 DEF Fits

LEMMA LeftIsMore ==
    ASSUME NEW f \in Nat, NEW g \in Nat, g <= f, NEW h \in Nat, NEW k \in Nat, h <= k,
           NEW c \in Nat, NEW extra \in {0, 1},
           (IF g >= c THEN g - c ELSE 0) >= k + extra
    PROVE  (IF f >= c THEN f - c ELSE 0) >= h + extra
  OBVIOUS

LEMMA UsedIsLess ==
    ASSUME NEW f \in Nat, NEW g \in Nat, g <= f, NEW n \in Nat, NEW c \in Nat,
           NEW w \in Int, (n - g) + c <= w
    PROVE  (n - f) + c <= w
  OBVIOUS

\* A prefill takes the blocks of its prompt.
LEMMA StartTakesBlocks ==
    ASSUME Inv, NEW s \in pending, StartPrefill(s)
    PROVE  NumFreeBlocks' \in Nat /\ NumFreeBlocks' = NumFreeBlocks - BlocksForTokens(Prompt(s))
  <1> DEFINE n == BlocksForTokens(Prompt(s))
  <1>1. AllocateSequence(s, Prompt(s)) /\ s \in Submitted
    BY DEF StartPrefill, Inv, CoreInv, ExactlyOnePlace
  <1>2. Prompt(s) \in Nat
    BY <1>1, RequestTyped DEF Inv
  <1>3. n \in Nat /\ freeList \in Seq(Blocks) /\ n <= Len(freeList)
    BY <1>1, <1>2, BlocksForTokensType
       DEF AllocateSequence, CanAllocate, NumFreeBlocks, Inv, CoreInv, KVInv, KVTypeOK
  <1>4. freeList' = SubSeq(freeList, n + 1, Len(freeList))
    BY <1>1 DEF AllocateSequence, NumFreeBlocks
  <1> HIDE DEF n
  <1>5. Len(freeList') = Len(freeList) - n /\ Len(freeList) \in Nat
    BY <1>3, <1>4, LenProperties
  <1> QED
    BY <1>3, <1>5 DEF NumFreeBlocks, n

\* Starting s leaves less of everything.
LEMMA StartLeavesLess ==
    ASSUME Inv, NEW s \in pending, StartPrefill(s), NEW t \in Submitted, Fits(t)'
    PROVE  Fits(t)
  <1>1. /\ Join(s, pageTables'[s], Prompt(s)) /\ AllocateSequence(s, Prompt(s))
        /\ UNCHANGED <<request, decode, generated>>
    BY DEF StartPrefill
  <1>2. s \in Submitted /\ s \in SeqIds /\ s \notin Active
    BY PlacesTyped DEF Inv, CoreInv, ExactlyOnePlace
  <1>3. /\ Prompt(s) \in Nat \ {0} /\ Prompt(t) \in Nat
        /\ Prompt(t)' = Prompt(t)
    BY <1>1, <1>2, RequestTyped DEF Inv, Prompt
  <1>4. IsFiniteSet(Active') /\ Active' = Active \cup {s}
    BY ActiveFinite, StartCore, FS_AddElement DEF Inv
  <1>5. HasRoom
    <2>1. batch \subseteq batch' /\ IsFiniteSet(batch')
      BY <1>1, BatchCounts, FS_AddElement DEF Join
    <2>2. /\ Cardinality(batch) \in Nat /\ Cardinality(batch') \in Nat
          /\ Cardinality(batch) <= Cardinality(batch')
      BY <2>1, BatchCounts, FS_Subset, FS_CardinalityType
    <2> QED
      BY <2>2, SchedulerAssumption DEF Fits, HasRoom
  <1>6. FitsTokens(Prompt(t))
    BY <1>1, <1>3, BatchCounts DEF Fits, FitsTokens, Join
  <1>7. NumFreeBlocks' \in Nat /\ NumFreeBlocks' <= NumFreeBlocks
    BY <1>3, StartTakesBlocks, BlocksForTokensType, ReserveTyped
  <1>8. GrowthReserve' \in Nat /\ GrowthReserve <= GrowthReserve'
    <2> DEFINE old == {u \in Active : BlocksForTokens(ContextLen(u) + 2) > Len(logicalBlocks[u])}
               new == {u \in Active' : BlocksForTokens(ContextLen(u)' + 2) > Len(logicalBlocks'[u])}
    <2>1. GrowthReserve = Cardinality(old) /\ GrowthReserve' = Cardinality(new)
      BY DEF GrowthReserve
    <2>2. \A u \in Active : ContextLen(u)' = ContextLen(u) /\ logicalBlocks'[u] = logicalBlocks[u]
      <3>1. \A u : ContextLen(u)' = ContextLen(u)
        BY <1>1 DEF ContextLen, Prompt
      <3>2. logicalBlocks' = [logicalBlocks EXCEPT ![s] = pageTables'[s]]
        BY DEF StartPrefill
      <3> QED
        BY <1>2, <3>1, <3>2, PlacesTyped DEF Inv, CoreInv, CoreType
    <2>3. old \subseteq new
      BY <1>4, <2>2
    <2>4. IsFiniteSet(new)
      BY <1>4, FS_Subset
    <2> QED
      BY <2>1, <2>3, <2>4, FS_Subset, FS_CardinalityType
  <1>9. HasPrefillBudget(Prompt(t))
    <2> DEFINE c == BlocksForTokens(Prompt(t))
               extra == IF NeedsReserve(Prompt(t)) THEN 1 ELSE 0
    <2>1. c \in Nat /\ extra \in {0, 1}
      BY <1>3, BlocksForTokensType
    <2>2. /\ NumFreeBlocks \in Nat /\ NumUsedBlocks \in Int /\ GrowthReserve \in Nat
          /\ Watermark \in Int /\ NumBlocks \in Nat
          /\ NumUsedBlocks = NumBlocks - NumFreeBlocks
      BY ReserveTyped
    <2>3. NumUsedBlocks' = NumBlocks - NumFreeBlocks'
      BY DEF NumUsedBlocks
    <2>4. /\ NumUsedBlocks' + c <= Watermark
          /\ (IF NumFreeBlocks' >= c THEN NumFreeBlocks' - c ELSE 0) >= GrowthReserve' + extra
      BY <1>3 DEF Fits, HasPrefillBudget, NeedsReserve, Watermark
    <2> HIDE DEF c, extra
    <2>5. NumUsedBlocks + c <= Watermark
      BY <1>7, <2>1, <2>2, <2>3, <2>4, UsedIsLess
    <2>6. (IF NumFreeBlocks >= c THEN NumFreeBlocks - c ELSE 0) >= GrowthReserve + extra
      BY <1>7, <1>8, <2>1, <2>2, <2>4, LeftIsMore
    <2> QED
      BY <2>5, <2>6 DEF HasPrefillBudget, c, extra
  <1> QED
    BY <1>5, <1>6, <1>9 DEF Fits

\* The scan starts s: nobody who waits, was passed over and ranks before s
\* asked for no more than s.
LEMMA StartKeepsScan ==
    ASSUME Inv, ScanInv, NEW s \in SeqIds, StartPrefill(s)
    PROVE  ScanInv'
  <1>1. /\ pc = "pending" /\ pc' = "pending" /\ s \in pending /\ s \in Submitted
        /\ s \in todo /\ todo' = todo \ {s}
    BY PendingAtFacts DEF StartPrefill, PendingAt, First
  <1>2. /\ pending' = pending \ {s} /\ started' = started \cup {s}
        /\ request' = request /\ underPressure' = underPressure
    BY DEF StartPrefill
  <1>3. ~underPressure
    BY <1>1 DEF ScanInv
  <1>4. pending \subseteq Submitted
    BY DEF Inv, CoreInv, ExactlyOnePlace
  <1>5. \A t \in pending' \ todo' : ~Fits(t)'
    <2>1. ASSUME NEW t \in pending', t \notin todo', Fits(t)' PROVE FALSE
      <3>1. t \in pending /\ t \notin todo /\ t \in Submitted
        BY <1>1, <1>2, <1>4, <2>1
      <3>2. Fits(t)
        BY <1>1, <2>1, <3>1, StartLeavesLess
      <3> QED
        BY <1>1, <1>3, <3>1, <3>2 DEF ScanInv
    <2> QED
      BY <2>1
  <1>6. ASSUME NEW t \in pending', Before(t, s) PROVE AsksForLess(s, t)
    <2>1. t \in pending /\ t # s /\ t \in Submitted
      BY <1>2, <1>4
    <2>2. t \notin todo
      <3>1. SUFFICES ASSUME t \in todo PROVE FALSE
        OBVIOUS
      <3>2. Before(s, t)
        BY <2>1, <3>1 DEF StartPrefill, PendingAt, First
      <3>3. /\ request[s].priority \in Int /\ request[t].priority \in Int
            /\ s \in Nat /\ t \in Nat
        BY <1>1, <2>1, RequestTyped, LenProperties DEF Inv, CoreInv, CoreType, Submitted
      <3> QED
        BY <1>6, <3>2, <3>3 DEF Before
    <2>3. ~Fits(t)
      BY <1>1, <1>3, <2>1, <2>2 DEF ScanInv
    <2>4. Fits(s)
      BY DEF StartPrefill, Fits
    <2> QED
      BY <1>1, <2>1, <2>3, <2>4, SmallerFits
  <1>7. \A a \in started', t \in pending' : Before(t, a)' => AsksForLess(a, t)'
    <2>1. \A a, t : (Before(t, a)' <=> Before(t, a)) /\ (AsksForLess(a, t)' <=> AsksForLess(a, t))
      BY <1>2 DEF Before, AsksForLess, Prompt, NeedsReserve
    <2>2. \A a \in started, t \in pending : Before(t, a) => AsksForLess(a, t)
      BY <1>1 DEF ScanInv
    <2> QED
      BY <1>2, <1>6, <2>1, <2>2
  <1> QED
    BY <1>1, <1>2, <1>3, <1>5, <1>7 DEF ScanInv

\* The other steps of the scan, and those that lead to it.
LEMMA PassKeepsScan ==
    ASSUME Inv, ScanInv, NEW s,
           \/ EndDecode \/ ResumePrefill(s) \/ EndPrefill
           \/ DeferPending(s) \/ RejectPending(s) \/ EndSchedule
    PROVE  ScanInv'
  <1>1. CASE EndDecode
    BY <1>1 DEF EndDecode, ScanInv
  <1>2. CASE ResumePrefill(s)
    BY <1>2 DEF ResumePrefill, ScanInv
  <1>3. CASE EndPrefill
    <2>1. /\ pc = "prefill" /\ pc' = "pending" /\ started' = {}
          /\ todo' = IF underPressure THEN {} ELSE pending
          /\ UNCHANGED <<pending, underPressure>>
      BY <1>3 DEF EndPrefill, ScanInv, requestVars
    <2> QED
      BY <2>1 DEF ScanInv
  <1>4. CASE DeferPending(s) \/ RejectPending(s)
    <2>1. /\ pc = "pending" /\ pc' = "pending" /\ s \in todo /\ todo' = todo \ {s}
          /\ UNCHANGED <<kvVars, request, prefill, decode, logicalBlocks, generated, batch,
                         totalTokens, started, underPressure>>
          /\ pending' \subseteq pending
      BY <1>4 DEF DeferPending, RejectPending, PendingAt, First, Drop, requestVars
    <2>2. \A t : Fits(t)' <=> Fits(t)
      BY <2>1 DEF Fits, HasRoom, FitsTokens, HasPrefillBudget, NeedsReserve, GrowthReserve,
                  Watermark, NumUsedBlocks, NumFreeBlocks, Prompt, ContextLen, Active, kvVars
    <2>3. s \in pending' => ~Fits(s)
      <3>1. CASE RejectPending(s)
        BY <3>1 DEF RejectPending, Drop
      <3>2. CASE DeferPending(s)
        BY <3>2 DEF DeferPending, Fits
      <3> QED
        BY <1>4, <3>1, <3>2
    <2>4. ~underPressure' => \A t \in pending' \ todo' : ~Fits(t)'
      BY <2>1, <2>2, <2>3 DEF ScanInv
    <2>5. \A a, t : (Before(t, a)' <=> Before(t, a)) /\ (AsksForLess(a, t)' <=> AsksForLess(a, t))
      BY <2>1 DEF Before, AsksForLess, Prompt, NeedsReserve
    <2> QED
      BY <2>1, <2>4, <2>5 DEF ScanInv
  <1>5. CASE EndSchedule
    <2>1. pc = "pending" /\ pc' \notin {"prefill", "pending"}
          /\ UNCHANGED <<request, pending, started>>
      BY <1>5 DEF EndSchedule, requestVars
    <2>2. \A a, t : (Before(t, a)' <=> Before(t, a)) /\ (AsksForLess(a, t)' <=> AsksForLess(a, t))
      BY <2>1 DEF Before, AsksForLess, Prompt, NeedsReserve
    <2> QED
      BY <2>1, <2>2 DEF ScanInv
  <1> QED
    BY <1>1, <1>2, <1>3, <1>4, <1>5

LEMMA ScanStep ==
    ASSUME Inv, ScanInv, [Next]_vars
    PROVE  ScanInv'
  <1>1. CASE Schedule
    <2>1. ASSUME NEW s,
                 BeginSchedule \/ DecodeInPlace(s) \/ DecodeGrow(s) \/ DecodeOutOfBlocks(s)
          PROVE  ScanInv'
      <3>1. pc' = "decode"
        BY <2>1 DEF BeginSchedule, DecodeInPlace, DecodeGrow, DecodeOutOfBlocks, DecodeAt
      <3> QED
        BY <3>1 DEF ScanInv
    <2> QED
      BY <1>1, <2>1, PassKeepsScan, StartKeepsScan DEF Schedule
  <1>2. CASE Update \/ TakeCompleted \/ Call
    <2>1. pc' \notin {"prefill", "pending", "executing"}
      BY <1>2 DEF Update, UpdateSequences, ExecutionError, FailNext, CompleteNext, EndUpdate,
                  TakeCompleted, Call, AddRequest, CompleteByStopSequence, FailByRequestId,
                  FailPendingRequests, passVars
    <2> QED
      BY <2>1 DEF ScanInv
  <1>3. CASE UNCHANGED vars
    <2>1. UNCHANGED <<kvVars, requestVars, passVars>>
      BY <1>3 DEF vars
    <2> QED
      BY <2>1 DEF kvVars, requestVars, passVars, ScanInv, Fits, HasRoom, FitsTokens,
                  HasPrefillBudget, NeedsReserve, GrowthReserve, Watermark, NumUsedBlocks,
                  NumFreeBlocks, Prompt, ContextLen, Active, Before, AsksForLess
  <1> QED
    BY <1>1, <1>2, <1>3 DEF Next, Step

\* The single scan of schedule() is fair up to size: whoever is overtaken asks
\* for more tokens than the one that overtakes it, or for a growth block the
\* other does without; for every configuration, whatever the executor returns.
THEOREM OvertakenBySmaller == Spec => []OvertakenOnlyByLess
  <1>1. ScanInv => OvertakenOnlyByLess
    BY DEF ScanInv, OvertakenOnlyByLess, AsksForLess
  <1>2. Init => ScanInv
    BY DEF Init, ScanInv
  <1>3. (Inv /\ ScanInv) /\ [Next]_vars => (Inv /\ ScanInv)'
    BY NextStep, ScanStep
  <1> QED
    BY <1>1, <1>2, <1>3, InitInv, PTL DEF Spec

-----------------------------------------------------------------------------
(* The growth reserve                                                      *)

\* There is a block for each sequence of S that needs one for its next token.
Covered(S) == Cardinality({s \in S : NeedsBlock(s)}) <= NumFreeBlocks

\* A pass that started a prefill leaves blocks for the growth of the next one,
\* and until then blocks only come back: at each point for those that are
\* still to decode in it.
ReserveInv ==
    /\ pc # "finishing" => toFail = {}
    /\ pc = "prefill" => started = {}
    /\ started # {} =>
          /\ pc \in {"pending", "executing"} => GrowthReserve <= NumFreeBlocks
          /\ pc \in {"finishing", "collecting", "idle"} => Covered(Active \ toFail)
          /\ pc = "decode" => Covered(todo)

\* Fewer sequences, none with a new need, and no fewer blocks.
LEMMA CoveredStays ==
    ASSUME Inv, NEW S, IsFiniteSet(S), Covered(S), NEW T, T \subseteq S,
           \A t \in T : NeedsBlock(t)' => NeedsBlock(t),
           NumFreeBlocks' \in Nat, NumFreeBlocks' >= NumFreeBlocks
    PROVE  Cardinality({t \in T : NeedsBlock(t)'}) <= NumFreeBlocks'
  <1> DEFINE old == {s \in S : NeedsBlock(s)}
             new == {t \in T : NeedsBlock(t)'}
  <1>1. new \subseteq old /\ IsFiniteSet(old)
    BY FS_Subset
  <1>2. Cardinality(new) <= Cardinality(old) /\ Cardinality(new) \in Nat /\ Cardinality(old) \in Nat
    BY <1>1, FS_Subset, FS_CardinalityType
  <1>3. Cardinality(old) <= NumFreeBlocks
    BY DEF Covered
  <1> HIDE DEF old
  <1> QED
    BY <1>2, <1>3, ReserveTyped

\* Where the blocks of the sequence and its length are the same, so is its need.
LEMMA NeedStays ==
    ASSUME NEW t, request'[t] = request[t], generated'[t] = generated[t],
           logicalBlocks'[t] = logicalBlocks[t]
    PROVE  NeedsBlock(t)' <=> NeedsBlock(t)
  BY DEF NeedsBlock, ContextLen, Prompt

\* A sequence that ends gives its blocks back and changes no other's need.
LEMMA RetireGivesBack ==
    ASSUME Inv, NEW s \in Active, NEW outcome \in Outcomes, Retire(s, outcome)
    PROVE  /\ Active' = Active \ {s}
           /\ \A t \in Active' : NeedsBlock(t)' <=> NeedsBlock(t)
           /\ NumFreeBlocks' \in Nat /\ NumFreeBlocks' >= NumFreeBlocks
  <1>1. Active' = Active \ {s}
    BY RetireCore DEF Inv
  <1>2. \A t \in Active' : NeedsBlock(t)' <=> NeedsBlock(t)
    <2>1. ASSUME NEW t \in Active' PROVE NeedsBlock(t)' <=> NeedsBlock(t)
      <3>1. t \in SeqIds /\ t # s
        BY <1>1, PlacesTyped DEF Inv
      <3>2. /\ request' = request
            /\ logicalBlocks'[t] = logicalBlocks[t] /\ generated'[t] = generated[t]
        BY <3>1 DEF Retire, Inv, CoreInv, CoreType
      <3> QED
        BY <3>2, NeedStays
    <2> QED
      BY <2>1
  <1>3. NumFreeBlocks' \in Nat /\ NumFreeBlocks' >= NumFreeBlocks
    <2> DEFINE table == pageTables[s]
    <2>1. s \in Live /\ freeList' = freeList \o Released(table)
      BY DEF Retire, FreeSequence
    <2>2. table \in Seq(Blocks) /\ \A b \in Range(table) : refCount[b] = 1
      BY <2>1, RangeOfSeq DEF Inv, CoreInv, KVInv, KVTypeOK, OwnedOnce
    <2>3. Released(table) = table
      BY <2>2 DEF Released, Range
    <2> HIDE DEF table
    <2>4. freeList \in Seq(Blocks) /\ freeList' = freeList \o table
      BY <2>1, <2>3 DEF Inv, CoreInv, KVInv, KVTypeOK
    <2>5. /\ Len(freeList') = Len(freeList) + Len(table)
          /\ Len(freeList) \in Nat /\ Len(table) \in Nat
      BY <2>2, <2>4, ConcatProperties, LenProperties
    <2> QED
      BY <2>5 DEF NumFreeBlocks
  <1> QED
    BY <1>1, <1>2, <1>3

LEMMA FailSequenceGivesBack ==
    ASSUME Inv, NEW s, NEW outcome \in Outcomes, FailSequence(s, outcome)
    PROVE  /\ Active' = Active \ {s}
           /\ \A t \in Active' : NeedsBlock(t)' <=> NeedsBlock(t)
           /\ NumFreeBlocks' \in Nat /\ NumFreeBlocks' >= NumFreeBlocks
  <1>1. CASE s \in Active /\ Retire(s, outcome)
    BY <1>1, RetireGivesBack
  <1>2. CASE s \notin Active /\ UNCHANGED <<kvVars, request, prefill, decode, logicalBlocks, generated>>
    <2>1. Active' = Active /\ NumFreeBlocks' = NumFreeBlocks
      BY <1>2 DEF Active, NumFreeBlocks, kvVars
    <2>2. \A t : NeedsBlock(t)' <=> NeedsBlock(t)
      BY <1>2, NeedStays
    <2> QED
      BY <1>2, <2>1, <2>2, ReserveTyped
  <1>3. s \in pending => s \notin Active
    BY DEF Inv, CoreInv, ExactlyOnePlace
  <1> QED
    BY <1>1, <1>2, <1>3 DEF FailSequence, Drop, requestVars

\* The budget of a prefill covers its own growth too.
LEMMA StartCovers ==
    ASSUME SoundInv, NEW s \in pending, StartPrefill(s)
    PROVE  GrowthReserve' <= NumFreeBlocks'
  <1> DEFINE n == Prompt(s)
             old == {u \in Active : BlocksForTokens(ContextLen(u) + 2) > Len(logicalBlocks[u])}
             new == {u \in Active' : BlocksForTokens(ContextLen(u)' + 2) > Len(logicalBlocks'[u])}
             extra == IF NeedsReserve(n) THEN 1 ELSE 0
  <1>0. Inv
    BY DEF SoundInv
  <1>1. /\ s \in Submitted /\ s \in SeqIds /\ s \notin Active /\ n \in Nat
        /\ UNCHANGED <<request, generated>>
        /\ logicalBlocks' = [logicalBlocks EXCEPT ![s] = pageTables'[s]]
    <2>1. s \in Submitted /\ s \in SeqIds /\ s \notin Active
      BY <1>0, PlacesTyped DEF Inv, CoreInv, ExactlyOnePlace
    <2> QED
      BY <1>0, <2>1, RequestTyped DEF StartPrefill, Inv
  <1>2. Active' = Active \cup {s} /\ Len(pageTables'[s]) = BlocksForTokens(n)
    BY <1>0, StartCore DEF Inv
  <1>3. \A u : ContextLen(u)' = ContextLen(u)
    BY <1>1 DEF ContextLen, Prompt
  <1>4. \A u \in Active : logicalBlocks'[u] = logicalBlocks[u]
    BY <1>0, <1>1, PlacesTyped DEF Inv, CoreInv, CoreType
  <1>5. s \in new => NeedsReserve(n)
    <2>1. logicalBlocks'[s] = pageTables'[s]
      BY <1>0, <1>1 DEF Inv, CoreInv, CoreType
    <2>2. generated[s] = 0
      BY <1>1 DEF SoundInv, SizeInv, Active
    <2>3. ContextLen(s)' = n
      BY <1>1, <1>3, <2>2 DEF ContextLen
    <2> QED
      BY <1>2, <2>1, <2>3 DEF NeedsReserve
  <1>6. Cardinality(new) <= Cardinality(old) + extra /\ Cardinality(new) \in Nat
    <2>1. IsFiniteSet(old) /\ Cardinality(old) \in Nat
      BY <1>0, ActiveFinite, FS_Subset, FS_CardinalityType
    <2>2. CASE NeedsReserve(n)
      <3>1. new \subseteq old \cup {s}
        BY <1>2, <1>3, <1>4
      <3>2. /\ IsFiniteSet(old \cup {s})
            /\ Cardinality(old \cup {s}) \in {Cardinality(old), Cardinality(old) + 1}
        BY <2>1, FS_AddElement
      <3> HIDE DEF old, new
      <3>3. IsFiniteSet(new) /\ Cardinality(new) <= Cardinality(old \cup {s})
        BY <3>1, <3>2, FS_Subset
      <3>4. Cardinality(new) \in Nat
        BY <3>3, FS_CardinalityType
      <3> QED
        BY <2>1, <2>2, <3>2, <3>3, <3>4
    <2>3. CASE ~NeedsReserve(n)
      <3>1. new \subseteq old
        BY <1>2, <1>3, <1>4, <1>5, <2>3
      <3> HIDE DEF old, new
      <3>2. IsFiniteSet(new) /\ Cardinality(new) <= Cardinality(old)
        BY <2>1, <3>1, FS_Subset
      <3>3. Cardinality(new) \in Nat
        BY <3>2, FS_CardinalityType
      <3> QED
        BY <2>1, <2>3, <3>2, <3>3
    <2> QED
      BY <2>2, <2>3
  <1>7. GrowthReserve = Cardinality(old) /\ GrowthReserve' = Cardinality(new)
    BY DEF GrowthReserve
  <1>8. NumFreeBlocks' >= GrowthReserve + extra
    <2> DEFINE c == BlocksForTokens(n)
    <2>1. c \in Nat /\ NumFreeBlocks \in Nat /\ GrowthReserve \in Nat
      BY <1>0, <1>1, BlocksForTokensType, ReserveTyped
    <2>2. NumFreeBlocks' \in Nat /\ NumFreeBlocks' = NumFreeBlocks - c
      BY <1>0, StartTakesBlocks
    <2>3. (IF NumFreeBlocks >= c THEN NumFreeBlocks - c ELSE 0) >= GrowthReserve + extra
      BY DEF StartPrefill, HasPrefillBudget
    <2> HIDE DEF c, extra
    <2> QED
      BY <2>1, <2>2, <2>3
  <1> HIDE DEF old, new
  <1>9. extra \in {0, 1} /\ NumFreeBlocks' \in Nat /\ Cardinality(old) \in Nat
    BY <1>0, <1>7, StartTakesBlocks, ReserveTyped
  <1> HIDE DEF extra
  <1> QED
    BY <1>6, <1>7, <1>8, <1>9

\* The first loop of the next pass.
LEMMA DecodeKeepsReserve ==
    ASSUME SoundInv, ReserveInv, NEW s \in SeqIds,
           DecodeInPlace(s) \/ DecodeGrow(s) \/ DecodeOutOfBlocks(s)
    PROVE  ReserveInv'
  <1>1. Inv /\ DecodeAt(s)
    BY DEF SoundInv, DecodeInPlace, DecodeGrow, DecodeOutOfBlocks
  <1>2. /\ pc = "decode" /\ pc' = "decode" /\ s \in todo /\ todo' = todo \ {s}
        /\ todo \subseteq Active /\ s \in Active
        /\ started' = started /\ toFail' = {}
    BY <1>1, DecodeAtFacts DEF DecodeAt, First, Active, ReserveInv
  <1>3. IsFiniteSet(todo)
    BY <1>1, <1>2, ActiveFinite, FS_Subset
  <1>4. SUFFICES ASSUME Covered(todo)
                 PROVE  Cardinality({t \in todo' : NeedsBlock(t)'}) <= NumFreeBlocks'
    BY <1>2 DEF ReserveInv, Covered
  <1>5. CASE DecodeInPlace(s)
    <2>1. UNCHANGED <<kvVars, request, generated, logicalBlocks>>
      BY <1>5 DEF DecodeInPlace, requestVars
    <2>2. NumFreeBlocks' = NumFreeBlocks /\ NumFreeBlocks \in Nat
      BY <1>1, <2>1, ReserveTyped DEF NumFreeBlocks, kvVars
    <2>3. \A t : NeedsBlock(t)' <=> NeedsBlock(t)
      BY <2>1, NeedStays
    <2> QED
      BY <1>1, <1>2, <1>3, <1>4, <2>2, <2>3, CoveredStays
  <1>6. CASE DecodeGrow(s)
    <2> DEFINE old == {t \in todo : NeedsBlock(t)}
               new == {t \in todo' : NeedsBlock(t)'}
    <2>1. /\ NeedsBlock(s) /\ AllocateBlock(s) /\ UNCHANGED <<request, generated>>
          /\ logicalBlocks' = [logicalBlocks EXCEPT ![s] = Append(logicalBlocks[s], Head(freeList))]
      BY <1>6 DEF DecodeGrow
    <2>2. \A t \in todo' : NeedsBlock(t)' <=> NeedsBlock(t)
      <3>1. \A t \in todo' : t # s /\ t \in SeqIds
        BY <1>1, <1>2, PlacesTyped DEF Inv
      <3>2. \A t \in todo' : logicalBlocks'[t] = logicalBlocks[t]
        BY <1>1, <2>1, <3>1 DEF Inv, CoreInv, CoreType
      <3> QED
        BY <2>1, <3>2, NeedStays
    <2>3. s \in old /\ new = old \ {s}
      BY <1>2, <2>1, <2>2
    <2>4. IsFiniteSet(old)
      BY <1>3, FS_Subset
    <2>5. NumFreeBlocks' = NumFreeBlocks - 1 /\ NumFreeBlocks \in Nat
      <3>1. freeList \in Seq(Blocks) /\ freeList # <<>> /\ freeList' = Tail(freeList)
        BY <1>1, <2>1, LenProperties
           DEF AllocateBlock, CanAllocate, NumFreeBlocks, Inv, CoreInv, KVInv, KVTypeOK
      <3>2. Len(freeList') = Len(freeList) - 1 /\ Len(freeList) \in Nat
        BY <3>1, HeadTailProperties, LenProperties
      <3> QED
        BY <3>2 DEF NumFreeBlocks
    <2>6. Cardinality(old) <= NumFreeBlocks
      BY <1>4 DEF Covered
    <2> HIDE DEF old, new
    <2>7. Cardinality(new) = Cardinality(old) - 1 /\ Cardinality(old) \in Nat
      BY <2>3, <2>4, FS_RemoveElement, FS_CardinalityType
    <2>8. Cardinality(new) <= NumFreeBlocks'
      BY <2>5, <2>6, <2>7
    <2> QED
      BY <2>8 DEF new
  <1>7. CASE DecodeOutOfBlocks(s)
    <2>1. Retire(s, "outOfBlocks")
      BY <1>7 DEF DecodeOutOfBlocks
    <2>2. /\ Active' = Active \ {s} /\ \A t \in Active' : NeedsBlock(t)' <=> NeedsBlock(t)
          /\ NumFreeBlocks' \in Nat /\ NumFreeBlocks' >= NumFreeBlocks
      BY <1>1, <1>2, <2>1, RetireGivesBack DEF Outcomes
    <2> QED
      BY <1>1, <1>2, <1>3, <1>4, <2>2, CoveredStays
  <1> QED
    BY <1>5, <1>6, <1>7

\* The rest of the pass.
LEMMA PassKeepsReserve ==
    ASSUME SoundInv, FairInv, ReserveInv, NEW s,
           \/ BeginSchedule \/ EndDecode \/ ResumePrefill(s) \/ EndPrefill
           \/ DeferPending(s) \/ RejectPending(s) \/ EndSchedule
    PROVE  ReserveInv'
  <1>1. CASE BeginSchedule
    <2>1. /\ pc = "idle" /\ pc' = "decode" /\ todo' = decode /\ prefill = {} /\ toFail = {}
          /\ UNCHANGED <<kvVars, request, generated, logicalBlocks, started, toFail>>
      BY <1>1 DEF BeginSchedule, FairInv, ReserveInv, updateVars
    <2>2. todo' = Active \ toFail
      BY <2>1 DEF Active
    <2>3. \A t : NeedsBlock(t)' <=> NeedsBlock(t)
      BY <2>1, NeedStays
    <2>4. NumFreeBlocks' = NumFreeBlocks
      BY <2>1 DEF NumFreeBlocks, kvVars
    <2>5. Covered(Active \ toFail) => Covered(todo)'
      BY <2>2, <2>3, <2>4 DEF Covered
    <2> QED
      BY <2>1, <2>5 DEF ReserveInv
  <1>2. CASE EndDecode
    BY <1>2 DEF EndDecode, ReserveInv, updateVars
  <1>3. CASE ResumePrefill(s)
    BY <1>3 DEF ResumePrefill, ReserveInv, updateVars
  <1>4. CASE EndPrefill
    BY <1>4 DEF EndPrefill, ReserveInv, updateVars
  <1>5. CASE DeferPending(s) \/ RejectPending(s)
    <2>1. /\ pc = "pending" /\ pc' = "pending"
          /\ UNCHANGED <<kvVars, request, prefill, decode, generated, logicalBlocks, started, toFail>>
      BY <1>5 DEF DeferPending, RejectPending, PendingAt, Drop, requestVars, updateVars
    <2>2. GrowthReserve' = GrowthReserve /\ NumFreeBlocks' = NumFreeBlocks
      BY <2>1 DEF GrowthReserve, NumFreeBlocks, kvVars, ContextLen, Prompt, Active
    <2> QED
      BY <2>1, <2>2 DEF ReserveInv
  <1>6. CASE EndSchedule
    <2>1. /\ pc = "pending" /\ pc' = IF batch = {} THEN "collecting" ELSE "executing"
          /\ UNCHANGED <<kvVars, request, prefill, decode, generated, logicalBlocks, started,
                         toFail, batch>>
      BY <1>6 DEF EndSchedule, requestVars, updateVars
    <2>2. GrowthReserve' = GrowthReserve /\ NumFreeBlocks' = NumFreeBlocks
      BY <2>1 DEF GrowthReserve, NumFreeBlocks, kvVars, ContextLen, Prompt, Active
    <2>3. batch = {} => Covered(Active \ toFail)'
      <3>1. SUFFICES ASSUME batch = {} PROVE Covered(Active \ toFail)'
        OBVIOUS
      <3>2. Active' = {}
        BY <2>1, <3>1 DEF FairInv, InBatch, Active
      <3>3. {t \in (Active \ toFail)' : NeedsBlock(t)'} = {}
        BY <3>2
      <3>4. NumFreeBlocks' \in Nat
        BY <2>2, ReserveTyped DEF SoundInv
      <3> QED
        BY <3>3, <3>4, FS_EmptySet DEF Covered
    <2> QED
      BY <2>1, <2>2, <2>3 DEF ReserveInv
  <1> QED
    BY <1>1, <1>2, <1>3, <1>4, <1>5, <1>6

\* A token for each active sequence makes the reserve of the next pass a need
\* of this one; a failed execution leaves nobody with a need.
LEMMA ExecutionKeepsReserve ==
    ASSUME SoundInv, FairInv, ReserveInv, ~PartialOutputs, NEW output \in Outputs,
           UpdateSequences(output) \/ ExecutionError
    PROVE  ReserveInv'
  <1>1. /\ pc = "executing" /\ pc' = "finishing" /\ Active = InBatch
        /\ UNCHANGED <<kvVars, request, logicalBlocks, started>>
    BY DEF UpdateSequences, ExecutionError, FairInv, requestVars
  <1>2. NumFreeBlocks' = NumFreeBlocks /\ NumFreeBlocks \in Nat
    BY <1>1, ReserveTyped DEF NumFreeBlocks, kvVars, SoundInv
  <1>3. SUFFICES ASSUME GrowthReserve <= NumFreeBlocks
                 PROVE  Cardinality({t \in (Active \ toFail)' : NeedsBlock(t)'}) <= NumFreeBlocks'
    BY <1>1 DEF ReserveInv, Covered
  <1>4. CASE UpdateSequences(output)
    <2> DEFINE advanced == {t \in DOMAIN output \cap Active : output[t] # "missing"}
    <2>1. DOMAIN output = Active /\ \A t \in Active : output[t] # "missing"
      BY <1>1 DEF Outputs
    <2>2. advanced = Active
      BY <2>1
    <2>3. /\ prefill' = prefill \ advanced /\ decode' = decode \cup advanced
          /\ generated' = [t \in SeqIds |-> generated[t] + (IF t \in advanced THEN 1 ELSE 0)]
          /\ toFail' = DOMAIN output \ advanced
      BY <1>4 DEF UpdateSequences
    <2> HIDE DEF advanced
    <2>4. Active' = Active /\ toFail' = {}
      BY <2>1, <2>2, <2>3 DEF Active
    <2>5. ASSUME NEW t \in Active
          PROVE  NeedsBlock(t)' <=> BlocksForTokens(ContextLen(t) + 2) > Len(logicalBlocks[t])
      <3>1. t \in SeqIds /\ generated[t] \in Nat /\ Prompt(t) \in Nat
        BY ActiveSizes DEF SoundInv
      <3>2. generated'[t] = generated[t] + 1 /\ Prompt(t)' = Prompt(t)
        BY <1>1, <2>2, <2>3, <3>1 DEF Prompt
      <3>3. ContextLen(t)' + 1 = ContextLen(t) + 2
        BY <3>1, <3>2 DEF ContextLen
      <3> QED
        BY <1>1, <3>3 DEF NeedsBlock
    <2>6. {t \in (Active \ toFail)' : NeedsBlock(t)'}
            = {t \in Active : BlocksForTokens(ContextLen(t) + 2) > Len(logicalBlocks[t])}
      BY <2>4, <2>5
    <2> QED
      BY <1>2, <1>3, <2>6 DEF GrowthReserve
  <1>5. CASE ExecutionError
    <2>1. Active' = Active /\ toFail' = Active
      BY <1>1, <1>5 DEF ExecutionError, requestVars, Active
    <2>2. {t \in (Active \ toFail)' : NeedsBlock(t)'} = {}
      BY <2>1
    <2> QED
      BY <1>2, <2>2, FS_EmptySet
  <1> QED
    BY <1>4, <1>5

\* Between two passes sequences only leave.
LEMMA LeavingKeepsReserve ==
    ASSUME SoundInv, ReserveInv, NEW left, NEW failed, Active' = Active \ left,
           toFail' = toFail \ failed, failed \subseteq left,
           \A t \in Active' : NeedsBlock(t)' <=> NeedsBlock(t),
           NumFreeBlocks' \in Nat, NumFreeBlocks' >= NumFreeBlocks,
           pc \in {"finishing", "collecting", "idle"}, pc' \in {"finishing", "collecting", "idle"},
           pc' # "finishing" => toFail' = {}, started' = started
    PROVE  ReserveInv'
  <1>1. Inv /\ IsFiniteSet(Active \ toFail)
    BY ActiveFinite, FS_Subset DEF SoundInv
  <1>2. /\ (Active \ toFail)' \subseteq Active \ toFail
        /\ \A t \in (Active \ toFail)' : NeedsBlock(t)' => NeedsBlock(t)
    OBVIOUS
  <1>3. Covered(Active \ toFail) =>
            Cardinality({t \in (Active \ toFail)' : NeedsBlock(t)'}) <= NumFreeBlocks'
    BY <1>1, <1>2, CoveredStays
  <1>4. Covered(Active \ toFail) => Covered(Active \ toFail)'
    BY <1>3 DEF Covered
  <1> QED
    BY <1>4 DEF ReserveInv

LEMMA OthersKeepReserve ==
    ASSUME SoundInv, ReserveInv, NEW s, NEW r,
           \/ FailNext(s) \/ CompleteNext(s) \/ EndUpdate \/ TakeCompleted
           \/ AddRequest(r)
           \/ CompleteByStopSequence(s) \/ FailByRequestId(s) \/ FailPendingRequests
    PROVE  ReserveInv'
  <1>0. Inv
    BY DEF SoundInv
  <1>1. CASE FailNext(s)
    <2>1. /\ pc = "finishing" /\ pc' = pc /\ toFail' = toFail \ {s} /\ started' = started
          /\ FailSequence(s, "execution")
      BY <1>1 DEF FailNext, passVars
    <2>2. /\ Active' = Active \ {s} /\ \A t \in Active' : NeedsBlock(t)' <=> NeedsBlock(t)
          /\ NumFreeBlocks' \in Nat /\ NumFreeBlocks' >= NumFreeBlocks
      BY <1>0, <2>1, FailSequenceGivesBack DEF Outcomes
    <2> QED
      BY <2>1, <2>2, LeavingKeepsReserve
  <1>2. ASSUME NEW outcome \in Outcomes, FailSequence(s, outcome),
               pc \in {"finishing", "collecting", "idle"}, UNCHANGED <<pc, started, toFail>>
        PROVE  ReserveInv'
    <2>1. /\ Active' = Active \ {s} /\ \A t \in Active' : NeedsBlock(t)' <=> NeedsBlock(t)
          /\ NumFreeBlocks' \in Nat /\ NumFreeBlocks' >= NumFreeBlocks
      BY <1>0, <1>2, FailSequenceGivesBack
    <2>2. toFail' = toFail \ {} /\ {} \subseteq {s} /\ (pc' # "finishing" => toFail' = {})
      BY <1>2 DEF ReserveInv
    <2> QED
      BY <1>2, <2>1, <2>2, LeavingKeepsReserve
  <1>3. CASE CompleteNext(s) \/ CompleteByStopSequence(s) \/ FailByRequestId(s)
    <2>1. /\ pc \in {"finishing", "collecting", "idle"} /\ UNCHANGED <<pc, started, toFail>>
          /\ \E outcome \in Outcomes : FailSequence(s, outcome)
      BY <1>0, <1>3 DEF CompleteNext, CompleteByStopSequence, FailByRequestId, FailSequence,
                        Outcomes, passVars, updateVars, Inv, FinishInv
    <2> QED
      BY <1>2, <2>1
  <1>4. CASE EndUpdate \/ TakeCompleted \/ FailPendingRequests
    <2>1. /\ UNCHANGED <<kvVars, request, prefill, decode, generated, logicalBlocks, started, toFail>>
          /\ pc \in {"finishing", "collecting", "idle"} /\ pc' \in {"finishing", "collecting", "idle"}
          /\ toFail' = {}
      BY <1>4 DEF EndUpdate, TakeCompleted, FailPendingRequests, Drop, requestVars, passVars,
                  updateVars, ReserveInv
    <2>2. /\ Active' = Active \ {} /\ toFail' = toFail \ {}
          /\ NumFreeBlocks' = NumFreeBlocks /\ NumFreeBlocks \in Nat
      BY <1>0, <2>1, ReserveTyped DEF Active, NumFreeBlocks, kvVars
    <2>3. \A t : NeedsBlock(t)' <=> NeedsBlock(t)
      BY <2>1, NeedStays
    <2> QED
      BY <2>1, <2>2, <2>3, LeavingKeepsReserve
  <1>5. CASE AddRequest(r)
    <2>1. /\ UNCHANGED <<kvVars, prefill, decode, generated, logicalBlocks, started, toFail>>
          /\ pc = "idle" /\ pc' = "idle" /\ toFail' = {} /\ request' = Append(request, r)
      BY <1>5 DEF AddRequest, passVars, updateVars, ReserveInv
    <2>2. /\ Active' = Active \ {} /\ toFail' = toFail \ {}
          /\ NumFreeBlocks' = NumFreeBlocks /\ NumFreeBlocks \in Nat
      BY <1>0, <2>1, ReserveTyped DEF Active, NumFreeBlocks, kvVars
    <2>3. ASSUME NEW t \in Active' PROVE NeedsBlock(t)' <=> NeedsBlock(t)
      <3>1. t \in Submitted /\ request \in Seq(Requests) /\ Submitted = 1 .. Len(request)
        BY <1>0, <2>2, ActiveSizes, LenProperties DEF Inv, CoreInv, CoreType, Submitted
      <3>2. request'[t] = request[t]
        BY <2>1, <3>1, LenProperties
      <3> QED
        BY <2>1, <3>2, NeedStays
    <2> QED
      BY <2>1, <2>2, <2>3, LeavingKeepsReserve
  <1> QED
    BY <1>1, <1>3, <1>4, <1>5

LEMMA ReserveStep ==
    ASSUME ~PartialOutputs, SoundInv, FairInv, ReserveInv, [Next]_vars
    PROVE  ReserveInv'
  <1>1. CASE Schedule
    <2>1. ASSUME NEW s \in SeqIds, StartPrefill(s) PROVE ReserveInv'
      <3>1. pc = "pending" /\ pc' = pc /\ s \in pending /\ toFail' = toFail
        BY <2>1, PendingAtFacts DEF StartPrefill, SoundInv
      <3>2. GrowthReserve' <= NumFreeBlocks'
        BY <2>1, <3>1, StartCovers
      <3> QED
        BY <3>1, <3>2 DEF ReserveInv
    <2> QED
      BY <1>1, <2>1, DecodeKeepsReserve, PassKeepsReserve DEF Schedule
  <1>2. CASE Update
    <2>1. CASE \E output \in Outputs : UpdateSequences(output)
      BY <2>1, ExecutionKeepsReserve
    <2>2. CASE ExecutionError
      <3>1. [s \in InBatch |-> "word"] \in Outputs
        BY DEF Outputs
      <3> QED
        BY <2>2, <3>1, ExecutionKeepsReserve
    <2> QED
      BY <1>2, <2>1, <2>2, OthersKeepReserve DEF Update
  <1>3. CASE TakeCompleted \/ Call
    BY <1>3, OthersKeepReserve DEF Call
  <1>4. CASE UNCHANGED vars
    <2>1. UNCHANGED <<kvVars, requestVars, passVars, updateVars>>
      BY <1>4 DEF vars
    <2> QED
      BY <2>1 DEF kvVars, requestVars, passVars, updateVars, ReserveInv, Covered, GrowthReserve,
                  NeedsBlock, NumFreeBlocks, ContextLen, Prompt, Active
  <1> QED
    BY <1>1, <1>2, <1>3, <1>4 DEF Next, Step

\* The reserve of has_prefill_budget does what it is for: whatever ends, fails
\* or is cancelled in between, in the pass after one that started a prefill no
\* sequence runs out of blocks, for every configuration.
THEOREM ReserveHolds ==
    ASSUME ~PartialOutputs
    PROVE  Spec => []GrowthReserved
  <1>1. ReserveInv => GrowthReserved
    BY DEF ReserveInv, Covered, GrowthReserved
  <1>2. Init => ReserveInv
    BY DEF Init, ReserveInv
  <1>3. (SoundInv /\ FairInv /\ ReserveInv) /\ [Next]_vars => (SoundInv /\ FairInv /\ ReserveInv)'
    BY SoundStep, FairStep, ReserveStep
  <1> QED
    BY <1>1, <1>2, <1>3, InitSound, InitFair, PTL DEF Spec

=============================================================================
