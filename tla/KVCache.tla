------------------------------ MODULE KVCache ------------------------------
(***************************************************************************)
(* The paged KV cache of src/kv_cache.rs: a pool of NumBlocks physical     *)
(* blocks (reference counts and a FIFO free list) and one page table per   *)
(* sequence, the physical blocks of the sequence in logical order.         *)
(*                                                                         *)
(* Every method takes &mut self and is called by a single owner, the       *)
(* scheduler, so each is one atomic action.  A method that returns an      *)
(* error leaves the state unchanged, so only the successful calls appear   *)
(* as actions; a caller tells the error by the guard being false.          *)
(***************************************************************************)
EXTENDS Integers, Sequences, FiniteSets, Functions

CONSTANTS
    NumBlocks,      \* EngineConfig::max_num_blocks
    BlockSize,      \* EngineConfig::block_size, tokens per block
    SeqIds          \* the sequence ids that may be used

ASSUME KVAssumption ==
    /\ NumBlocks \in Nat
    /\ BlockSize \in Nat \ {0}
    /\ SeqIds \subseteq Nat

Blocks == 0 .. NumBlocks - 1

VARIABLES
    refCount,       \* PhysicalBlock::ref_count of every block
    freeList,       \* BlockPool::free_list, the front is handed out first
    pageTables      \* page_tables: sequence id -> sequence of its blocks

kvVars == <<refCount, freeList, pageTables>>

\* blocks_for_tokens: ceil(num_tokens / block_size)
BlocksForTokens(n) == (n + BlockSize - 1) \div BlockSize

NumFreeBlocks == Len(freeList)

NumUsedBlocks == NumBlocks - NumFreeBlocks

CanAllocate(n) == NumFreeBlocks >= n

Live == DOMAIN pageTables

-----------------------------------------------------------------------------
(* Faulty variants: bugs the properties below are able to tell.            *)

\* allocate_block reads the front of the free list without popping it.
AllocateBlockPeeking(s) ==
    /\ s \in Live
    /\ CanAllocate(1)
    /\ refCount' = [refCount EXCEPT ![Head(freeList)] = 1]
    /\ freeList' = freeList
    /\ pageTables' = [pageTables EXCEPT ![s] = Append(@, Head(freeList))]

\* free_sequence counts every block down but lists all but the last.
FreeSequenceLeaking(s) ==
    LET table == pageTables[s]
    IN  /\ s \in Live
        /\ refCount' = [b \in Blocks |-> IF b \in Range(table) THEN 0 ELSE refCount[b]]
        /\ freeList' = freeList \o SubSeq(table, 1, Len(table) - 1)
        /\ pageTables' = [t \in Live \ {s} |-> pageTables[t]]

-----------------------------------------------------------------------------
(* BlockPool::new and KVCacheManager::new                                  *)
KVInit ==
    /\ refCount = [b \in Blocks |-> 0]
    /\ freeList = [i \in 1 .. NumBlocks |-> i - 1]
    /\ pageTables = [s \in {} |-> <<>>]

\* allocate_sequence(seq_id, num_tokens) for a sequence without a table (with
\* one the call returns at once): the first n blocks of the free list.
AllocateSequence(s, tokens) ==
    LET n     == BlocksForTokens(tokens)
        table == SubSeq(freeList, 1, n)
    IN  /\ s \notin Live
        /\ CanAllocate(n)
        /\ refCount' = [b \in Blocks |-> IF b \in Range(table) THEN 1 ELSE refCount[b]]
        /\ freeList' = SubSeq(freeList, n + 1, NumFreeBlocks)
        /\ pageTables' = [t \in Live \cup {s} |-> IF t = s THEN table ELSE pageTables[t]]

\* allocate_block(seq_id): one more block at the end of the table.
AllocateBlock(s) ==
    /\ s \in Live
    /\ CanAllocate(1)
    /\ refCount' = [refCount EXCEPT ![Head(freeList)] = 1]
    /\ freeList' = Tail(freeList)
    /\ pageTables' = [pageTables EXCEPT ![s] = Append(@, Head(freeList))]

\* The blocks that free() puts back: those whose count reaches zero.  A block
\* already at zero is skipped (the idempotent double free); the first arm is
\* the case in which there is none.
Released(table) ==
    IF \A i \in DOMAIN table : refCount[table[i]] = 1
    THEN table
    ELSE SelectSeq(table, LAMBDA b : refCount[b] = 1)

\* free_sequence(seq_id): drop the table and free its blocks in order.
FreeSequence(s) ==
    LET table == pageTables[s]
    IN  /\ s \in Live
        /\ refCount' = [b \in Blocks |->
                           IF b \in Range(table) /\ refCount[b] > 0
                           THEN refCount[b] - 1 ELSE refCount[b]]
        /\ freeList' = freeList \o Released(table)
        /\ pageTables' = [t \in Live \ {s} |-> pageTables[t]]

\* The cache used by any caller.  No more tokens are asked for than one past
\* the pool, where the answer is OutOfBlocks already.
KVNext ==
    \E s \in SeqIds :
        \/ \E tokens \in 0 .. NumBlocks * BlockSize + 1 : AllocateSequence(s, tokens)
        \/ AllocateBlock(s)
        \/ FreeSequence(s)

KVSpec == KVInit /\ [][KVNext]_kvVars

-----------------------------------------------------------------------------
(* Properties                                                              *)

\* The blocks a sequence holds.
Held(s) == IF s \in Live THEN Range(pageTables[s]) ELSE {}

\* The type of the cache's state.
KVTypeOK ==
    /\ refCount \in [Blocks -> Nat]
    /\ freeList \in Seq(Blocks)
    /\ Live \subseteq SeqIds
    /\ pageTables \in [Live -> Seq(Blocks)]

\* The free list names exactly the blocks whose reference count is zero, each
\* once: no block is lost and none can be handed out twice, whatever the order
\* of the frees.
FreeListExact ==
    /\ IsInjective(freeList)
    /\ Range(freeList) = {b \in Blocks : refCount[b] = 0}

\* A block is in one table at most, in one place of it, and exactly the blocks
\* in some table have the count 1.
OwnedOnce ==
    /\ \A s \in Live : IsInjective(pageTables[s])
    /\ \A s, t \in Live : s # t => Range(pageTables[s]) \cap Range(pageTables[t]) = {}
    /\ \A b \in Blocks : refCount[b] = IF \E s \in Live : b \in Range(pageTables[s])
                                       THEN 1 ELSE 0

KVInv == KVTypeOK /\ FreeListExact /\ OwnedOnce

\* num_used_blocks, which the code computes from the length of the free list,
\* is the number of blocks that the live sequences really hold: what memory
\* pressure and the admission budget decide on is never stale.
UsedIsHeld == NumUsedBlocks = Cardinality(UNION {Range(pageTables[s]) : s \in Live})

\* What the cache promises its users: sets of blocks held exclusively.
Ownership == INSTANCE BlockOwnership WITH
    Blocks  <- Blocks,
    Holders <- SeqIds,
    holding <- [s \in SeqIds |-> Held(s)],
    live    <- Live

\* The cache implements exclusive ownership of blocks.
OwnershipSpec == Ownership!Spec
=============================================================================
