---------------------------- MODULE CpuExecutor ----------------------------
(***************************************************************************)
(* The reference executor of src/cpu_executor.rs under the real scheduler: *)
(* module Scheduler decides what a batch holds and which ids a drain ends, *)
(* this module what the executor's paged cache holds.                      *)
(*                                                                         *)
(* The numbers are abstracted away: a slot of a block holds the id of the  *)
(* sequence whose key and value were written there, or nothing (the zeros  *)
(* a new block starts with).  The two layers are written and deleted alike *)
(* and are one cache here.  The scheduler keeps a batch under the limits   *)
(* that execute() tests and gives each entry enough blocks (TypeOK and     *)
(* BatchSound of Scheduler), so those errors do not occur; a vocabulary is *)
(* not empty and a softmax over a finite cache is finite.                  *)
(***************************************************************************)
EXTENDS Executor

Nobody == 0

ASSUME CpuAssumption == Nobody \notin SeqIds

VARIABLES
    cache,      \* kv_cache: block -> the writer of each of its slots
    tables      \* seq_block_tables: the blocks of the latest execution

cpuVars == <<cache, tables>>
cpuSpecVars == <<vars, cpuVars>>

\* The positions whose token an entry feeds, build_execution_batch.
Positions(e) == IF e.isPrefill THEN 0 .. Prompt(e.id) - 1 ELSE {e.context - 1}

\* The positions it attends to: 0 ..= pos for the last one.
Attended(e) == IF e.isPrefill THEN Positions(e) ELSE 0 .. e.context - 1

BlockAt(e, p) == e.blocks[p \div BlockSize + 1]

WritesTo(e) == {BlockAt(e, p) : p \in Positions(e)}

\* Faulty: every new token goes to the first slot of its block.
WriteFirstSlot(entries) ==
    cache' = [b \in DOMAIN cache \cup UNION {WritesTo(e) : e \in entries} |->
                 [o \in 0 .. BlockSize - 1 |->
                     LET writer == {e \in entries : b \in WritesTo(e) /\ o = 0}
                     IN  IF writer # {} THEN (CHOOSE e \in writer : TRUE).id
                         ELSE IF b \in DOMAIN cache THEN cache[b][o] ELSE Nobody]]

\* Faulty: a block is written only when it is new.
WriteNewBlocks(entries) ==
    LET new == UNION {WritesTo(e) : e \in entries} \ DOMAIN cache
    IN  cache' = [b \in DOMAIN cache \cup new |->
                     IF b \notin new THEN cache[b]
                     ELSE [o \in 0 .. BlockSize - 1 |->
                              (CHOOSE e \in entries : b \in WritesTo(e)).id]]

\* entry(..).or_insert_with(zeros), then the slot of each position.  The
\* entries of a batch have no block in common, so their order is immaterial.
Write(entries) ==
    cache' = [b \in DOMAIN cache \cup UNION {WritesTo(e) : e \in entries} |->
                 [o \in 0 .. BlockSize - 1 |->
                     LET writer == {e \in entries :
                             \E p \in Positions(e) : BlockAt(e, p) = b /\ p % BlockSize = o}
                     IN  IF writer # {} THEN (CHOOSE e \in writer : TRUE).id
                         ELSE IF b \in DOMAIN cache THEN cache[b][o] ELSE Nobody]]

\* seq_block_tables.insert, before the forward pass of each sequence.
Record(entries) ==
    LET ids == {e.id : e \in entries}
    IN  tables' = [s \in DOMAIN tables \cup ids |->
                      IF s \in ids THEN (CHOOSE e \in entries : e.id = s).blocks
                                   ELSE tables[s]]

\* attention(): a block it needs is not in the cache, "KV cache miss".
Misses(e) ==
    \E p \in Attended(e) : BlockAt(e, p) \notin DOMAIN cache \cup WritesTo(e)

\* The sequence whose forward pass is the first to fail: a batch lists the
\* prefills, which cannot miss, then the decodes in the scheduler's order.
FailsAt(e) ==
    /\ e \in batch
    /\ Misses(e)
    /\ \A f \in batch \ {e} : Misses(f) => Before(e.id, f.id)

CpuExecute ==
    /\ \A e \in batch : ~Misses(e)
    /\ \E output \in Outputs : UpdateSequences(output)
    /\ Write(batch)
    /\ Record(batch)

\* The sequences before e, and e itself up to its first read, have left their
\* traces when the error is returned for all.
CpuExecuteFails(e) ==
    LET reached == {f \in batch : f.isPrefill \/ ~Before(e.id, f.id)}
    IN  /\ FailsAt(e)
        /\ ExecutionError
        /\ Write(reached)
        /\ Record(reached)

\* Faulty: the table is forgotten, the blocks stay.
CpuForgetTablesOnly(ids) ==
    /\ tables' = Restrict(tables, DOMAIN tables \ ids)
    /\ UNCHANGED cache

\* sequences_finished: the table of each id, and every block it names.
CpuSequencesFinished(ids) ==
    LET gone == UNION {Range(tables[s]) : s \in ids \cap DOMAIN tables}
    IN  /\ tables' = Restrict(tables, DOMAIN tables \ ids)
        /\ cache' = Restrict(cache, DOMAIN cache \ gone)

\* The end of an engine step: drain, and tell the executor.
CpuDrain == TakeCompleted /\ CpuSequencesFinished(IdsOf(completed))

-----------------------------------------------------------------------------
CpuInit == cache = <<>> /\ tables = <<>>

CpuNext ==
    \/ (SchedulerStep \/ ClientCall) /\ UNCHANGED cpuVars
    \/ CpuExecute
    \/ \E e \in batch : CpuExecuteFails(e)
    \/ CpuDrain

CpuSpec == Init /\ CpuInit /\ [][CpuNext]_cpuSpecVars

-----------------------------------------------------------------------------
(* Properties                                                              *)

\* The writer of what e finds at position p before it runs.
Found(e, p) ==
    IF BlockAt(e, p) \in DOMAIN cache THEN cache[BlockAt(e, p)][p % BlockSize]
                                      ELSE Nobody

\* The positions that e reads and did not write itself.
ReadOnly(e) == Attended(e) \ Positions(e)

\* No request is answered from the context of another one: whatever block is
\* freed, handed on, cancelled or kept after a failure, the positions that a
\* successful execution attends to hold nothing that another sequence wrote.
NoForeignRead ==
    [][pc = "executing" /\ pc' = "finishing" /\ toFail' = {} =>
           \A e \in batch : \A p \in {q \in Attended(e) : BlockAt(e, q) \in DOMAIN cache'} :
               cache'[BlockAt(e, p)][p % BlockSize] \in {e.id, Nobody}]_cpuSpecVars

\* The cache of a long-running server does not grow: the executor keeps a
\* table only for sequences that run or are about to be drained, and a block
\* only if one of these tables names it, after failed batches too.
NothingLeaks ==
    /\ DOMAIN tables \subseteq Active \cup IdsOf(completed)
    /\ DOMAIN cache \subseteq UNION {Range(tables[s]) : s \in DOMAIN tables}

\* A sequence attends to its own whole context: every earlier position is in
\* the cache, and it holds what the sequence wrote there, as long as no request
\* has left the scheduler between two drains.
ReadsOwnWrites ==
    pc = "executing" /\ Undisturbed =>
        \A e \in batch : \A p \in ReadOnly(e) : Found(e, p) = e.id

\* The comment on sequences_finished (src/cpu_executor.rs:439): a physical
\* block belongs to one sequence at a time, so deleting the blocks of a
\* finished one is safe, that is, no running sequence loses a block by it.
DeletionIsSafe ==
    [][\A b \in DOMAIN cache \ DOMAIN cache' :
           \A s \in Active : b \notin Range(pageTables[s])]_cpuSpecVars

=============================================================================
