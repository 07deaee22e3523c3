------------------------------ MODULE LoadGen ------------------------------
(***************************************************************************)
(* The load generator of src/bin/loadgen.rs: argument checks, a warmup     *)
(* whose results are thrown away, the measurement window, and the summary. *)
(*                                                                         *)
(* In closed mode a fixed number of workers send one request after the     *)
(* other and share two atomic counters, next_id and measured_count.  In    *)
(* poisson mode main() spawns one task for each arrival.  What becomes of  *)
(* a single request is module Conversation; here run_request returns one   *)
(* of Outcomes after any delay.  The dataset can be read and the report    *)
(* written.                                                                *)
(***************************************************************************)
EXTENDS Integers, FiniteSets, Sequences, SequencesExt

CONSTANTS
    ArgSets,      \* the command lines to consider
    Outcomes,     \* what run_request may return, see OutcomeType
    MaxWarmup     \* bound: no warmup request starts once so many have started

OutcomeType ==
    [ok : BOOLEAN, class : STRING, tokens : Int, ttft : Int]

None == -1        \* Option::None of a number

ASSUME LoadGenAssumption ==
    /\ MaxWarmup \in Nat
    /\ Outcomes \subseteq OutcomeType
    /\ \A a \in ArgSets :
          /\ a.mode \in STRING
          /\ {a.concurrency, a.requests, a.maxTokens, a.timeout, a.warmup} \subseteq Nat
          /\ a.rate \in Int

VARIABLES
    args,           \* Args
    phase,          \* where main() is
    stop,           \* the flag the warmup workers look at
    slots,          \* worker -> [at, index, id]; empty in poisson mode
    spawned,        \* the tasks of poisson mode still running: [index, id]
    nextId,         \* next_id
    measuredCount,  \* measured_count, or issued in poisson mode
    records,        \* records, in the order they were pushed
    summary         \* build_summary, <<>> before

vars == <<args, phase, stop, slots, spawned, nextId, measuredCount, records, summary>>

Closed == args.mode = "closed"
Workers == 1 .. args.concurrency

AllAt(p) == [w \in Workers |-> [at |-> p, index |-> None, id |-> None]]

\* What has been sent and not yet answered.
InFlight ==
    spawned \cup {[index |-> slots[w].index, id |-> slots[w].id] :
                      w \in {v \in DOMAIN slots : slots[v].at = "requesting"}}

Init ==
    /\ args \in ArgSets
    /\ phase = "checking"
    /\ stop = FALSE
    /\ slots = <<>>
    /\ spawned = {}
    /\ nextId = 0
    /\ measuredCount = 0
    /\ records = <<>>
    /\ summary = <<>>

ValidArgs(a) ==
    /\ a.mode \in {"closed", "poisson"}
    /\ a.mode = "closed" => a.concurrency > 0
    /\ a.mode = "poisson" => a.rate > 0
    /\ a.requests > 0
    /\ a.maxTokens > 0
    /\ a.timeout > 0

\* The process exits with status 2.
RefuseArgs ==
    /\ phase = "checking"
    /\ ~ValidArgs(args)
    /\ phase' = "refused"
    /\ UNCHANGED <<args, stop, slots, spawned, nextId, measuredCount, records, summary>>

AcceptArgs ==
    /\ phase = "checking"
    /\ ValidArgs(args)
    /\ phase' = IF args.warmup > 0 THEN "warmup" ELSE "measuring"
    /\ slots' = IF Closed THEN AllAt("ready") ELSE <<>>
    /\ UNCHANGED <<args, stop, spawned, nextId, measuredCount, records, summary>>

-----------------------------------------------------------------------------
(* Workers, closed mode.  A worker that reads the stop flag late behaves   *)
(* as one that read it before the flag was set, so Relaxed loads need no   *)
(* action of their own.                                                    *)

At(w, p) == w \in DOMAIN slots /\ slots[w].at = p

Go(w, p) == slots' = [slots EXCEPT ![w].at = p]

Warming == phase \in {"warmup", "draining"}

Look(w) ==
    /\ Warming
    /\ At(w, "ready")
    /\ \/ stop /\ Go(w, "left")
       \/ ~stop /\ nextId < MaxWarmup /\ Go(w, "picking")
    /\ UNCHANGED <<args, phase, stop, spawned, nextId, measuredCount, records, summary>>

\* Faulty: load and store in place of fetch_add, the store when the answer comes.
ClaimWithoutAdd(w) ==
    /\ phase = "measuring"
    /\ At(w, "ready")
    /\ measuredCount' = Len(records)
    /\ \/ Len(records) >= args.requests /\ Go(w, "left")
       \/ /\ Len(records) < args.requests
          /\ slots' = [slots EXCEPT ![w] =
                           [@ EXCEPT !.at = "picking", !.index = Len(records)]]
    /\ UNCHANGED <<args, phase, stop, spawned, nextId, records, summary>>

\* measured_count.fetch_add: each index is claimed once, also past the limit.
Claim(w) ==
    /\ phase = "measuring"
    /\ At(w, "ready")
    /\ measuredCount' = measuredCount + 1
    /\ \/ measuredCount >= args.requests /\ Go(w, "left")
       \/ /\ measuredCount < args.requests
          /\ slots' = [slots EXCEPT ![w] = [@ EXCEPT !.at = "picking", !.index = measuredCount]]
    /\ UNCHANGED <<args, phase, stop, spawned, nextId, records, summary>>

\* next_id.fetch_add; the entry of the dataset is id % dataset.len().
Pick(w) ==
    /\ At(w, "picking")
    /\ slots' = [slots EXCEPT ![w] = [@ EXCEPT !.at = "requesting", !.id = nextId]]
    /\ nextId' = nextId + 1
    /\ UNCHANGED <<args, phase, stop, spawned, measuredCount, records, summary>>

Record(index, id, o) ==
    [index |-> index, id |-> id, ok |-> o.ok, class |-> o.class,
     tokens |-> o.tokens, ttft |-> o.ttft]

Answered(w, o) ==
    /\ At(w, "requesting")
    /\ Go(w, "ready")
    /\ records' = IF Warming THEN records
                  ELSE Append(records, Record(slots[w].index, slots[w].id, o))
    /\ UNCHANGED <<args, phase, stop, spawned, nextId, measuredCount, summary>>

-----------------------------------------------------------------------------
(* Tasks, poisson mode.                                                    *)

Spawn(index) ==
    /\ spawned' = spawned \cup {[index |-> index, id |-> nextId]}
    /\ nextId' = nextId + 1
    /\ UNCHANGED <<args, phase, stop, slots, records, summary>>

ArriveWarmup ==
    /\ phase = "warmup" /\ ~Closed
    /\ nextId < MaxWarmup
    /\ Spawn(None)
    /\ UNCHANGED measuredCount

Arrive ==
    /\ phase = "measuring" /\ ~Closed
    /\ measuredCount < args.requests
    /\ Spawn(measuredCount)
    /\ measuredCount' = measuredCount + 1

TaskAnswered(t, o) ==
    /\ t \in spawned
    /\ spawned' = spawned \ {t}
    /\ records' = IF t.index = None THEN records
                  ELSE Append(records, Record(t.index, t.id, o))
    /\ UNCHANGED <<args, phase, stop, slots, nextId, measuredCount, summary>>

-----------------------------------------------------------------------------
(* main()                                                                  *)

\* warmup_secs are over.
EndWarmup ==
    /\ phase = "warmup"
    /\ phase' = "draining"
    /\ stop' = Closed
    /\ UNCHANGED <<args, slots, spawned, nextId, measuredCount, records, summary>>

AllLeft == \A w \in DOMAIN slots : slots[w].at = "left"

\* Faulty: the handles of the tasks are dropped, not awaited.
JoinWarmupDetached ==
    /\ phase = "draining"
    /\ AllLeft
    /\ phase' = "measuring"
    /\ slots' = IF Closed THEN AllAt("ready") ELSE <<>>
    /\ UNCHANGED <<args, stop, spawned, nextId, measuredCount, records, summary>>

\* The handles of the warmup are awaited, then the workers are spawned anew.
JoinWarmup ==
    /\ phase = "draining"
    /\ AllLeft
    /\ spawned = {}
    /\ phase' = "measuring"
    /\ slots' = IF Closed THEN AllAt("ready") ELSE <<>>
    /\ UNCHANGED <<args, stop, spawned, nextId, measuredCount, records, summary>>

JoinMeasured ==
    /\ phase = "measuring"
    /\ AllLeft
    /\ ~Closed => measuredCount = args.requests /\ spawned = {}
    /\ phase' = "reporting"
    /\ UNCHANGED <<args, stop, slots, spawned, nextId, measuredCount, records, summary>>

-----------------------------------------------------------------------------
(* finalize_records and build_summary                                      *)

Sorted(recs) == SortSeq(recs, LAMBDA a, b : a.index < b.index)

Count(recs, Test(_)) == Len(SelectSeq(recs, Test))

\* The position, from 1, of percentile p among n samples: round() takes halves up.
PercentileAt(n, p) == ((2 * p * (n - 1) + 100) \div 200) + 1

Percentile(values, p) ==
    IF values = <<>> THEN None ELSE values[PercentileAt(Len(values), p)]

MetricSummary(values) ==
    LET sorted == SortSeq(values, <)
    IN  [samples |-> Len(values), p50 |-> Percentile(sorted, 50),
         p95 |-> Percentile(sorted, 95), p99 |-> Percentile(sorted, 99)]

Field(recs, f) == [i \in DOMAIN recs |-> recs[i][f]]

BuildSummary(recs) ==
    LET okRecords == SelectSeq(recs, LAMBDA r : r.ok)
        failed == SelectSeq(recs, LAMBDA r : ~r.ok)
        known == SelectSeq(okRecords, LAMBDA r : r.tokens # None)
    IN  [total |-> Len(recs),
         success |-> Len(okRecords),
         errors |-> [c \in {failed[i].class : i \in DOMAIN failed} |->
                        Count(failed, LAMBDA r : r.class = c)],
         ttft |-> MetricSummary(SelectSeq(Field(okRecords, "ttft"), LAMBDA t : t # None)),
         knownRequests |-> Len(known),
         totalTokens |-> FoldLeft(+, 0, Field(known, "tokens")),
         rateGiven |-> okRecords # <<>> /\ Len(known) = Len(okRecords)]

Report ==
    /\ phase = "reporting"
    /\ phase' = "done"
    /\ records' = Sorted(records)
    /\ summary' = BuildSummary(Sorted(records))
    /\ UNCHANGED <<args, stop, slots, spawned, nextId, measuredCount>>

-----------------------------------------------------------------------------
AnyWorker == UNION {1 .. a.concurrency : a \in ArgSets}

WorkerStep(w) == Look(w) \/ Claim(w) \/ Pick(w) \/ \E o \in Outcomes : Answered(w, o)

TaskStep == \E t \in spawned : \E o \in Outcomes : TaskAnswered(t, o)

Main ==
    \/ RefuseArgs \/ AcceptArgs \/ EndWarmup \/ JoinWarmup
    \/ Arrive \/ JoinMeasured \/ Report

Next ==
    \/ \E w \in AnyWorker : WorkerStep(w)
    \/ TaskStep
    \/ Main
    \/ ArriveWarmup

Spec == Init /\ [][Next]_vars

(* Every task is polled in the end, each request is answered or times out, *)
(* and sleep() returns.  Nothing obliges a warmup request to arrive.       *)
FairSpec ==
    /\ Spec
    /\ WF_vars(Main)
    /\ WF_vars(TaskStep)
    /\ \A w \in AnyWorker : WF_vars(WorkerStep(w))

-----------------------------------------------------------------------------
(* Properties                                                              *)

\* While main() measures, no request of the warmup is in flight, whose load
\* would be measured along; nor are two requests in flight under one index
\* or one id; and a closed loop never has more requests in flight than slots.
WindowIsolated ==
    phase = "measuring" =>
        /\ \A t \in InFlight : t.index # None
        /\ \A t, u \in InFlight : (t.index = u.index \/ t.id = u.id) => t = u
        /\ Closed => Cardinality(InFlight) <= args.concurrency

\* The report is whole: every index of the window once and in order, ids used
\* once, each record counted as a success or under one class of errors, and a
\* token rate only when every success has a count.
ReportWhole ==
    /\ Len(records) = args.requests
    /\ \A i \in DOMAIN records : records[i].index = i - 1
    /\ Cardinality({records[i].id : i \in DOMAIN records}) = args.requests
    /\ summary.success + FoldFunction(+, 0, summary.errors) = args.requests
    /\ summary.rateGiven =>
          \A i \in DOMAIN records : records[i].ok => records[i].tokens # None
    /\ summary.ttft.p50 <= summary.ttft.p95 /\ summary.ttft.p95 <= summary.ttft.p99

\* The load generator turns its arguments down or ends with a whole report,
\* however its workers interleave and whatever their requests come to.
Reports == <>(phase = "refused" \/ (phase = "done" /\ ReportWhole))
=============================================================================
