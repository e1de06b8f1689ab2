---------------------------- MODULE EvalMetrics ----------------------------
(***************************************************************************)
(* The evaluation metrics of tenon_core (core/metrics.rs) and the endpoint *)
(* that publishes them (oss/metrics.rs handle_metrics_connection).  Rules  *)
(* that are evaluated in parallel record how long a stage took, with three *)
(* atomic operations of which the last is a compare-and-swap loop; the     *)
(* thread of the endpoint reads one counter after the other meanwhile.     *)
(*                                                                         *)
(* One stage stands for the five, which have separate counters, and one    *)
(* counter for the three kinds of payload errors.  All atomics are Relaxed *)
(* and each is one variable of its own: the properties relate a field of   *)
(* the snapshot to that same field only.                                   *)
(***************************************************************************)
EXTENDS Naturals, Sequences

CONSTANTS Rules,      \* rule indexes; each is evaluated by one thread at a time
          Durations,  \* what a stage may take, in nanoseconds
          MaxScrapes  \* bound: requests for /metrics

ASSUME EvalMetricsAssumption ==
    /\ Rules \subseteq Nat
    /\ Durations \subseteq Nat
    /\ MaxScrapes \in Nat

VARIABLES
    counter,    \* the atomics of EvalMetrics and of a stage's LatencyMetrics
    rec,        \* per rule, where the thread that evaluates it is in record()
    truth,      \* history: count, total and max as one atomic record() gives them
    field,      \* the endpoint: the next field to load, 0 when it is waiting
    seen,       \* the fields of the snapshot loaded so far
    atStart,    \* history: the counters when the snapshot was begun; then 0 again
    published,  \* what /metrics shows
    scrapes     \* requests so far

recorderVars == <<rec, truth>>
endpointVars == <<field, seen, atStart, published, scrapes>>
metricsVars  == <<counter, recorderVars, endpointVars>>

\* The fields of EvalMetricsSnapshot in the order snapshot() loads them.
Fields == <<"evals", "errors", "typeErrors", "payloadErrors", "count", "total", "max">>
Names  == {Fields[i] : i \in DOMAIN Fields}

Larger(a, b) == IF a >= b THEN a ELSE b

Zero == [f \in Names |-> 0]

\* The thread is not evaluating the rule.
Resting == [at |-> "resting", duration |-> 0, current |-> 0]

MetricsInit ==
    /\ counter = Zero
    /\ rec = [r \in Rules |-> Resting]
    /\ truth = [count |-> 0, total |-> 0, max |-> 0]
    /\ field = 0
    /\ seen = Zero
    /\ atStart = Zero
    /\ published = Zero
    /\ scrapes = 0

-----------------------------------------------------------------------------
\* LatencyMetrics::record and the stage timers

\* The evaluation of the rules begins.
Evaluating(rs) == rec' = [r \in Rules |-> IF r \in rs THEN [Resting EXCEPT !.at = "running"]
                                          ELSE Resting]

\* The rule has no such stage, or detailed latencies are disabled.
NoStage(r) ==
    /\ rec[r].at = "running"
    /\ rec' = [rec EXCEPT ![r] = Resting]
    /\ UNCHANGED <<counter, truth, endpointVars>>

\* finish_stage reads the clock and calls record.
FinishStage(r) ==
    /\ rec[r].at = "running"
    /\ \E d \in Durations :
          /\ rec' = [rec EXCEPT ![r] = [Resting EXCEPT !.at = "count", !.duration = d]]
          /\ truth' = [count |-> truth.count + 1, total |-> truth.total + d,
                       max |-> Larger(truth.max, d)]
    /\ UNCHANGED <<counter, endpointVars>>

AddCount(r) ==
    /\ rec[r].at = "count"
    /\ counter' = [counter EXCEPT !["count"] = @ + 1]
    /\ rec' = [rec EXCEPT ![r].at = "total"]
    /\ UNCHANGED <<truth, endpointVars>>

AddTotal(r) ==
    /\ rec[r].at = "total"
    /\ counter' = [counter EXCEPT !["total"] = @ + rec[r].duration]
    /\ rec' = [rec EXCEPT ![r].at = "load"]
    /\ UNCHANGED <<truth, endpointVars>>

\* The condition of the loop, with max_nanos as it was loaded.
Looped(r) ==
    rec' = [rec EXCEPT ![r] = IF rec[r].duration > counter["max"]
                              THEN [@ EXCEPT !.at = "swap", !.current = counter["max"]]
                              ELSE Resting]

LoadMax(r) ==
    /\ rec[r].at = "load"
    /\ Looped(r)
    /\ UNCHANGED <<counter, truth, endpointVars>>

\* Faulty variant of SwapMax: the maximum is stored without a comparison.
StoreMax(r) ==
    /\ rec[r].at = "swap"
    /\ counter' = [counter EXCEPT !["max"] = rec[r].duration]
    /\ rec' = [rec EXCEPT ![r] = Resting]
    /\ UNCHANGED <<truth, endpointVars>>

\* compare_exchange_weak succeeds, or fails and yields the current maximum; it
\* may also fail although the maximum has not changed.
SwapMax(r) ==
    /\ rec[r].at = "swap"
    /\ \/ /\ counter["max"] = rec[r].current
          /\ counter' = [counter EXCEPT !["max"] = rec[r].duration]
          /\ rec' = [rec EXCEPT ![r] = Resting]
       \/ /\ Looped(r)
          /\ UNCHANGED counter
    /\ UNCHANGED <<truth, endpointVars>>

Record == \E r \in Rules : \/ NoStage(r) \/ FinishStage(r) \/ AddCount(r)
                           \/ AddTotal(r) \/ LoadMax(r) \/ SwapMax(r)

\* A fetch_add(1) of record_eval_success, record_eval_error or record_payload_error.
Count(name) == counter' = [counter EXCEPT ![name] = @ + 1]

-----------------------------------------------------------------------------
\* handle_metrics_connection; the endpoint takes one connection after the other.

BeginScrape ==
    /\ field = 0
    /\ scrapes < MaxScrapes
    /\ scrapes' = scrapes + 1
    /\ field' = 1
    /\ atStart' = counter
    /\ UNCHANGED <<counter, recorderVars, seen, published>>

LoadField ==
    /\ field \in DOMAIN Fields
    /\ seen' = [seen EXCEPT ![Fields[field]] = counter[Fields[field]]]
    /\ field' = field + 1
    /\ UNCHANGED <<counter, recorderVars, atStart, published, scrapes>>

\* Faulty variant of Publish: the counters are incremented by what was read.
PublishIncrement ==
    /\ field = Len(Fields) + 1
    /\ published' = [f \in Names |-> IF f = "max" THEN seen[f] ELSE published[f] + seen[f]]
    /\ field' = 0
    /\ seen' = Zero
    /\ atStart' = Zero
    /\ UNCHANGED <<counter, recorderVars, scrapes>>

\* publish_eval_metrics and render: absolute() never lets a counter go back, the
\* gauge of the maximum is set.
Publish ==
    /\ field = Len(Fields) + 1
    /\ published' = [f \in Names |-> IF f = "max" THEN seen[f]
                                     ELSE Larger(published[f], seen[f])]
    /\ field' = 0
    /\ seen' = Zero
    /\ atStart' = Zero
    /\ UNCHANGED <<counter, recorderVars, scrapes>>

Endpoint == BeginScrape \/ LoadField \/ Publish

-----------------------------------------------------------------------------
\* Properties

RecordSteps == {"resting", "running", "count", "total", "load", "swap"}

MetricsTypeOK ==
    /\ counter \in [Names -> Nat]
    /\ rec \in [Rules -> [at : RecordSteps, duration : Durations \cup {0}, current : Nat]]
    /\ truth \in [count : Nat, total : Nat, max : Nat]
    /\ field \in 0..(Len(Fields) + 1)
    /\ seen \in [Names -> Nat]
    /\ atStart \in [Names -> Nat]
    /\ published \in [Names -> Nat]
    /\ scrapes \in 0..MaxScrapes

\* Whenever no thread is inside record(), the stage has counted every latency
\* exactly once and holds the largest of them: the compare-and-swap loop loses no
\* maximum to a slower thread (core/metrics.rs:46-63).  In between, no field is
\* ahead of what has been recorded.
LatencyExact ==
    /\ counter["count"] <= truth.count
    /\ counter["total"] <= truth.total
    /\ counter["max"] <= truth.max
    /\ (\A r \in Rules : rec[r].at \in {"resting", "running"}) =>
          truth = [count |-> counter["count"], total |-> counter["total"],
                   max |-> counter["max"]]

\* What /metrics shows was true during the request: each field lies between its
\* value when the snapshot was begun and its value now, and none ever goes back,
\* although the snapshot is not atomic (core/metrics.rs:184, oss/metrics.rs:138).
ScrapeIsTrue ==
    [][published' # published =>
          \A f \in Names : /\ atStart[f] <= published'[f]
                           /\ published'[f] <= counter[f]
                           /\ published[f] <= published'[f]]_metricsVars
=============================================================================
