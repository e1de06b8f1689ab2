----------------------------- MODULE DepthGauge -----------------------------
(***************************************************************************)
(* The queue-depth metric of tenon-oss (OssMetrics in metrics.rs, called   *)
(* by the handler and the eval worker of main.rs build_handler).           *)
(*                                                                         *)
(* The counter is not updated together with the queue: the handler adds 1  *)
(* after its try_send, the worker subtracts 1 after its recv, and each     *)
(* publishes the value it computed to the gauge in a further step.  The    *)
(* counter is an AtomicU64, so DepthMod stands for 2^64.                   *)
(***************************************************************************)
EXTENDS Integers, FiniteSets

CONSTANTS Handlers,        \* the event loops that call the handler
          QueueCap,        \* capacity of the eval queue
          DepthMod         \* the counter counts modulo DepthMod

ASSUME DepthGaugeAssumption ==
    /\ IsFiniteSet(Handlers) /\ Handlers # {}
    /\ QueueCap \in Nat \ {0}
    /\ DepthMod \in Nat
    /\ QueueCap + Cardinality(Handlers) + 1 < DepthMod

VARIABLES checked,  \* u64 arithmetic panics on overflow (debug build); never changes
          queued,   \* deliveries in the eval queue
          depth,    \* eval_queue_depth
          gauge,    \* the exported gauge tenon_oss_eval_queue_depth
          hpc,      \* per handler: "idle", "sent", "counted", "panicked"
          hval,     \* per handler: the value it is about to publish
          wpc,      \* eval worker: "idle", "taken", "counted", "panicked"
          wval      \* the value the worker is about to publish

vars == <<checked, queued, depth, gauge, hpc, hval, wpc, wval>>

Depths == 0..(DepthMod - 1)

\* Faulty variants of Plus1 and Minus1: no wrap-around, and saturating subtraction.
Plus1Unbounded(d)   == d + 1
Minus1Saturating(d) == IF d = 0 THEN 0 ELSE d - 1

\* fetch_add(1) and fetch_sub(1) wrap around; so does the arithmetic on the value
\* they return in a build without overflow checks.
Plus1(d)  == IF d = DepthMod - 1 THEN 0 ELSE d + 1
Minus1(d) == IF d = 0 THEN DepthMod - 1 ELSE d - 1

Init ==
    /\ checked \in BOOLEAN
    /\ queued = 0
    /\ depth = 0
    /\ gauge = 0
    /\ hpc = [h \in Handlers |-> "idle"]
    /\ hval = [h \in Handlers |-> 0]
    /\ wpc = "idle"
    /\ wval = 0

\* The handler's try_send succeeds.
Send(h) ==
    /\ hpc[h] = "idle"
    /\ queued < QueueCap
    /\ wpc # "panicked"
    /\ queued' = queued + 1
    /\ hpc' = [hpc EXCEPT ![h] = "sent"]
    /\ UNCHANGED <<checked, depth, gauge, hval, wpc, wval>>

\* record_eval_queue_enqueued: fetch_add(1) + 1; the addition to the largest value
\* panics in a checked build, which ends the event-loop task.
CountEnqueued(h) ==
    /\ hpc[h] = "sent"
    /\ depth' = Plus1(depth)
    /\ IF checked /\ depth = DepthMod - 1
       THEN hpc' = [hpc EXCEPT ![h] = "panicked"] /\ UNCHANGED hval
       ELSE /\ hpc' = [hpc EXCEPT ![h] = "counted"]
            /\ hval' = [hval EXCEPT ![h] = Plus1(depth)]
    /\ UNCHANGED <<checked, queued, gauge, wpc, wval>>

\* gauge.set(depth), and the handler returns to its event loop.
PublishEnqueued(h) ==
    /\ hpc[h] = "counted"
    /\ gauge' = hval[h]
    /\ hpc' = [hpc EXCEPT ![h] = "idle"]
    /\ UNCHANGED <<checked, queued, depth, hval, wpc, wval>>

\* The worker's recv() returns a delivery.
Recv ==
    /\ wpc = "idle"
    /\ queued > 0
    /\ queued' = queued - 1
    /\ wpc' = "taken"
    /\ UNCHANGED <<checked, depth, gauge, hpc, hval, wval>>

\* Faulty variant of CountDequeued: the worker's arithmetic is never checked.
CountDequeuedUnchecked ==
    /\ wpc = "taken"
    /\ depth' = Minus1(depth)
    /\ wpc' = "counted" /\ wval' = Minus1(depth)
    /\ UNCHANGED <<checked, queued, gauge, hpc, hval>>

\* record_eval_queue_dequeued: fetch_sub(1) - 1; subtracting from zero panics in a
\* checked build, which ends the worker and closes the queue.
CountDequeued ==
    /\ wpc = "taken"
    /\ depth' = Minus1(depth)
    /\ IF checked /\ depth = 0
       THEN wpc' = "panicked" /\ UNCHANGED wval
       ELSE wpc' = "counted" /\ wval' = Minus1(depth)
    /\ UNCHANGED <<checked, queued, gauge, hpc, hval>>

\* gauge.set(depth); evaluation, PUBACK and dispatch do not touch the metric.
PublishDequeued ==
    /\ wpc = "counted"
    /\ gauge' = wval
    /\ wpc' = "idle"
    /\ UNCHANGED <<checked, queued, depth, hpc, hval, wval>>

Next ==
    \/ \E h \in Handlers : Send(h) \/ CountEnqueued(h) \/ PublishEnqueued(h)
    \/ Recv \/ CountDequeued \/ PublishDequeued

Spec == Init /\ [][Next]_vars

-----------------------------------------------------------------------------
\* Every variable keeps its type; the queue its bound.
TypeOK ==
    /\ checked \in BOOLEAN
    /\ queued \in 0..QueueCap
    /\ depth \in Depths
    /\ gauge \in Depths
    /\ hpc \in [Handlers -> {"idle", "sent", "counted", "panicked"}]
    /\ hval \in [Handlers -> Depths]
    /\ wpc \in {"idle", "taken", "counted", "panicked"}
    /\ wval \in Depths

\* Handlers that have sent a delivery and not counted it, and the worker's
\* delivery that is no longer queued but still counted.
Uncounted   == {h \in Handlers : hpc[h] = "sent"}
StillCounted == IF wpc = "taken" THEN 1 ELSE 0

\* The exact value of the counter in every interleaving: deliveries in the queue,
\* less those not counted yet, plus the one the worker has not subtracted, where
\* a negative balance appears as a number just below 2^64.
DepthBalance ==
    LET balance == queued + StillCounted - Cardinality(Uncounted)
    IN  depth = IF balance >= 0 THEN balance ELSE DepthMod + balance

\* The race between handler and worker leaves no trace: whenever no update is
\* pending, the counter is the length of the queue, however often it has wrapped.
DepthExactWhenQuiet ==
    (Uncounted = {} /\ wpc # "taken") => depth = queued

\* In a checked build a handler can only panic after the worker has: the counter
\* stands at its largest value only between an underflow and its repair, and the
\* underflow has killed the worker.
WorkerPanicsFirst ==
    (\E h \in Handlers : hpc[h] = "panicked") => wpc = "panicked"

\* The exported gauge is a queue depth: at most the capacity and the delivery that
\* passes through the worker's hands.  (metrics.rs names and exports it so.)
GaugeIsADepth == gauge <= QueueCap + 1
=============================================================================
