----------------------------- MODULE EvalWorker -----------------------------
(***************************************************************************)
(* The eval worker seen from the other side than in Pipeline: what it does *)
(* with a message once it has taken it (main.rs build_handler, runtime.rs  *)
(* evaluate), with the metrics of EvalMetrics and the sinks of Sinks, and  *)
(* how run() waits for it and for the flush of its sinks (JoinWaiter).     *)
(* Which rules match is left open, and so is how messages arrive.  The     *)
(* payload format is JSON: the matched rules of a message are one group.   *)
(***************************************************************************)
EXTENDS EvalMetrics, Sinks

ASSUME EvalWorkerAssumption == DOMAIN Destinations = Rules

VARIABLES
    arrived,  \* messages 1..arrived have been put into the eval queue
    taken,    \* messages 1..taken have been taken from it; taken is the current one
    wpc,      \* the worker: "unborn", "idle", "evaluating", "tally", "error", "typeError",
              \* "ack", "dispatch", "dropping" (the closure's dispatcher), "ended"
    attempts, \* rules of the current message whose attempts are not yet counted
    result,   \* per message, the rules that answered
    acked,    \* messages whose acknowledgement was tried
    panicked, \* the worker is unwinding, or has unwound
    phase,    \* main: "starting", "running", "draining", "forcing", "exited"
    outcome   \* how run() ended, see Outcomes

workerVars == <<arrived, taken, wpc, attempts, result, acked, panicked>>
mainVars   == <<phase, outcome>>
vars == <<metricsVars, sinkVars, workerVars, mainVars>>

Outcomes == {"none", "refused", "drained", "panicked", "stopped", "abandoned", "crashed"}

Init ==
    /\ MetricsInit
    /\ SinksInit
    /\ arrived = 0
    /\ taken = 0
    /\ wpc = "unborn"
    /\ attempts = {}
    /\ result = [m \in 1..MaxMsg |-> {}]
    /\ acked = {}
    /\ panicked = FALSE
    /\ phase = "starting"
    /\ outcome = "none"

Alive == phase # "exited"

\* The worker thread exists and is at this step.
At(step) == Alive /\ wpc = step

\* What is still to be sent of the results of a message.
Unsent(m) == {record \in Records : /\ record.msg = m
                                   /\ record.rule \in result[m]
                                   /\ fate[record] = "unsent"}

-----------------------------------------------------------------------------
\* run, before and after the worker

Begin ==
    /\ phase = "starting"
    /\ BuildSinks
    /\ wpc' = "idle"
    /\ phase' = "running"
    /\ UNCHANGED <<metricsVars, arrived, taken, attempts, result, acked, panicked, outcome>>

\* Dispatcher::new misses a sink or cannot make one.
Refuse ==
    /\ phase = "starting"
    /\ phase' = "exited"
    /\ outcome' = "refused"
    /\ UNCHANGED <<metricsVars, sinkVars, workerVars>>

\* A signal; adapter.stop() has returned, and every Sender of the queue is gone.
IntakeStopped ==
    /\ phase = "running"
    /\ phase' = "draining"
    /\ UNCHANGED <<metricsVars, sinkVars, workerVars, outcome>>

\* Faulty variant of Joined: main does not wait for what the closure owns.
JoinedEarly ==
    /\ phase \in {"draining", "forcing"}
    /\ wpc \in {"dropping", "ended"}
    /\ phase' = "exited"
    /\ outcome' = CASE panicked -> "panicked"
                    [] ~panicked /\ phase = "draining" -> "drained"
                    [] ~panicked /\ phase = "forcing" -> "stopped"
    /\ UNCHANGED <<metricsVars, sinkVars, workerVars>>

\* The worker could be joined: main logs "sinks dropped".
Joined ==
    /\ phase \in {"draining", "forcing"}
    /\ wpc = "ended"
    /\ phase' = "exited"
    /\ outcome' = CASE panicked -> "panicked"
                    [] ~panicked /\ phase = "draining" -> "drained"
                    [] ~panicked /\ phase = "forcing" -> "stopped"
    /\ UNCHANGED <<metricsVars, sinkVars, workerVars>>

\* JoinWaiter::wait gives up: first main sets force_shutdown, then it returns and
\* whatever the worker is at ends with the process.
WaitTimeout ==
    /\ \/ phase = "draining" /\ phase' = "forcing" /\ UNCHANGED outcome
       \/ phase = "forcing" /\ phase' = "exited" /\ outcome' = "abandoned"
    /\ UNCHANGED <<metricsVars, sinkVars, workerVars>>

Crash ==
    /\ Alive
    /\ phase' = "exited"
    /\ outcome' = "crashed"
    /\ UNCHANGED <<metricsVars, sinkVars, workerVars>>

-----------------------------------------------------------------------------
\* The closure of build_handler

Arrive ==
    /\ phase = "running"
    /\ wpc \notin {"dropping", "ended"}
    /\ arrived < MaxMsg
    /\ arrived' = arrived + 1
    /\ UNCHANGED <<metricsVars, sinkVars, taken, wpc, attempts, result, acked, panicked,
                   mainVars>>

\* recv, the check of force_shutdown, and evaluate up to its rules: none matches,
\* the payload is refused, or the matched rules are evaluated.
Take ==
    /\ At("idle")
    /\ taken < arrived
    /\ phase # "forcing"
    /\ taken' = taken + 1
    /\ \/ /\ wpc' = "ack"
          /\ UNCHANGED <<counter, rec, attempts>>
       \/ /\ wpc' = "ack"
          /\ Count("payloadErrors")
          /\ UNCHANGED <<rec, attempts>>
       \/ \E rs \in SUBSET Rules \ {{}} :
             /\ wpc' = "evaluating"
             /\ Evaluating(rs)
             /\ attempts' = rs
             /\ UNCHANGED counter
    /\ UNCHANGED <<truth, endpointVars, sinkVars, arrived, result, acked, panicked, mainVars>>

\* The parallel evaluation is over when every rule's is.
Evaluated ==
    /\ At("evaluating")
    /\ \A r \in Rules : rec[r] = Resting
    /\ wpc' = "tally"
    /\ UNCHANGED <<metricsVars, sinkVars, arrived, taken, attempts, result, acked, panicked,
                   mainVars>>

\* The attempts in the order of the rules: record_eval_success and a result or
\* none, or the first half of record_eval_error.
Tally ==
    /\ At("tally")
    /\ \E r \in attempts :
          /\ \A s \in attempts : r <= s
          /\ attempts' = attempts \ {r}
          /\ Count("evals")
          /\ \/ UNCHANGED <<wpc, result>>
             \/ result' = [result EXCEPT ![taken] = @ \cup {r}] /\ UNCHANGED wpc
             \/ wpc' = "error" /\ UNCHANGED result
    /\ UNCHANGED <<recorderVars, endpointVars, sinkVars, arrived, taken, acked, panicked,
                   mainVars>>

\* The second half, and the third for a type error.
TallyError ==
    /\ \/ At("error") /\ Count("errors") /\ wpc' \in {"tally", "typeError"}
       \/ At("typeError") /\ Count("typeErrors") /\ wpc' = "tally"
    /\ UNCHANGED <<recorderVars, endpointVars, sinkVars, arrived, taken, attempts, result,
                   acked, panicked, mainVars>>

EvaluateReturns ==
    /\ At("tally")
    /\ attempts = {}
    /\ wpc' = "ack"
    /\ UNCHANGED <<metricsVars, sinkVars, arrived, taken, attempts, result, acked, panicked,
                   mainVars>>

\* delivery.ack() comes before the first dispatch.
Ack ==
    /\ At("ack")
    /\ acked' = acked \cup {taken}
    /\ wpc' = "dispatch"
    /\ UNCHANGED <<metricsVars, sinkVars, arrived, taken, attempts, result, panicked, mainVars>>

\* The results in the order of the rules, each to its destinations in turn.
DispatchNext ==
    /\ At("dispatch")
    /\ \E record \in Unsent(taken) :
          /\ \A other \in Unsent(taken) :
                \/ record.rule < other.rule
                \/ record.rule = other.rule /\ record.pos <= other.pos
          /\ Send(record)
    /\ UNCHANGED <<metricsVars, workerVars, mainVars>>

\* Faulty variant of DispatchDone: results left over are given up on a shutdown.
DispatchGivesUp ==
    /\ At("dispatch")
    /\ Unsent(taken) = {} \/ phase = "forcing"
    /\ wpc' = "idle"
    /\ UNCHANGED <<metricsVars, sinkVars, arrived, taken, attempts, result, acked, panicked,
                   mainVars>>

DispatchDone ==
    /\ At("dispatch")
    /\ Unsent(taken) = {}
    /\ wpc' = "idle"
    /\ UNCHANGED <<metricsVars, sinkVars, arrived, taken, attempts, result, acked, panicked,
                   mainVars>>

\* The ways out of the loop: the queue is empty and has no Sender left, or a
\* message was received after force_shutdown was set, and is discarded.
LeaveLoop ==
    /\ At("idle")
    /\ \/ phase \in {"draining", "forcing"} /\ taken = arrived /\ UNCHANGED taken
       \/ phase = "forcing" /\ taken < arrived /\ taken' = taken + 1
    /\ wpc' = "dropping"
    /\ UNCHANGED <<metricsVars, sinkVars, arrived, attempts, result, acked, panicked, mainVars>>

\* A rule's evaluation panics, in the worker or in a thread of the pool, which lets
\* the others finish; unwinding drops what the closure owns.
Panic ==
    /\ At("evaluating")
    /\ \E r \in Rules : rec[r].at = "running"
    /\ \A r \in Rules : rec[r].at \in {"resting", "running"}
    /\ rec' = [r \in Rules |-> Resting]
    /\ panicked' = TRUE
    /\ wpc' = "dropping"
    /\ UNCHANGED <<counter, truth, endpointVars, sinkVars, arrived, taken, attempts, result,
                   acked, mainVars>>

\* The dispatcher is dropped, sink by sink; then the thread is over.
Drop ==
    /\ At("dropping")
    /\ \E d \in sinks : DropSink(d) \/ FlushTimeout(d)
    /\ UNCHANGED <<metricsVars, workerVars, mainVars>>

WorkerEnds ==
    /\ At("dropping")
    /\ sinks = {}
    /\ wpc' = "ended"
    /\ UNCHANGED <<metricsVars, sinkVars, arrived, taken, attempts, result, acked, panicked,
                   mainVars>>

-----------------------------------------------------------------------------
Worker ==
    \/ Take \/ Evaluated \/ Tally \/ TallyError \/ EvaluateReturns \/ Ack
    \/ DispatchNext \/ DispatchDone \/ LeaveLoop \/ Panic \/ Drop \/ WorkerEnds

Main == Begin \/ Refuse \/ IntakeStopped \/ Joined \/ WaitTimeout \/ Crash

\* The other threads: those of the pool, the endpoint's and the producers'.
Others ==
    \/ Arrive
    \/ At("evaluating") /\ Record /\ UNCHANGED <<sinkVars, workerVars, mainVars>>
    \/ /\ Alive /\ phase # "starting"
       /\ Endpoint
       /\ UNCHANGED <<sinkVars, workerVars, mainVars>>
    \/ /\ Alive
       /\ \E record \in Records : Deliver(record)
       /\ UNCHANGED <<metricsVars, workerVars, mainVars>>

Next == Worker \/ Main \/ Others

Spec == Init /\ [][Next]_vars

-----------------------------------------------------------------------------
\* Properties

WorkerSteps == {"unborn", "idle", "evaluating", "tally", "error", "typeError", "ack",
                "dispatch", "dropping", "ended"}

\* Every variable has its type; only messages taken have been acknowledged, and no
\* sink is built that no rule names.
TypeOK ==
    /\ MetricsTypeOK
    /\ SinksTypeOK
    /\ arrived \in 0..MaxMsg
    /\ taken \in 0..arrived
    /\ wpc \in WorkerSteps
    /\ attempts \in SUBSET Rules
    /\ result \in [1..MaxMsg -> SUBSET Rules]
    /\ acked \subseteq 1..taken
    /\ panicked \in BOOLEAN
    /\ phase \in {"starting", "running", "draining", "forcing", "exited"}
    /\ outcome \in Outcomes

\* When main logs "sinks dropped", also after a panic or a forced stop, every
\* sink is gone and nothing is left in the queue of a producer: it was delivered,
\* has failed, or its flush timed out (main.rs:139-157, sink.rs:218-228).
SinksDroppedMeansFlushed ==
    outcome \in {"drained", "panicked", "stopped"} =>
        /\ sinks = {}
        /\ \A record \in Records : fate[record] # "queued"

\* The broker forgets a message when it is acknowledged, which is before its
\* results are dispatched (main.rs:359-361).  Yet at most the message in the
\* worker's hands can lose results, and only if the process ends without the
\* worker; every other result has been offered to all destinations of its rule,
\* each of which has a sink.
AckedReachesSinks ==
    /\ \A m \in acked : Unsent(m) # {} =>
          /\ m = taken /\ wpc = "dispatch"
          /\ outcome \in {"none", "abandoned", "crashed"}
    /\ \A record \in Records : fate[record] # "unsupported"
=============================================================================
