------------------------------ MODULE Pipeline ------------------------------
(***************************************************************************)
(* The message path of tenon-oss (main.rs build_handler and run, mqtt.rs   *)
(* run_event_loop, IncomingDelivery::ack and MqttAdapterHandle::stop):     *)
(* broker -> one event loop per MQTT client -> bounded eval queue -> the   *)
(* single eval worker -> acknowledgement -> sinks, together with the       *)
(* shutdown protocol of the main thread, crashes and restarts.             *)
(*                                                                         *)
(* Messages are numbered in the order the broker sends them first; the     *)
(* shared subscription hands each of them to one client.  Metrics are left *)
(* out here (DepthGauge models the queue-depth gauge), and starting the    *)
(* adapter is the subject of MqttStartup.                                  *)
(***************************************************************************)
EXTENDS Naturals, Sequences, FiniteSets

CONSTANTS Clients,     \* the MQTT clients of the process (client_ids)
          MaxMsg,      \* bound: messages the broker ever sends
          Qos0,        \* the messages published with QoS 0; the others have QoS 1
          QueueCap,    \* mqtt.queue_capacity: capacity of the eval queue
          ReqCap,      \* capacity of a client's request channel (10 in the code)
          ReceiveMax,  \* unacknowledged QoS 1 messages the broker allows a client
          CleanStart,  \* mqtt.clean_start: the broker forgets the session
          MayPanic,    \* evaluating may panic (a build with overflow checks)
          MaxRuns,     \* bound: number of times the process is started
          NoDelivery   \* the worker holds nothing

ASSUME PipelineAssumption ==
    /\ IsFiniteSet(Clients)
    /\ MaxMsg \in Nat
    /\ Qos0 \subseteq 1..MaxMsg
    /\ QueueCap \in Nat \ {0}
    /\ ReqCap \in Nat \ {0}
    /\ ReceiveMax \in Nat \ {0}
    /\ CleanStart \in BOOLEAN
    /\ MayPanic \in BOOLEAN
    /\ MaxRuns \in Nat \ {0}
    /\ NoDelivery \notin [client : Clients, msg : 1..MaxMsg]

VARIABLES
    published,   \* broker: messages 1..published have been sent once
    inflight,    \* broker: per client, the unacknowledged QoS 1 messages
    resend,      \* broker: per client, those still to send again on this connection
    acked,       \* broker: the messages a PUBACK has released
    wire,        \* per client, messages on the connection not yet polled
    loop,        \* per client, "poll" while run_event_loop runs, then "done"
    req,         \* per client, PUBACKs queued in the request channel
    lost,        \* per client, messages this connection will never acknowledge
    queue,       \* the eval queue: deliveries, oldest first
    wpc,         \* eval worker: "idle", "taken", "evaluating", "ack", "dispatch",
                 \* then "ended" or "panicked"
    cur,         \* the delivery the worker holds, or NoDelivery
    phase,       \* main thread: "running", "stopping", "draining", "forcing", "exited"
    outcome,     \* how this run ended, see Outcomes
    runs,        \* processes started so far
    accepted,    \* history: deliveries the queue accepted in this run, in order
    dispatched,  \* history: deliveries dispatched in this run, in order
    evaluated    \* history: messages evaluated by any run

brokerVars == <<published, inflight, resend, acked>>
clientVars == <<wire, loop, req, lost>>
workerVars == <<wpc, cur>>
mainVars   == <<phase, outcome, runs>>
vars == <<brokerVars, clientVars, queue, workerVars, mainVars,
          accepted, dispatched, evaluated>>

Msgs       == 1..MaxMsg
Deliveries == [client : Clients, msg : Msgs]
Outcomes   == {"none", "drained", "panicked", "stopped", "abandoned", "crashed"}

\* The threads of the process exist.
Alive == phase # "exited"

\* force_shutdown: set between the drain timeout and the end of the process.
Forced == phase = "forcing"

\* Every Sender of the eval queue is gone: the runtime thread, which holds the
\* handler, has been joined.
SendersGone == phase \in {"draining", "forcing"}

\* The eval worker still owns the receiving end of the queue.
WorkerUp == wpc \notin {"ended", "panicked"}

NoSeqs == [c \in Clients |-> <<>>]
NoSets == [c \in Clients |-> {}]

-----------------------------------------------------------------------------
Init ==
    /\ published = 0
    /\ inflight = NoSets
    /\ resend = NoSets
    /\ acked = {}
    /\ wire = NoSeqs
    /\ loop = [c \in Clients |-> "poll"]
    /\ req = NoSeqs
    /\ lost = NoSets
    /\ queue = <<>>
    /\ wpc = "idle"
    /\ cur = NoDelivery
    /\ phase = "running"
    /\ outcome = "none"
    /\ runs = 1
    /\ accepted = <<>>
    /\ dispatched = <<>>
    /\ evaluated = {}

\* External: the broker sends the next message to a connected client of the
\* shared group whose receive window is open (QoS 0 does not use the window).
BrokerSend(c) ==
    /\ Alive
    /\ loop[c] = "poll"
    /\ resend[c] = {}
    /\ published < MaxMsg
    /\ published' = published + 1
    /\ wire' = [wire EXCEPT ![c] = Append(@, published + 1)]
    /\ IF published + 1 \in Qos0
       THEN UNCHANGED inflight
       ELSE /\ Cardinality(inflight[c]) < ReceiveMax
            /\ inflight' = [inflight EXCEPT ![c] = @ \cup {published + 1}]
    /\ UNCHANGED <<resend, acked, loop, req, lost, queue, workerVars, mainVars,
                   accepted, dispatched, evaluated>>

\* External: on a resumed session the broker first sends the unacknowledged
\* messages again, in their order.
BrokerResend(c) ==
    /\ Alive
    /\ loop[c] = "poll"
    /\ \E m \in resend[c] :
          /\ \A n \in resend[c] : m <= n
          /\ resend' = [resend EXCEPT ![c] = @ \ {m}]
          /\ wire' = [wire EXCEPT ![c] = Append(@, m)]
    /\ UNCHANGED <<published, inflight, acked, loop, req, lost, queue, workerVars,
                   mainVars, accepted, dispatched, evaluated>>

\* The event loop writes the oldest queued PUBACK; the broker releases it.
FlushAck(c) ==
    /\ Alive
    /\ loop[c] = "poll"
    /\ req[c] # <<>>
    /\ req' = [req EXCEPT ![c] = Tail(@)]
    /\ inflight' = [inflight EXCEPT ![c] = @ \ {Head(req[c])}]
    /\ acked' = acked \cup {Head(req[c])}
    /\ UNCHANGED <<published, resend, wire, loop, lost, queue, workerVars, mainVars,
                   accepted, dispatched, evaluated>>

\* The handler's try_send succeeds: there is room and the receiver exists.
QueueOpen == WorkerUp /\ Len(queue) < QueueCap

\* Faulty variant of Accept: without manual acks the client library acknowledges a
\* PUBLISH on receipt.
AcceptAutoAck(c) ==
    /\ Alive /\ loop[c] = "poll" /\ wire[c] # <<>> /\ QueueOpen
    /\ LET d == [client |-> c, msg |-> Head(wire[c])]
       IN  queue' = Append(queue, d) /\ accepted' = Append(accepted, d)
    /\ wire' = [wire EXCEPT ![c] = Tail(@)]
    /\ req' = [req EXCEPT ![c] = Append(@, Head(wire[c]))]
    /\ UNCHANGED <<brokerVars, loop, lost, workerVars, mainVars, dispatched, evaluated>>

\* poll() returns a PUBLISH and the handler puts it in the eval queue.
Accept(c) ==
    /\ Alive
    /\ loop[c] = "poll"
    /\ wire[c] # <<>>
    /\ QueueOpen
    /\ LET d == [client |-> c, msg |-> Head(wire[c])]
       IN  /\ queue' = Append(queue, d)
           /\ accepted' = Append(accepted, d)
    /\ wire' = [wire EXCEPT ![c] = Tail(@)]
    /\ UNCHANGED <<brokerVars, loop, req, lost, workerVars, mainVars,
                   dispatched, evaluated>>

\* Faulty variant of Reject: a dropped message is acknowledged to free its slot.
RejectAcks(c) ==
    /\ Alive /\ loop[c] = "poll" /\ wire[c] # <<>> /\ ~QueueOpen
    /\ wire' = [wire EXCEPT ![c] = Tail(@)]
    /\ req' = [req EXCEPT ![c] = Append(@, Head(wire[c]))]
    /\ UNCHANGED <<brokerVars, loop, lost, queue, workerVars, mainVars,
                   accepted, dispatched, evaluated>>

\* TrySendError::Full or Disconnected: the delivery is dropped, unacknowledged.
Reject(c) ==
    /\ Alive
    /\ loop[c] = "poll"
    /\ wire[c] # <<>>
    /\ ~QueueOpen
    /\ wire' = [wire EXCEPT ![c] = Tail(@)]
    /\ lost' = [lost EXCEPT ![c] = @ \cup ({Head(wire[c])} \ Qos0)]
    /\ UNCHANGED <<brokerVars, loop, req, queue, workerVars, mainVars,
                   accepted, dispatched, evaluated>>

\* run_event_loop breaks: its EventLoop is dropped, and with it the connection
\* and the request channel.  Nothing starts the loop again in this process.
EndLoop(c) ==
    /\ Alive
    /\ loop[c] = "poll"
    /\ loop' = [loop EXCEPT ![c] = "done"]
    /\ wire' = [wire EXCEPT ![c] = <<>>]
    /\ req' = [req EXCEPT ![c] = <<>>]
    /\ resend' = [resend EXCEPT ![c] = {}]
    /\ UNCHANGED <<published, inflight, acked, lost, queue, workerVars, mainVars,
                   accepted, dispatched, evaluated>>

\* poll() returned an error (connection lost, keep-alive expired, ...).
LoopError(c) == EndLoop(c)

\* The select! saw the shutdown flag.
LoopStop(c) == phase = "stopping" /\ EndLoop(c)

-----------------------------------------------------------------------------
\* Faulty variant of Take: the newest delivery first.
TakeNewest ==
    /\ Alive /\ wpc = "idle" /\ queue # <<>>
    /\ cur' = queue[Len(queue)]
    /\ queue' = SubSeq(queue, 1, Len(queue) - 1)
    /\ wpc' = "taken"
    /\ UNCHANGED <<brokerVars, clientVars, mainVars, accepted, dispatched, evaluated>>

\* Faulty variant of Take: the worker stops taking deliveries on shutdown.
TakeWhileRunning ==
    /\ phase = "running" /\ wpc = "idle" /\ queue # <<>>
    /\ cur' = Head(queue)
    /\ queue' = Tail(queue)
    /\ wpc' = "taken"
    /\ UNCHANGED <<brokerVars, clientVars, mainVars, accepted, dispatched, evaluated>>

\* The worker's recv() returns the oldest delivery.
Take ==
    /\ Alive
    /\ wpc = "idle"
    /\ queue # <<>>
    /\ cur' = Head(queue)
    /\ queue' = Tail(queue)
    /\ wpc' = "taken"
    /\ UNCHANGED <<brokerVars, clientVars, mainVars, accepted, dispatched, evaluated>>

\* Faulty variant of WorkerDone: the worker leaves as soon as the Senders are gone.
WorkerDoneEarly ==
    /\ Alive /\ wpc = "idle" /\ SendersGone
    /\ wpc' = "ended"
    /\ UNCHANGED <<brokerVars, clientVars, queue, cur, mainVars,
                   accepted, dispatched, evaluated>>

\* Faulty variant of WorkerDone: a Sender survives the runtime thread, and recv()
\* waits for it until the worker is forced to stop.
WorkerDoneWhenForced ==
    /\ Alive /\ wpc = "idle" /\ queue = <<>> /\ Forced
    /\ wpc' = "ended"
    /\ UNCHANGED <<brokerVars, clientVars, queue, cur, mainVars,
                   accepted, dispatched, evaluated>>

\* recv() fails: the queue is empty and every Sender is gone.
WorkerDone ==
    /\ Alive
    /\ wpc = "idle"
    /\ queue = <<>>
    /\ SendersGone
    /\ wpc' = "ended"
    /\ UNCHANGED <<brokerVars, clientVars, queue, cur, mainVars,
                   accepted, dispatched, evaluated>>

\* The worker drops the delivery it has just taken, unacknowledged; those still
\* in the queue are never taken.
DropDelivery ==
    /\ Alive
    /\ cur' = NoDelivery
    /\ lost' = [lost EXCEPT ![cur.client] = @ \cup ({cur.msg} \ Qos0)]
    /\ UNCHANGED <<brokerVars, wire, loop, req, queue, mainVars,
                   accepted, dispatched, evaluated>>

\* force_shutdown is checked after recv(): the worker breaks out of its loop ...
WorkerForced == wpc = "taken" /\ Forced /\ DropDelivery /\ wpc' = "ended"

\* ... or goes on, whatever main does from here.
NotForced ==
    /\ Alive
    /\ wpc = "taken"
    /\ ~Forced
    /\ wpc' = "evaluating"
    /\ UNCHANGED <<brokerVars, clientVars, queue, cur, mainVars,
                   accepted, dispatched, evaluated>>

\* The depth counter underflows in a build with overflow checks.
WorkerPanic == wpc = "evaluating" /\ MayPanic /\ DropDelivery /\ wpc' = "panicked"

\* Faulty variant of Evaluate: a message is evaluated and never acknowledged.
EvaluateSkipsAck ==
    /\ Alive /\ wpc = "evaluating"
    /\ wpc' = "dispatch"
    /\ evaluated' = evaluated \cup {cur.msg}
    /\ UNCHANGED <<brokerVars, clientVars, queue, cur, mainVars, accepted, dispatched>>

\* engine.evaluate(&delivery.message).
Evaluate ==
    /\ Alive
    /\ wpc = "evaluating"
    /\ wpc' = "ack"
    /\ evaluated' = evaluated \cup {cur.msg}
    /\ UNCHANGED <<brokerVars, clientVars, queue, cur, mainVars, accepted, dispatched>>

\* Faulty variants of RequestOpen: an unbounded channel, and one place too few.
RequestAlwaysOpen(c) == loop[c] = "poll"
RequestOpenOffByOne(c) == loop[c] = "poll" /\ Len(req[c]) + 1 < ReqCap

\* try_ack has nothing to do for QoS 0; otherwise it needs a live event loop
\* and a free place in the request channel.
RequestOpen(c) == loop[c] = "poll" /\ Len(req[c]) < ReqCap

\* delivery.ack(): the PUBACK is queued for the event loop to write.
AckQueued ==
    /\ cur.msg \notin Qos0
    /\ RequestOpen(cur.client)
    /\ req' = [req EXCEPT ![cur.client] = Append(@, cur.msg)]
    /\ UNCHANGED lost

\* try_ack fails: a warning, and the connection never acknowledges the message.
AckFailed ==
    /\ cur.msg \notin Qos0
    /\ ~RequestOpen(cur.client)
    /\ lost' = [lost EXCEPT ![cur.client] = @ \cup {cur.msg}]
    /\ UNCHANGED req

AckNothing == cur.msg \in Qos0 /\ UNCHANGED <<req, lost>>

Ack ==
    /\ Alive
    /\ wpc = "ack"
    /\ AckQueued \/ AckFailed \/ AckNothing
    /\ wpc' = "dispatch"
    /\ UNCHANGED <<brokerVars, wire, loop, queue, cur, mainVars,
                   accepted, dispatched, evaluated>>

\* The results go to the dispatcher and the worker returns to recv().
Dispatch ==
    /\ Alive
    /\ wpc = "dispatch"
    /\ wpc' = "idle"
    /\ cur' = NoDelivery
    /\ dispatched' = Append(dispatched, cur)
    /\ UNCHANGED <<brokerVars, clientVars, queue, mainVars, accepted, evaluated>>

-----------------------------------------------------------------------------
\* A SIGINT or SIGTERM arrives: main calls adapter.stop(), the runtime thread
\* raises the shutdown flag of every event loop.
ShutdownSignal ==
    /\ phase = "running"
    /\ phase' = "stopping"
    /\ UNCHANGED <<brokerVars, clientVars, queue, workerVars, outcome, runs,
                   accepted, dispatched, evaluated>>

\* Faulty variant of IntakeStopped: the event-loop tasks are not awaited.
IntakeStoppedEarly ==
    /\ phase = "stopping"
    /\ phase' = "draining"
    /\ UNCHANGED <<brokerVars, clientVars, queue, workerVars, outcome, runs,
                   accepted, dispatched, evaluated>>

\* Every event-loop task has been awaited and the runtime thread joined.
IntakeStopped ==
    /\ phase = "stopping"
    /\ \A c \in Clients : loop[c] = "done"
    /\ phase' = "draining"
    /\ UNCHANGED <<brokerVars, clientVars, queue, workerVars, outcome, runs,
                   accepted, dispatched, evaluated>>

\* run() returns and the process ends with its threads.
ExitWith(o) ==
    /\ phase' = "exited"
    /\ outcome' = o
    /\ UNCHANGED <<brokerVars, clientVars, queue, workerVars, runs,
                   accepted, dispatched, evaluated>>

\* JoinOutcome::Completed, in the first or the second wait: the result of the
\* join tells a worker that returned from one that panicked.
WorkerJoined ==
    /\ SendersGone
    /\ \/ wpc = "ended" /\ ExitWith(IF Forced THEN "stopped" ELSE "drained")
       \/ wpc = "panicked" /\ ExitWith("panicked")

\* JoinOutcome::TimedOut after SHUTDOWN_DRAIN_TIMEOUT: force_shutdown is set.
DrainTimeout ==
    /\ phase = "draining"
    /\ phase' = "forcing"
    /\ UNCHANGED <<brokerVars, clientVars, queue, workerVars, outcome, runs,
                   accepted, dispatched, evaluated>>

\* TimedOut again after SHUTDOWN_FORCE_STOP_TIMEOUT: main returns all the same.
ForceTimeout == phase = "forcing" /\ ExitWith("abandoned")

\* External: the process is killed.
Crash == Alive /\ ExitWith("crashed")

\* A new process connects with the persisted client ids.  The broker resumes
\* the sessions and sends every unacknowledged message again, in order.
Restart ==
    /\ phase = "exited"
    /\ runs < MaxRuns
    /\ runs' = runs + 1
    /\ phase' = "running"
    /\ outcome' = "none"
    /\ inflight' = IF CleanStart THEN NoSets ELSE inflight
    /\ resend' = inflight'
    /\ wire' = NoSeqs
    /\ loop' = [c \in Clients |-> "poll"]
    /\ req' = NoSeqs
    /\ lost' = NoSets
    /\ queue' = <<>>
    /\ wpc' = "idle"
    /\ cur' = NoDelivery
    /\ accepted' = <<>>
    /\ dispatched' = <<>>
    /\ UNCHANGED <<published, acked, evaluated>>

Next ==
    \/ \E c \in Clients : \/ BrokerSend(c) \/ BrokerResend(c) \/ FlushAck(c)
                          \/ Accept(c) \/ Reject(c)
                          \/ LoopError(c) \/ LoopStop(c)
    \/ Take \/ WorkerDone \/ WorkerForced \/ NotForced \/ WorkerPanic
    \/ Evaluate \/ Ack \/ Dispatch
    \/ ShutdownSignal \/ IntakeStopped \/ WorkerJoined
    \/ DrainTimeout \/ ForceTimeout \/ Crash \/ Restart

Spec == Init /\ [][Next]_vars

\* The threads of the process keep running.  select! polls its branches in
\* random order, so a ready shutdown flag is seen in the end although PUBLISHes
\* keep arriving.  Nothing is assumed of the broker, of signals, errors,
\* crashes, timeouts and restarts.
Worker == \/ Take \/ WorkerDone \/ WorkerForced \/ NotForced \/ WorkerPanic
          \/ Evaluate \/ Ack \/ Dispatch

Fairness ==
    /\ WF_vars(Worker)
    /\ WF_vars(IntakeStopped)
    /\ WF_vars(WorkerJoined)
    /\ \A c \in Clients : /\ WF_vars(Accept(c) \/ Reject(c))
                          /\ WF_vars(FlushAck(c))
                          /\ WF_vars(LoopStop(c))

FairSpec == Spec /\ Fairness


-----------------------------------------------------------------------------
Increasing(s) == \A i, j \in DOMAIN s : i < j => s[i] < s[j]
Elements(s) == {s[i] : i \in DOMAIN s}
Holding == IF cur = NoDelivery THEN <<>> ELSE <<cur>>

\* Every variable keeps its type, and the bounded channels their bounds.
TypeOK ==
    /\ published \in 0..MaxMsg
    /\ inflight \in [Clients -> SUBSET (Msgs \ Qos0)]
    /\ resend \in [Clients -> SUBSET (Msgs \ Qos0)]
    /\ acked \in SUBSET (Msgs \ Qos0)
    /\ wire \in [Clients -> Seq(Msgs)]
    /\ loop \in [Clients -> {"poll", "done"}]
    /\ req \in [Clients -> Seq(Msgs \ Qos0)]
    /\ \A c \in Clients : Len(req[c]) <= ReqCap
    /\ lost \in [Clients -> SUBSET (Msgs \ Qos0)]
    /\ queue \in Seq(Deliveries) /\ Len(queue) <= QueueCap
    /\ wpc \in {"idle", "taken", "evaluating", "ack", "dispatch", "ended", "panicked"}
    /\ IF wpc \in {"taken", "evaluating", "ack", "dispatch"}
       THEN cur \in Deliveries
       ELSE cur = NoDelivery
    /\ phase \in {"running", "stopping", "draining", "forcing", "exited"}
    /\ outcome \in Outcomes /\ (outcome = "none") = Alive
    /\ runs \in 1..MaxRuns
    /\ accepted \in Seq(Deliveries)
    /\ dispatched \in Seq(Deliveries)
    /\ evaluated \in SUBSET Msgs

\* At-least-once evaluation.  The worker acknowledges after evaluate(), and
\* nothing else does: a message the broker has released was evaluated by this
\* process or by an earlier one, whatever was dropped, forced, failed or killed.
AckAfterEval == acked \subseteq evaluated

\* PUBACKs leave a connection in the order the PUBLISHes arrived on it, as MQTT
\* demands of a receiver, although they pass through the queue shared by all
\* the clients and some of them are never sent.
AckOrder == \A c \in Clients : Increasing(req[c])

\* Every open slot of a client's receive window is accounted for: each
\* unacknowledged message is on its way to the queue, in it, with the worker,
\* waiting as a PUBACK, or lost.  A lost one occupies its slot until the
\* connection ends, which is how a burst over a full queue wedges a client.
WindowAccounting ==
    \A c \in Clients : loop[c] = "poll" =>
        LET Queued  == {queue[i].msg : i \in {k \in DOMAIN queue : queue[k].client = c}}
            Working == IF wpc \in {"taken", "evaluating", "ack"} /\ cur.client = c THEN {cur.msg} ELSE {}
        IN  /\ inflight[c] = (resend[c] \cup Elements(wire[c]) \cup Queued
                               \cup Working \cup Elements(req[c]) \cup lost[c]) \ Qos0
            /\ Elements(req[c]) \cap (lost[c] \cup Queued \cup Working) = {}
            /\ lost[c] \cap (Queued \cup Working \cup Elements(wire[c]) \cup resend[c]) = {}

\* With a receive window that fits the eval queue and the request channel, no
\* delivery is dropped on a live connection, and no PUBACK, until the worker
\* has panicked or was forced to stop.
SizedQueueLosesNothing ==
    ( /\ Qos0 = {}
      /\ Cardinality(Clients) * ReceiveMax <= QueueCap
      /\ ReceiveMax <= ReqCap
      /\ wpc # "panicked" )
    => \A c \in Clients : loop[c] = "poll" => lost[c] = {}

\* Deliveries leave the worker in the order the queue accepted them, and none
\* vanishes between the queue and the sinks while the worker is up.
QueueIsFifo ==
    WorkerUp => accepted = dispatched \o Holding \o queue

\* The log line "eval queue drained" tells the truth: on that exit every delivery
\* that this run accepted has been evaluated and dispatched.
DrainedMeansAll ==
    outcome = "drained" => /\ dispatched = accepted
                           /\ \A i \in DOMAIN accepted : accepted[i].msg \in evaluated

\* Once adapter.stop() has returned no delivery enters the queue, no PUBACK can be
\* queued and nothing more is released: what the drain evaluates is sent again
\* to the next process.
StoppedIntakeIsQuiet ==
    [][SendersGone => UNCHANGED <<accepted, req, acked>>]_vars

\* adapter.stop() and the drain come to an end after a signal without the help of
\* any timeout.
ShutdownTerminates == phase = "stopping" ~> phase = "exited"

\* A delivery in the queue is evaluated in the end, unless the worker was forced to
\* stop or has panicked, or the process ended.
QueuedIsEvaluated ==
    \A m \in Msgs :
        (\E i \in DOMAIN queue : queue[i].msg = m) ~>
            (m \in evaluated \/ Forced \/ wpc = "panicked" \/ ~Alive)

\* A full receive window opens again, unless a slot of it was lost.
WindowReopens ==
    \A c \in Clients :
        Cardinality(inflight[c]) = ReceiveMax ~>
            \/ Cardinality(inflight[c]) < ReceiveMax
            \/ lost[c] # {} \/ loop[c] = "done" \/ resend[c] # {}
            \/ wpc = "panicked" \/ ~Alive

-----------------------------------------------------------------------------
(***************************************************************************)
(* The pipeline implements the delivery guarantee of AtLeastOnce: the      *)
(* history of the broker is the abstract one, evaluation is evaluation,    *)
(* and every other step of the process, a crash included, is a stutter.    *)
(***************************************************************************)
Guarantee == INSTANCE AtLeastOnce WITH
    Messages <- Msgs,
    Settleable <- Msgs \ Qos0,
    offered <- 1..published,
    settled <- acked

\* The refinement: no step of the process, its crash or its restart releases a
\* message that was not evaluated, or evaluates one the broker never sent.
ImplementsAtLeastOnce == Guarantee!Spec
=============================================================================
