---------------------------- MODULE MqttStartup ----------------------------
(***************************************************************************)
(* Starting and stopping the MQTT adapter (mqtt.rs start_mqtt,             *)
(* subscribe_topics and MqttAdapterHandle::stop): the main thread, the     *)
(* runtime thread that sets the clients up one after the other, and the    *)
(* event loop of each client, which is spawned only after the client's     *)
(* SUBSCRIBE requests have gone into its bounded request channel.          *)
(* PUBLISHes are the subject of Pipeline.                                  *)
(***************************************************************************)
EXTENDS Naturals, FiniteSets

CONSTANTS ClientCount,   \* client_count; client_ids has as many entries
          TopicCount,    \* topics.len(): one filter for each rule
          ReqCap         \* capacity of a client's request channel (10 in the code)

ASSUME MqttStartupAssumption ==
    /\ ClientCount \in Nat \ {0}
    /\ TopicCount \in Nat
    /\ ReqCap \in Nat \ {0}

VARIABLES
    bad,        \* the filters subscribe() rejects; never changes
    main,       \* "waiting", "timedOut", "refused", "started", "stopping",
                \* "failed" or "stopped"
    stopSent,   \* the oneshot stop_tx has been used
    ready,      \* what was sent on ready_tx: "none", "ok" or "err"
    runtime,    \* runtime thread: "building", "clients", "serving", "awaiting", "ended"
    index,      \* the client being set up
    queuedNow,  \* SUBSCRIBEs of that client put into its channel so far
    subscribed, \* subscribed_clients
    announced,  \* clients logged as "MQTT subscriptions established"
    loop,       \* per client: "absent", "polling" or "ended"
    chan,       \* per client: SUBSCRIBEs in the request channel
    written     \* per client: SUBSCRIBEs written to the broker

mainVars    == <<main, stopSent>>
runtimeVars == <<runtime, index, queuedNow, subscribed, announced, ready>>
loopVars    == <<loop, chan, written>>
vars == <<bad, mainVars, runtimeVars, loopVars>>

Clients == 1..ClientCount
Topics  == 1..TopicCount

Init ==
    /\ bad \in SUBSET Topics
    /\ main = "waiting"
    /\ stopSent = FALSE
    /\ ready = "none"
    /\ runtime = "building"
    /\ index = 1
    /\ queuedNow = 0
    /\ subscribed = 0
    /\ announced = {}
    /\ loop = [c \in Clients |-> "absent"]
    /\ chan = [c \in Clients |-> 0]
    /\ written = [c \in Clients |-> 0]

-----------------------------------------------------------------------------
\* The runtime thread.
BuildRuntime ==
    /\ runtime = "building"
    /\ runtime' = "clients"
    /\ UNCHANGED <<bad, mainVars, index, queuedNow, subscribed, announced, ready, loopVars>>

BuildFails ==
    /\ runtime = "building"
    /\ runtime' = "ended"
    /\ ready' = "err"
    /\ UNCHANGED <<bad, mainVars, index, queuedNow, subscribed, announced, loopVars>>

\* Faulty variant of Subscribe: the channel has one place too few.
SubscribeOffByOne ==
    /\ runtime = "clients" /\ index \in Clients
    /\ queuedNow < TopicCount /\ queuedNow + 1 \notin bad
    /\ chan[index] + 1 < ReqCap
    /\ chan' = [chan EXCEPT ![index] = @ + 1]
    /\ queuedNow' = queuedNow + 1
    /\ UNCHANGED <<bad, mainVars, runtime, index, subscribed, announced, ready,
                   loop, written>>

\* subscribe(..).await of the next filter: it waits for room in a channel that
\* nothing drains before the event loop is spawned.
Subscribe ==
    /\ runtime = "clients" /\ index \in Clients
    /\ queuedNow < TopicCount
    /\ queuedNow + 1 \notin bad
    /\ chan[index] < ReqCap
    /\ chan' = [chan EXCEPT ![index] = @ + 1]
    /\ queuedNow' = queuedNow + 1
    /\ UNCHANGED <<bad, mainVars, runtime, index, subscribed, announced, ready,
                   loop, written>>

\* subscribe(..) rejects the filter: client and event loop are dropped, "continue".
SubscribeFails ==
    /\ runtime = "clients" /\ index \in Clients
    /\ queuedNow < TopicCount
    /\ queuedNow + 1 \in bad
    /\ chan' = [chan EXCEPT ![index] = 0]
    /\ queuedNow' = 0
    /\ index' = index + 1
    /\ UNCHANGED <<bad, mainVars, runtime, subscribed, announced, ready, loop, written>>

\* Every filter is queued: the client is announced and its event loop spawned.
SpawnLoop ==
    /\ runtime = "clients" /\ index \in Clients
    /\ queuedNow = TopicCount
    /\ announced' = announced \cup {index}
    /\ subscribed' = subscribed + 1
    /\ loop' = [loop EXCEPT ![index] = "polling"]
    /\ queuedNow' = 0
    /\ index' = index + 1
    /\ UNCHANGED <<bad, mainVars, runtime, ready, chan, written>>

\* The last client is done: readiness is reported and the thread awaits stop_rx.
ReportReady ==
    /\ runtime = "clients" /\ index \notin Clients
    /\ ready' = IF subscribed = 0 THEN "err" ELSE "ok"
    /\ runtime' = "serving"
    /\ UNCHANGED <<bad, mainVars, index, queuedNow, subscribed, announced, loopVars>>

\* stop_rx fires: the shutdown flag is raised and the tasks are awaited.
SeeStop ==
    /\ runtime = "serving"
    /\ stopSent
    /\ runtime' = "awaiting"
    /\ UNCHANGED <<bad, mainVars, index, queuedNow, subscribed, announced, ready, loopVars>>

\* Faulty variant of RuntimeEnds: the tasks are not awaited.
RuntimeEndsEarly ==
    /\ runtime = "awaiting"
    /\ runtime' = "ended"
    /\ UNCHANGED <<bad, mainVars, index, queuedNow, subscribed, announced, ready, loopVars>>

\* Every task has been awaited.
RuntimeEnds ==
    /\ runtime = "awaiting"
    /\ \A c \in Clients : loop[c] # "polling"
    /\ runtime' = "ended"
    /\ UNCHANGED <<bad, mainVars, index, queuedNow, subscribed, announced, ready, loopVars>>

Runtime == \/ BuildRuntime \/ BuildFails \/ Subscribe \/ SubscribeFails
           \/ SpawnLoop \/ ReportReady \/ SeeStop \/ RuntimeEnds

-----------------------------------------------------------------------------
\* Faulty variants of WriteSubscribe: a request is written again and again; the
\* channel is emptied and one request written.
WriteKeeps(c) ==
    /\ loop[c] = "polling" /\ chan[c] > 0
    /\ written' = [written EXCEPT ![c] = @ + 1]
    /\ UNCHANGED <<bad, mainVars, runtimeVars, loop, chan>>

WriteDrains(c) ==
    /\ loop[c] = "polling" /\ chan[c] > 0
    /\ chan' = [chan EXCEPT ![c] = 0]
    /\ written' = [written EXCEPT ![c] = @ + 1]
    /\ UNCHANGED <<bad, mainVars, runtimeVars, loop>>

\* The event loop of a client connects and writes the requests out.
WriteSubscribe(c) ==
    /\ loop[c] = "polling"
    /\ chan[c] > 0
    /\ chan' = [chan EXCEPT ![c] = @ - 1]
    /\ written' = [written EXCEPT ![c] = @ + 1]
    /\ UNCHANGED <<bad, mainVars, runtimeVars, loop>>

\* The loop breaks and drops the channel with what is still in it.
EndLoop(c) ==
    /\ loop[c] = "polling"
    /\ loop' = [loop EXCEPT ![c] = "ended"]
    /\ chan' = [chan EXCEPT ![c] = 0]
    /\ UNCHANGED <<bad, mainVars, runtimeVars, written>>

\* poll() fails: no broker, refused, connection lost.
LoopError(c) == EndLoop(c)

\* Faulty variant of LoopStop: the flag is never raised.
LoopStopNever(c) == runtime = "stopped" /\ EndLoop(c)

\* The shutdown flag is seen.
LoopStop(c) == runtime = "awaiting" /\ EndLoop(c)

-----------------------------------------------------------------------------
\* The main thread in ready_rx.recv_timeout(10 s).
ReadyOk ==
    /\ main = "waiting"
    /\ ready = "ok"
    /\ main' = "started"
    /\ UNCHANGED <<bad, stopSent, runtimeVars, loopVars>>

\* Err(err) from the runtime thread: stop and join.
ReadyErr ==
    /\ main = "waiting"
    /\ ready = "err"
    /\ main' = "refused"
    /\ stopSent' = TRUE
    /\ UNCHANGED <<bad, runtimeVars, loopVars>>

\* "timeout waiting MQTT startup readiness": stop and join.
ReadyTimeout ==
    /\ main = "waiting"
    /\ main' = "timedOut"
    /\ stopSent' = TRUE
    /\ UNCHANGED <<bad, runtimeVars, loopVars>>

\* MqttAdapterHandle::stop.
Stop ==
    /\ main = "started"
    /\ main' = "stopping"
    /\ stopSent' = TRUE
    /\ UNCHANGED <<bad, runtimeVars, loopVars>>

\* runtime_thread.join() returns: start_mqtt fails, or stop is done.
Join ==
    /\ main \in {"timedOut", "refused", "stopping"}
    /\ runtime = "ended"
    /\ main' = IF main = "stopping" THEN "stopped" ELSE "failed"
    /\ UNCHANGED <<bad, stopSent, runtimeVars, loopVars>>

\* Nothing is left to do.
Finished == main \in {"failed", "stopped"} /\ UNCHANGED vars

Next ==
    \/ Runtime
    \/ \E c \in Clients : WriteSubscribe(c) \/ LoopError(c) \/ LoopStop(c)
    \/ ReadyOk \/ ReadyErr \/ ReadyTimeout \/ Stop \/ Join \/ Finished

Spec == Init /\ [][Next]_vars

\* The threads and tasks run; recv_timeout returns within ten seconds, with the
\* message or without.  Nothing is assumed of errors and of the operator.
FairSpec ==
    /\ Spec
    /\ WF_vars(Runtime)
    /\ WF_vars(ReadyOk \/ ReadyErr \/ ReadyTimeout)
    /\ WF_vars(Join)
    /\ \A c \in Clients : WF_vars(WriteSubscribe(c)) /\ WF_vars(LoopStop(c))

-----------------------------------------------------------------------------
\* Every variable keeps its type, the channels their bound.
TypeOK ==
    /\ bad \subseteq Topics
    /\ main \in {"waiting", "timedOut", "refused", "started", "stopping",
                 "failed", "stopped"}
    /\ stopSent \in BOOLEAN
    /\ ready \in {"none", "ok", "err"}
    /\ runtime \in {"building", "clients", "serving", "awaiting", "ended"}
    /\ index \in 1..(ClientCount + 1)
    /\ queuedNow \in 0..TopicCount
    /\ subscribed \in 0..ClientCount
    /\ announced \subseteq Clients
    /\ loop \in [Clients -> {"absent", "polling", "ended"}]
    /\ chan \in [Clients -> 0..ReqCap]
    /\ written \in [Clients -> 0..TopicCount]

\* Neither a failed start nor a finished stop leaves an event loop behind, not even
\* when the timeout races with the runtime thread reporting success: the handler,
\* and with it the eval queue, is free to be dropped.
NothingLeftBehind ==
    main \in {"failed", "stopped"} =>
        /\ \A c \in Clients : loop[c] # "polling" /\ chan[c] = 0
        /\ runtime = "ended"

\* start_mqtt returns, with a running adapter or with an error.
StartReturns == main = "waiting" ~> main \in {"started", "failed"}

\* MqttAdapterHandle::stop returns, whatever state the clients are in.
StopReturns == main = "stopping" ~> main = "stopped"

\* A client announced as subscribed gets its subscriptions out, or its loop ends.
AnnouncedIsSubscribed ==
    \A c \in Clients : c \in announced ~> (written[c] = TopicCount \/ loop[c] = "ended")

\* After "timeout waiting MQTT startup readiness" start_mqtt returns StartFailed.
TimeoutFailsStart == main = "timedOut" ~> main = "failed"
=============================================================================
