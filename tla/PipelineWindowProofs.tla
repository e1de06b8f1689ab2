------------------------ MODULE PipelineWindowProofs ------------------------
(***************************************************************************)
(* Theorems about the receive windows in Pipeline, for every number of     *)
(* clients and messages and every capacity: each slot of a client's window *)
(* is accounted for, and an eval queue that fits the windows of all the    *)
(* clients loses nothing.                                                  *)
(***************************************************************************)
EXTENDS PipelineProofs, FiniteSetTheorems

(***************************************************************************)
(* While a client's event loop runs, the unacknowledged messages of its    *)
(* window are those in one of the five places of PipelineProofs, and those *)
(* that this connection has lost; a lost message is in none of the places. *)
(***************************************************************************)
WindowOf(c) ==
    loop[c] = "poll" => /\ inflight[c] = (Owed(c) \cup lost[c]) \ Qos0
                        /\ Owed(c) \cap lost[c] = {}

WindowInv == \A c \in Clients : WindowOf(c)

\* The tail of a sequence is the sequence without its first place.
LEMMA ShiftedTail ==
    ASSUME NEW S, NEW s \in Seq(S), s # <<>>
    PROVE  /\ \A i \in DOMAIN Tail(s) : i + 1 \in DOMAIN s /\ Tail(s)[i] = s[i + 1]
           /\ \A i \in DOMAIN s : i = 1 \/ (i - 1 \in DOMAIN Tail(s) /\ Tail(s)[i - 1] = s[i])
           /\ 1 \in DOMAIN s /\ Head(s) = s[1]
  OBVIOUS

\* The head of an increasing sequence is in its tail no more.
LEMMA HeadLeaves ==
    ASSUME NEW s \in Seq(Nat), s # <<>>, Increasing(s)
    PROVE  Head(s) \in Elements(s) /\ Elements(Tail(s)) = Elements(s) \ {Head(s)}
<1>1. /\ \A i \in DOMAIN Tail(s) : i + 1 \in DOMAIN s /\ Tail(s)[i] = s[i + 1]
      /\ \A i \in DOMAIN s : i = 1 \/ (i - 1 \in DOMAIN Tail(s) /\ Tail(s)[i - 1] = s[i])
      /\ 1 \in DOMAIN s /\ Head(s) = s[1]
  BY ONLY s \in Seq(Nat), s # <<>>, ShiftedTail
<1>2. Head(s) \in Elements(s) /\ Elements(Tail(s)) \subseteq Elements(s)
  BY TailElements
<1>3. \A m \in Elements(s) : m = Head(s) \/ m \in Elements(Tail(s))
  <2> SUFFICES ASSUME NEW i \in DOMAIN s, i # 1
               PROVE  s[i] \in Elements(Tail(s))
    BY <1>1 DEF Elements
  <2>1. i - 1 \in DOMAIN Tail(s) /\ Tail(s)[i - 1] = s[i]
    BY <1>1
  <2> QED
    BY <2>1 DEF Elements
<1>4. Head(s) \in Nat /\ \A m \in Elements(Tail(s)) : Head(s) < m
  BY TailIncreasing
<1>5. Head(s) \notin Elements(Tail(s))
  BY <1>4
<1> QED
  BY <1>2, <1>3, <1>5

\* The head of the queue leaves the messages queued for its client.
LEMMA QueueHead ==
    ASSUME NEW c \in Clients, queue \in Seq(Deliveries), queue # <<>>, queue' = Tail(queue)
    PROVE  \A m \in Msgs : m \in Queued(c) <=>
              m \in Queued(c)' \/ Head(queue) = [client |-> c, msg |-> m]
<1>1. /\ \A i \in DOMAIN Tail(queue) : i + 1 \in DOMAIN queue /\ Tail(queue)[i] = queue[i + 1]
      /\ \A i \in DOMAIN queue :
            i = 1 \/ (i - 1 \in DOMAIN Tail(queue) /\ Tail(queue)[i - 1] = queue[i])
      /\ 1 \in DOMAIN queue /\ Head(queue) = queue[1]
  BY ShiftedTail
<1> QED
  BY <1>1 DEF Queued

\* A message is in at most one of the places.
LEMMA PlacesApart ==
    ASSUME TypeOK, NEW c \in Clients, OrderOf(c)
    PROVE  /\ Elements(req[c]) \cap (Working(c) \cup Queued(c) \cup Behind(c)) = {}
           /\ Working(c) \cap (Queued(c) \cup Behind(c)) = {}
           /\ Queued(c) \cap Behind(c) = {}
           /\ Elements(wire[c]) \cap resend[c] = {}
<1>1. \A m \in Owed(c) : ~(m < m)
  <2>1. Owed(c) \subseteq Nat
    BY OrderTypes
  <2> QED
    BY <2>1
<1> QED
  BY <1>1 DEF OrderOf, Before, Owed, Behind

\* What is owed stays the same.
LEMMA SameWindow ==
    ASSUME NEW c \in Clients, WindowOf(c), loop'[c] = loop[c], Owed(c)' = Owed(c),
           lost'[c] = lost[c], inflight'[c] = inflight[c]
    PROVE  WindowOf(c)'
  BY DEF WindowOf

\* A message leaves the places without being acknowledged; one with QoS 1 is lost.
LEMMA DroppedMessage ==
    ASSUME NEW c \in Clients, WindowOf(c), NEW m \in Owed(c), loop'[c] = loop[c],
           Owed(c)' = Owed(c) \ {m}, lost'[c] = lost[c] \cup ({m} \ Qos0),
           inflight'[c] = inflight[c]
    PROVE  WindowOf(c)'
<1> USE DEF WindowOf
<1> SUFFICES ASSUME loop[c] = "poll"  PROVE WindowOf(c)'
  OBVIOUS
<1>1. (Owed(c)' \cup lost'[c]) \ Qos0 = (Owed(c) \cup lost[c]) \ Qos0
  OBVIOUS
<1>2. Owed(c)' \cap lost'[c] = {}
  OBVIOUS
<1> QED
  BY <1>1, <1>2

\* The steps of the broker and of the event loops keep the windows accounted for.
LEMMA WindowIntake ==
    ASSUME TypeOK, OrderInv, WindowInv, NEW c \in Clients,
           \/ BrokerSend(c) \/ BrokerResend(c) \/ FlushAck(c)
           \/ Accept(c) \/ Reject(c) \/ EndLoop(c)
    PROVE  WindowInv'
<1> USE DEF brokerVars, clientVars, workerVars, mainVars
<1>t. /\ published \in Nat /\ Msgs \subseteq Nat /\ queue \in Seq(Deliveries)
      /\ \A e \in Clients : req[e] \in Seq(Nat) /\ wire[e] \in Seq(Nat) /\ Owed(e) \subseteq Nat
  BY OrderTypes
<1>o. /\ OrderOf(c) /\ WindowOf(c)
      /\ Increasing(req[c]) /\ Increasing(wire[c])
      /\ \A m \in Owed(c) \cup inflight[c] : m <= published
  BY DEF OrderInv, WindowInv, OrderOf
<1>l. lost[c] \cap Qos0 = {} /\ lost[c] \subseteq Msgs /\ inflight[c] \subseteq Msgs
  BY DEF TypeOK
<1>p. /\ Elements(req[c]) \cap (Working(c) \cup Queued(c) \cup Behind(c)) = {}
      /\ Working(c) \cap (Queued(c) \cup Behind(c)) = {}
      /\ Queued(c) \cap Behind(c) = {}
      /\ Elements(wire[c]) \cap resend[c] = {}
  BY <1>o, PlacesApart
<1>e. ASSUME NEW e \in Clients, e # c  PROVE WindowOf(e)'
  <2>1. /\ req'[e] = req[e] /\ wire'[e] = wire[e] /\ resend'[e] = resend[e]
        /\ lost'[e] = lost[e] /\ loop'[e] = loop[e]
        /\ inflight'[e] = inflight[e] /\ wpc' = wpc /\ cur' = cur
    BY <1>e DEF TypeOK, BrokerSend, BrokerResend, FlushAck, Accept, Reject, EndLoop
  <2>2. Queued(e)' = Queued(e)
    <3>1. CASE Accept(c)
      <4>1. Head(wire[c]) \in Msgs
        BY <3>1, HeadTailProperties DEF TypeOK, Accept
      <4>2. queue' = Append(queue, [client |-> c, msg |-> Head(wire[c])])
        BY <3>1 DEF Accept
      <4>3. QueueOrder(e)
        BY DEF OrderInv, OrderOf
      <4> QED
        BY <1>e, <1>t, <4>1, <4>2, <4>3, QueueAppend
    <3>2. CASE ~Accept(c)
      <4>1. queue' = queue
        BY <3>2 DEF BrokerSend, BrokerResend, FlushAck, Accept, Reject, EndLoop
      <4> QED
        BY <4>1 DEF Queued
    <3> QED
      BY <3>1, <3>2
  <2>3. Owed(e)' = Owed(e)
    BY <2>1, <2>2 DEF Owed, Working, Behind
  <2>4. WindowOf(e)
    BY DEF WindowInv
  <2> QED
    BY <2>1, <2>3, <2>4, SameWindow
<1>w. Working(c)' = Working(c)
  BY DEF Working, BrokerSend, BrokerResend, FlushAck, Accept, Reject, EndLoop
<1>q. queue' = queue => Queued(c)' = Queued(c)
  BY DEF Queued
<1>c. WindowOf(c)'
  <2>1. CASE BrokerSend(c)
    <3> DEFINE m == published + 1
    <3>1. /\ loop[c] = "poll" /\ wire'[c] = Append(wire[c], m) /\ lost' = lost
          /\ UNCHANGED <<req, resend, queue>>
          /\ inflight'[c] = inflight[c] \cup ({m} \ Qos0)
      BY <2>1 DEF BrokerSend, TypeOK
    <3>2. m \in Nat /\ \A n \in Owed(c) \cup inflight[c] : n # m
      BY <1>t, <1>o, <1>l
    <3> HIDE DEF m
    <3>3. Elements(wire'[c]) = Elements(wire[c]) \cup {m}
      <4>1. wire[c] \in Seq(Nat)
        BY <1>t
      <4> QED
        BY <3>1, <3>2, <4>1, AppendElements
    <3>4. Owed(c)' = Owed(c) \cup {m}
      BY <1>w, <1>q, <3>1, <3>3 DEF Owed, Behind
    <3>5. lost[c] \subseteq inflight[c]
      BY <1>o, <1>l, <3>1 DEF WindowOf
    <3> QED
      BY <1>o, <3>1, <3>2, <3>4, <3>5 DEF WindowOf
  <2>2. CASE BrokerResend(c)
    <3>1. PICK m \in resend[c] : /\ resend' = [resend EXCEPT ![c] = @ \ {m}]
                                 /\ wire' = [wire EXCEPT ![c] = Append(@, m)]
      BY <2>2 DEF BrokerResend
    <3>2. /\ wire'[c] = Append(wire[c], m) /\ resend'[c] = resend[c] \ {m}
          /\ UNCHANGED <<req, queue, inflight, lost, loop>>
      BY <2>2, <3>1 DEF BrokerResend, TypeOK
    <3>3. m \in Nat
      BY <1>t DEF Owed, Behind
    <3>4. Elements(wire'[c]) = Elements(wire[c]) \cup {m}
      BY <1>t, <3>2, <3>3, AppendElements
    <3>5. Owed(c)' = Owed(c)
      BY <1>w, <1>q, <3>2, <3>4 DEF Owed, Behind
    <3> QED
      BY <1>o, <3>2, <3>5, SameWindow
  <2>3. CASE FlushAck(c)
    <3> DEFINE m == Head(req[c])
    <3>1. /\ loop[c] = "poll" /\ req'[c] = Tail(req[c]) /\ req[c] # <<>>
          /\ inflight'[c] = inflight[c] \ {m}
          /\ UNCHANGED <<wire, resend, queue, lost, loop>>
      BY <2>3 DEF FlushAck, TypeOK
    <3>2. m \in Elements(req[c]) /\ Elements(req'[c]) = Elements(req[c]) \ {m}
      BY <1>t, <1>o, <3>1, HeadLeaves
    <3> HIDE DEF m
    <3>3. Owed(c)' = Owed(c) \ {m}
      BY <1>w, <1>q, <1>p, <3>1, <3>2 DEF Owed, Behind
    <3>4. m \notin lost[c]
      BY <1>o, <3>1, <3>2 DEF WindowOf, Owed
    <3> QED
      BY <1>o, <3>1, <3>3, <3>4 DEF WindowOf
  <2>4. CASE Accept(c)
    <3> DEFINE m == Head(wire[c])
    <3>1. /\ wire'[c] = Tail(wire[c]) /\ wire[c] # <<>>
          /\ queue' = Append(queue, [client |-> c, msg |-> m])
          /\ UNCHANGED <<req, resend, inflight, lost, loop>>
      BY <2>4 DEF Accept, TypeOK
    <3>2. m \in Elements(wire[c]) /\ Elements(wire'[c]) = Elements(wire[c]) \ {m}
      BY <1>t, <1>o, <3>1, HeadLeaves
    <3>3. m \in Msgs
      BY <3>1, HeadTailProperties DEF TypeOK
    <3> HIDE DEF m
    <3>4. \A n \in Queued(c) : n < m
      BY <1>o, <3>2 DEF OrderOf, Before, Behind
    <3>5. Queued(c)' = Queued(c) \cup {m}
      BY <1>t, <1>o, <3>1, <3>3, <3>4, QueueAppend DEF OrderOf
    <3>6. Owed(c)' = Owed(c)
      BY <1>w, <3>1, <3>2, <3>5 DEF Owed, Behind
    <3> QED
      BY <1>o, <3>1, <3>6, SameWindow
  <2>5. CASE Reject(c)
    <3> DEFINE m == Head(wire[c])
    <3>1. /\ wire'[c] = Tail(wire[c]) /\ wire[c] # <<>>
          /\ lost'[c] = lost[c] \cup ({m} \ Qos0)
          /\ UNCHANGED <<req, resend, inflight, queue, loop>>
      BY <2>5 DEF Reject, TypeOK
    <3>2. m \in Elements(wire[c]) /\ Elements(wire'[c]) = Elements(wire[c]) \ {m}
      BY <1>t, <1>o, <3>1, HeadLeaves
    <3> HIDE DEF m
    <3>3. m \in Owed(c) /\ Owed(c)' = Owed(c) \ {m}
      BY <1>w, <1>q, <1>p, <3>1, <3>2 DEF Owed, Behind
    <3> QED
      BY <1>o, <3>1, <3>3, DroppedMessage
  <2>6. CASE EndLoop(c)
    <3>1. loop'[c] = "done"
      BY <2>6 DEF EndLoop, TypeOK
    <3> QED
      BY <3>1 DEF WindowOf
  <2> QED
    BY <2>1, <2>2, <2>3, <2>4, <2>5, <2>6
<1> QED
  BY <1>c, <1>e DEF WindowInv

\* The steps of the eval worker keep the windows accounted for: what it drops, or
\* cannot acknowledge, is lost.
LEMMA WindowWorker ==
    ASSUME TypeOK, OrderInv, WindowInv, Worker
    PROVE  WindowInv'
<1> USE DEF brokerVars, clientVars, workerVars, mainVars
<1> SUFFICES ASSUME NEW c \in Clients  PROVE WindowOf(c)'
  BY DEF WindowInv
<1>t. /\ Msgs \subseteq Nat /\ queue \in Seq(Deliveries)
      /\ req[c] \in Seq(Nat) /\ wire[c] \in Seq(Nat) /\ Owed(c) \subseteq Nat
  BY OrderTypes
<1>o. OrderOf(c) /\ WindowOf(c)
  BY DEF OrderInv, WindowInv
<1>p. /\ Elements(req[c]) \cap (Working(c) \cup Queued(c) \cup Behind(c)) = {}
      /\ Working(c) \cap (Queued(c) \cup Behind(c)) = {}
      /\ Queued(c) \cap Behind(c) = {}
  BY <1>o, PlacesApart
<1>b. /\ UNCHANGED <<inflight, resend, wire, loop>>
      /\ Behind(c)' = Behind(c)
  BY DEF Worker, Take, WorkerDone, WorkerForced, NotForced, WorkerPanic, DropDelivery,
         Evaluate, Ack, Dispatch, Behind
<1>q. queue' = queue => Queued(c)' = Queued(c)
  BY DEF Queued
<1>1. CASE Take
  <2>1. /\ queue # <<>> /\ queue' = Tail(queue) /\ cur' = Head(queue)
        /\ wpc = "idle" /\ wpc' = "taken" /\ UNCHANGED <<req, lost>>
    BY <1>1 DEF Take
  <2>2. \A m \in Msgs : m \in Queued(c) <=> m \in Queued(c)' \/ m \in Working(c)'
    BY <1>t, <2>1, QueueHead DEF Working
  <2>3. Working(c) = {} /\ Queued(c) \cup Queued(c)' \cup Working(c)' \subseteq Msgs
    BY <2>1 DEF Working, Queued
  <2>4. Owed(c)' = Owed(c)
    BY <1>b, <2>1, <2>2, <2>3 DEF Owed
  <2> QED
    BY <1>o, <1>b, <2>1, <2>4, SameWindow
<1>2. CASE WorkerDone \/ NotForced \/ Evaluate \/ Dispatch
  <2>1. UNCHANGED <<req, lost, queue>> /\ Working(c)' = Working(c)
    BY <1>2 DEF WorkerDone, NotForced, Evaluate, Dispatch, Working
  <2>2. Owed(c)' = Owed(c)
    BY <1>b, <1>q, <2>1 DEF Owed
  <2> QED
    BY <1>o, <1>b, <2>1, <2>2, SameWindow
<1>3. ASSUME wpc \in {"taken", "evaluating", "ack"}
      PROVE  /\ cur.msg \in Msgs /\ cur.client \in Clients
             /\ Working(c) = IF cur.client = c THEN {cur.msg} ELSE {}
  <2>1. cur \in Deliveries
    BY <1>3 DEF TypeOK
  <2>2. PICK e \in Clients, m \in Msgs : cur = [client |-> e, msg |-> m]
    BY <2>1 DEF Deliveries
  <2> QED
    BY <1>3, <2>2 DEF Working
<1>4. ASSUME wpc \in {"taken", "evaluating", "ack"}, Working(c)' = {}, queue' = queue,
             req'[c] = req[c],
             lost'[c] = IF cur.client = c THEN lost[c] \cup ({cur.msg} \ Qos0) ELSE lost[c]
      PROVE  WindowOf(c)'
  <2>1. CASE cur.client # c
    <3>1. Owed(c)' = Owed(c)
      BY <1>b, <1>q, <1>3, <1>4, <2>1 DEF Owed
    <3> QED
      BY <1>o, <1>b, <1>4, <2>1, <3>1, SameWindow
  <2>2. CASE cur.client = c
    <3>1. cur.msg \in Owed(c) /\ Owed(c)' = Owed(c) \ {cur.msg}
      BY <1>b, <1>p, <1>q, <1>3, <1>4, <2>2 DEF Owed
    <3> QED
      BY <1>o, <1>b, <1>4, <2>2, <3>1, DroppedMessage
  <2> QED
    BY <2>1, <2>2
<1>5. CASE WorkerForced \/ WorkerPanic
  <2>1. /\ wpc \in {"taken", "evaluating"} /\ wpc' \in {"ended", "panicked"}
        /\ lost' = [lost EXCEPT ![cur.client] = @ \cup ({cur.msg} \ Qos0)]
        /\ UNCHANGED <<req, queue>>
    BY <1>5 DEF WorkerForced, WorkerPanic, DropDelivery
  <2>2. lost'[c] = IF cur.client = c THEN lost[c] \cup ({cur.msg} \ Qos0) ELSE lost[c]
    BY <2>1 DEF TypeOK
  <2>3. Working(c)' = {}
    BY <2>1 DEF Working
  <2> QED
    BY <1>4, <2>1, <2>2, <2>3
<1>6. CASE Ack
  <2>1. wpc = "ack" /\ wpc' = "dispatch" /\ UNCHANGED <<queue, cur>> /\ Working(c)' = {}
    BY <1>6 DEF Ack, Working
  <2>2. CASE AckQueued /\ cur.client = c
    <3>1. cur.msg \in Nat /\ req'[c] = Append(req[c], cur.msg) /\ lost' = lost
      BY <1>t, <1>3, <2>1, <2>2 DEF AckQueued, TypeOK
    <3>2. Elements(req'[c]) = Elements(req[c]) \cup {cur.msg}
      BY ONLY <1>t, <3>1, AppendElements
    <3>3. Owed(c)' = Owed(c)
      BY <1>b, <1>q, <1>3, <2>1, <2>2, <3>2 DEF Owed
    <3> QED
      BY <1>o, <1>b, <3>1, <3>3, SameWindow
  <2>3. CASE AckQueued /\ cur.client # c
    <3>1. req'[c] = req[c] /\ lost' = lost
      BY <2>3 DEF AckQueued, TypeOK
    <3> QED
      BY <1>4, <2>1, <2>3, <3>1
  <2>4. CASE AckFailed \/ AckNothing
    <3>1. /\ req' = req
          /\ lost'[c] = IF cur.client = c THEN lost[c] \cup ({cur.msg} \ Qos0) ELSE lost[c]
      <4>1. CASE AckFailed
        BY <4>1 DEF AckFailed, TypeOK
      <4>2. CASE AckNothing
        <5>1. {cur.msg} \ Qos0 = {} /\ UNCHANGED <<req, lost>>
          BY <4>2 DEF AckNothing
        <5> QED
          BY <5>1
      <4> QED
        BY <2>4, <4>1, <4>2
    <3> QED
      BY <1>4, <2>1, <3>1
  <2> QED
    BY <1>6, <2>2, <2>3, <2>4 DEF Ack
<1> QED
  BY <1>1, <1>2, <1>5, <1>6 DEF Worker

\* The windows add up in every reachable state.
LEMMA WindowInvariant == Spec => []WindowInv
<1> USE DEF brokerVars, clientVars, workerVars, mainVars
<1>1. Init => WindowInv
  <2> SUFFICES ASSUME Init, NEW c \in Clients  PROVE WindowOf(c)
    BY DEF WindowInv
  <2>1. /\ req[c] = <<>> /\ wire[c] = <<>> /\ resend[c] = {} /\ inflight[c] = {} /\ lost[c] = {}
        /\ queue = <<>> /\ wpc = "idle"
    BY DEF Init, NoSeqs, NoSets
  <2>2. Owed(c) = {}
    BY <2>1, NoElements DEF Owed, Working, Queued, Behind
  <2> QED
    BY <2>1, <2>2 DEF WindowOf
<1>2. ASSUME TypeOK, OrderInv, WindowInv, [Next]_vars  PROVE WindowInv'
  <2>1. CASE \E c \in Clients : \/ BrokerSend(c) \/ BrokerResend(c) \/ FlushAck(c)
                                \/ Accept(c) \/ Reject(c) \/ EndLoop(c)
    BY <1>2, <2>1, WindowIntake
  <2>2. CASE Worker
    BY <1>2, <2>2, WindowWorker
  <2>3. CASE \/ ShutdownSignal \/ IntakeStopped \/ DrainTimeout
             \/ WorkerJoined \/ ForceTimeout \/ Crash \/ UNCHANGED vars
    <3>1. UNCHANGED <<brokerVars, clientVars, queue, workerVars>>
      BY <2>3 DEF ShutdownSignal, IntakeStopped, DrainTimeout, WorkerJoined, ForceTimeout,
                  Crash, ExitWith, vars
    <3>2. \A c \in Clients : Owed(c)' = Owed(c)
      BY <3>1 DEF Owed, Working, Queued, Behind
    <3> QED
      BY <1>2, <3>1, <3>2, SameWindow DEF WindowInv
  <2>4. CASE Restart
    <3>1. /\ queue' = <<>> /\ wpc' = "idle"
          /\ \A c \in Clients : /\ req'[c] = <<>> /\ wire'[c] = <<>> /\ lost'[c] = {}
                                /\ resend'[c] = inflight'[c] /\ inflight'[c] \subseteq inflight[c]
      BY <2>4 DEF Restart, NoSeqs, NoSets
    <3>2. ASSUME NEW c \in Clients  PROVE WindowOf(c)'
      <4>1. Owed(c)' = inflight'[c]
        <5>1. Elements(req'[c]) = {} /\ Elements(wire'[c]) = {}
          BY <3>1, <3>2, NoElements
        <5>2. Queued(c)' = {} /\ Working(c)' = {}
          BY <3>1 DEF Queued, Working
        <5> QED
          BY <3>1, <3>2, <5>1, <5>2 DEF Owed, Behind
      <4>2. inflight'[c] \cap Qos0 = {}
        BY <1>2, <3>1, <3>2 DEF TypeOK
      <4> QED
        BY <3>1, <3>2, <4>1, <4>2 DEF WindowOf
    <3> QED
      BY <3>2 DEF WindowInv
  <2> QED
    BY ONLY <1>2, <2>1, <2>2, <2>3, <2>4 DEF Next, LoopError, LoopStop, Worker
<1> QED
  BY <1>1, <1>2, TypeCorrect, OrderInvariant, PTL DEF Spec

\* Every open slot of a window is accounted for: an unacknowledged message is still to
\* be sent again, on the wire, queued, with the worker, waiting as a PUBACK, or lost
\* for this connection, and it is never lost and yet on its way.
THEOREM WindowsAddUp == Spec => []WindowAccounting
<1>1. TypeOK /\ OrderInv /\ WindowInv => WindowAccounting
  <2> SUFFICES ASSUME TypeOK, OrderInv, WindowInv, NEW c \in Clients, loop[c] = "poll"
               PROVE  LET InQueue == {queue[i].msg : i \in {k \in DOMAIN queue : queue[k].client = c}}
                          InHand  == IF wpc \in {"taken", "evaluating", "ack"} /\ cur.client = c
                                     THEN {cur.msg} ELSE {}
                      IN  /\ inflight[c] = (resend[c] \cup Elements(wire[c]) \cup InQueue
                                              \cup InHand \cup Elements(req[c]) \cup lost[c]) \ Qos0
                          /\ Elements(req[c]) \cap (lost[c] \cup InQueue \cup InHand) = {}
                          /\ lost[c] \cap (InQueue \cup InHand \cup Elements(wire[c]) \cup resend[c]) = {}
    BY DEF WindowAccounting
  <2>1. {queue[i].msg : i \in {k \in DOMAIN queue : queue[k].client = c}} = Queued(c)
    <3>1. \A i \in DOMAIN queue : queue[i] \in Deliveries
      BY DEF TypeOK
    <3>2. \A d \in Deliveries : d.msg \in Msgs /\ d = [client |-> d.client, msg |-> d.msg]
      BY DEF Deliveries
    <3> QED
      BY <3>1, <3>2 DEF Queued
  <2>2. (IF wpc \in {"taken", "evaluating", "ack"} /\ cur.client = c THEN {cur.msg} ELSE {}) = Working(c)
    <3>1. CASE wpc \in {"taken", "evaluating", "ack"}
      <4>1. PICK e \in Clients, m \in Msgs : cur = [client |-> e, msg |-> m]
        BY <3>1 DEF TypeOK, Deliveries
      <4> QED
        BY <3>1, <4>1 DEF Working
    <3>2. CASE wpc \notin {"taken", "evaluating", "ack"}
      BY <3>2 DEF Working
    <3> QED
      BY <3>1, <3>2
  <2>3. /\ inflight[c] = (Owed(c) \cup lost[c]) \ Qos0 /\ Owed(c) \cap lost[c] = {}
    BY DEF WindowInv, WindowOf
  <2>4. Elements(req[c]) \cap (Working(c) \cup Queued(c) \cup Behind(c)) = {}
    BY PlacesApart DEF OrderInv
  <2> QED
    BY <2>1, <2>2, <2>3, <2>4 DEF Owed, Behind
<1> QED
  BY <1>1, TypeCorrect, OrderInvariant, WindowInvariant, PTL

-----------------------------------------------------------------------------
(***************************************************************************)
(* Counting.  No more messages are unacknowledged than the windows hold,   *)
(* and what is queued is unacknowledged even when the event loop that      *)
(* queued it is gone; so the queue is never longer than the windows of all *)
(* the clients are large together.                                         *)
(***************************************************************************)
HeldInv ==
    \A c \in Clients : /\ Queued(c) \ Qos0 \subseteq inflight[c]
                       /\ Cardinality(inflight[c]) <= ReceiveMax

\* A set is no larger than its parts are together: U falls into one part for each
\* element of A, none of them larger than n.
LEMMA PartsBound ==
    ASSUME NEW A, IsFiniteSet(A), NEW W, NEW n \in Nat,
           \A a \in A : IsFiniteSet(W[a]) /\ Cardinality(W[a]) <= n,
           NEW U, \A d \in U : d.client \in A /\ d.msg \in W[d.client],
           \A d, e \in U : d.client = e.client /\ d.msg = e.msg => d = e
    PROVE  IsFiniteSet(U) /\ Cardinality(U) <= Cardinality(A) * n
<1> DEFINE size(a) == Cardinality(W[a])
           listing(a) == CHOOSE f : f \in Surjection(1..size(a), W[a])
           place(d) == CHOOSE k \in 1..n : listing(d.client)[k] = d.msg
           h == [d \in U |-> <<d.client, place(d)>>]
<1>1. ASSUME NEW a \in A
      PROVE  /\ size(a) \in Nat /\ size(a) <= n
             /\ listing(a) \in Surjection(1..size(a), W[a])
  <2>1. size(a) \in Nat /\ ExistsBijection(1..size(a), W[a])
    BY FS_CardinalityType
  <2>2. \E f : f \in Surjection(1..size(a), W[a])
    BY <2>1 DEF ExistsBijection, Bijection
  <2> HIDE DEF size
  <2> QED
    BY <2>1, <2>2 DEF size
<1> HIDE DEF size, listing
<1>2. ASSUME NEW d \in U
      PROVE  place(d) \in 1..n /\ listing(d.client)[place(d)] = d.msg
  <2>1. PICK k \in 1..size(d.client) : listing(d.client)[k] = d.msg
    BY <1>1 DEF Surjection
  <2>2. k \in 1..n
    BY <1>1
  <2> QED
    BY <2>1, <2>2
<1> HIDE DEF place
<1>3. h \in Injection(U, A \X (1..n))
  <2>1. h \in [U -> A \X (1..n)]
    BY <1>2
  <2>2. \A d, e \in U : h[d] = h[e] => d = e
    <3> SUFFICES ASSUME NEW d \in U, NEW e \in U, h[d] = h[e]  PROVE d = e
      OBVIOUS
    <3>1. d.client = e.client /\ place(d) = place(e)
      OBVIOUS
    <3> QED
      BY <1>2, <3>1
  <2> HIDE DEF h
  <2> QED
    BY <2>1, <2>2 DEF Injection, IsInjective
<1>4. IsFiniteSet(1..n) /\ Cardinality(1..n) = n
  BY FS_Interval
<1>5. IsFiniteSet(A \X (1..n)) /\ Cardinality(A \X (1..n)) = Cardinality(A) * n
  BY <1>4, FS_Product
<1> HIDE DEF h
<1> QED
  BY <1>3, <1>5, FS_Injection

\* A sequence without repetition is as long as the set of its elements is large.
LEMMA DistinctElements ==
    ASSUME NEW S, NEW s \in Seq(S), \A i, j \in DOMAIN s : s[i] = s[j] => i = j
    PROVE  IsFiniteSet(Elements(s)) /\ Cardinality(Elements(s)) = Len(s)
<1>1. s \in Bijection(1..Len(s), Elements(s))
  BY DEF Bijection, Injection, Surjection, IsInjective, Elements
<1>2. ExistsBijection(1..Len(s), Elements(s))
  BY <1>1 DEF ExistsBijection
<1>3. Len(s) \in Nat
  OBVIOUS
<1>4. Cardinality(Elements(s)) = Len(s)
  BY ONLY <1>2, <1>3, FS_CountingElements
<1>5. IsFiniteSet(1..Len(s))
  BY <1>3, FS_Interval
<1> QED
  BY <1>2, <1>4, <1>5, FS_Bijection

\* An increasing sequence has no element twice.
LEMMA IncreasingIsDistinct ==
    ASSUME NEW s \in Seq(Nat), Increasing(s)
    PROVE  \A i, j \in DOMAIN s : s[i] = s[j] => i = j
<1> SUFFICES ASSUME NEW i \in DOMAIN s, NEW j \in DOMAIN s, s[i] = s[j]  PROVE i = j
  OBVIOUS
<1>1. i \in Nat /\ j \in Nat /\ s[i] \in Nat
  OBVIOUS
<1>2. ~(i < j) /\ ~(j < i)
  BY <1>1 DEF Increasing
<1> QED
  BY <1>1, <1>2

\* A window is a finite set.
LEMMA WindowsAreFinite ==
    ASSUME TypeOK, NEW c \in Clients
    PROVE  IsFiniteSet(inflight[c]) /\ Cardinality(inflight[c]) \in Nat
<1>1. IsFiniteSet(Msgs)
  BY PipelineAssumption, FS_Interval DEF Msgs
<1>2. inflight[c] \in SUBSET Msgs
  BY DEF TypeOK
<1> QED
  BY <1>1, <1>2, FS_Subset, FS_CardinalityType

\* A broker keeps to the receive window, and an event loop that is gone leaves what it
\* queued unacknowledged.
LEMMA HeldInvariant == Spec => []HeldInv
<1> USE DEF brokerVars, clientVars, workerVars, mainVars
<1>1. Init => HeldInv
  <2> SUFFICES ASSUME Init, NEW c \in Clients
               PROVE  Queued(c) = {} /\ inflight[c] = {} /\ Cardinality({}) <= ReceiveMax
    BY DEF HeldInv
  <2>1. Cardinality({}) = 0 /\ 0 <= ReceiveMax
    BY FS_EmptySet, PipelineAssumption
  <2> QED
    BY <2>1 DEF Init, NoSets, Queued
<1>2. ASSUME TypeOK, WindowInv', HeldInv, [Next]_vars  PROVE HeldInv'
  <2>1. ASSUME NEW c \in Clients  PROVE Cardinality(inflight'[c]) <= ReceiveMax
    <3>1. /\ IsFiniteSet(inflight[c]) /\ Cardinality(inflight[c]) \in Nat
          /\ Cardinality(inflight[c]) <= ReceiveMax /\ ReceiveMax \in Nat
      BY <1>2, WindowsAreFinite, PipelineAssumption DEF HeldInv
    <3>2. CASE inflight'[c] \subseteq inflight[c]
      BY <3>1, <3>2, FS_Subset, FS_CardinalityType
    <3>3. CASE BrokerSend(c)
      <4>1. CASE published + 1 \in Qos0
        BY <3>2, <3>3, <4>1 DEF BrokerSend
      <4>2. CASE published + 1 \notin Qos0
        <5>1. /\ Cardinality(inflight[c]) < ReceiveMax
              /\ inflight'[c] = inflight[c] \cup {published + 1}
          BY <1>2, <3>3, <4>2 DEF BrokerSend, TypeOK
        <5>2. Cardinality(inflight[c] \cup {published + 1})
                 \in {Cardinality(inflight[c]), Cardinality(inflight[c]) + 1}
          BY ONLY <3>1, FS_AddElement
        <5> QED
          BY <3>1, <5>1, <5>2
      <4> QED
        BY <4>1, <4>2
    <3>4. ASSUME NEW e \in Clients, e # c, BrokerSend(e)  PROVE inflight'[c] = inflight[c]
      BY <1>2, <3>4 DEF BrokerSend, TypeOK
    <3>5. ASSUME NEW e \in Clients, \/ BrokerResend(e) \/ FlushAck(e) \/ Accept(e)
                                    \/ Reject(e) \/ EndLoop(e)
          PROVE  inflight'[c] \subseteq inflight[c]
      BY <1>2, <3>5 DEF BrokerResend, FlushAck, Accept, Reject, EndLoop, TypeOK
    <3>6. CASE Worker \/ UNCHANGED vars
      <4>1. inflight' = inflight
        BY <3>6 DEF Worker, Take, WorkerDone, WorkerForced, NotForced, WorkerPanic,
                    DropDelivery, Evaluate, Ack, Dispatch, vars
      <4> QED
        BY <3>2, <4>1
    <3>7. CASE \/ ShutdownSignal \/ IntakeStopped \/ DrainTimeout
               \/ WorkerJoined \/ ForceTimeout \/ Crash \/ Restart
      <4>1. inflight'[c] \subseteq inflight[c]
        BY <3>7 DEF ShutdownSignal, IntakeStopped, DrainTimeout, WorkerJoined, ForceTimeout,
                    Crash, ExitWith, Restart, NoSets
      <4> QED
        BY <3>2, <4>1
    <3> QED
      BY <1>2, <3>2, <3>3, <3>4, <3>5, <3>6, <3>7 DEF Next, LoopError, LoopStop, Worker
  <2>2. ASSUME NEW c \in Clients  PROVE Queued(c)' \ Qos0 \subseteq inflight'[c]
    <3>1. CASE loop'[c] = "poll"
      <4>1. inflight'[c] = (Owed(c)' \cup lost'[c]) \ Qos0
        BY <1>2, <3>1 DEF WindowInv, WindowOf
      <4>2. Queued(c)' \subseteq Owed(c)'
        BY DEF Owed
      <4> QED
        BY <4>1, <4>2
    <3>2. CASE Queued(c)' \subseteq Queued(c) /\ inflight'[c] = inflight[c]
      BY <1>2, <3>2 DEF HeldInv
    <3>3. ASSUME NEW e \in Clients, \/ BrokerSend(e) \/ BrokerResend(e) \/ FlushAck(e)
                                    \/ Accept(e) \/ Reject(e),
                 loop'[c] # "poll"
          PROVE  Queued(c)' = Queued(c) /\ inflight'[c] = inflight[c]
      <4>1. e # c
        BY <3>3 DEF BrokerSend, BrokerResend, FlushAck, Accept, Reject
      <4>2. inflight'[c] = inflight[c]
        BY <1>2, <3>3, <4>1 DEF BrokerSend, BrokerResend, FlushAck, Accept, Reject, TypeOK
      <4>3. CASE Accept(e)
        <5>1. queue' = Append(queue, [client |-> e, msg |-> Head(wire[e])]) /\ queue \in Seq(Deliveries)
          BY <1>2, <4>3 DEF Accept, TypeOK
        <5>2. /\ \A i \in DOMAIN queue : i \in DOMAIN queue' /\ queue'[i] = queue[i]
              /\ \A i \in DOMAIN queue' : i \in DOMAIN queue
                                          \/ queue'[i] = [client |-> e, msg |-> Head(wire[e])]
          BY <5>1
        <5>3. \A m : [client |-> e, msg |-> Head(wire[e])] # [client |-> c, msg |-> m]
          BY <4>1
        <5> QED
          BY <4>2, <5>2, <5>3 DEF Queued
      <4>4. CASE ~Accept(e)
        <5>1. queue' = queue
          BY <3>3, <4>4 DEF BrokerSend, BrokerResend, FlushAck, Reject
        <5> QED
          BY <4>2, <5>1 DEF Queued
      <4> QED
        BY <4>3, <4>4
    <3>4. ASSUME NEW e \in Clients, EndLoop(e)
          PROVE  Queued(c)' = Queued(c) /\ inflight'[c] = inflight[c]
      BY <3>4 DEF EndLoop, Queued
    <3>5. CASE Take
      <4>1. /\ queue # <<>> /\ queue' = Tail(queue) /\ queue \in Seq(Deliveries)
            /\ inflight' = inflight
        BY <1>2, <3>5 DEF Take, TypeOK
      <4>2. \A m \in Msgs : m \in Queued(c)' => m \in Queued(c)
        BY <4>1, QueueHead
      <4>3. Queued(c)' \subseteq Msgs
        BY DEF Queued
      <4> QED
        BY <3>2, <4>1, <4>2, <4>3
    <3>6. CASE \/ WorkerDone \/ WorkerForced \/ NotForced \/ WorkerPanic
               \/ Evaluate \/ Ack \/ Dispatch \/ UNCHANGED vars
      <4>1. UNCHANGED <<queue, inflight>>
        BY <3>6 DEF WorkerDone, WorkerForced, NotForced, WorkerPanic, DropDelivery,
                    Evaluate, Ack, Dispatch, vars
      <4> QED
        BY <3>2, <4>1 DEF Queued
    <3>7. CASE \/ ShutdownSignal \/ IntakeStopped \/ DrainTimeout
               \/ WorkerJoined \/ ForceTimeout \/ Crash
      <4>1. UNCHANGED <<queue, inflight>>
        BY <3>7 DEF ShutdownSignal, IntakeStopped, DrainTimeout, WorkerJoined, ForceTimeout,
                    Crash, ExitWith
      <4> QED
        BY <3>2, <4>1 DEF Queued
    <3>8. CASE Restart
      BY <3>1, <3>8 DEF Restart
    <3> QED
      BY <1>2, <3>1, <3>2, <3>3, <3>4, <3>5, <3>6, <3>7, <3>8 DEF Next, LoopError, LoopStop
  <2> QED
    BY <2>1, <2>2 DEF HeldInv
<1> QED
  BY <1>1, <1>2, TypeCorrect, WindowInvariant, PTL DEF Spec

-----------------------------------------------------------------------------
(***************************************************************************)
(* The queue and the request channels fit the windows: only QoS 1, and no  *)
(* fewer places than messages that may be unacknowledged.                  *)
(***************************************************************************)
Sized ==
    /\ Qos0 = {}
    /\ Cardinality(Clients) * ReceiveMax <= QueueCap
    /\ ReceiveMax <= ReqCap

\* Then there is room in the eval queue for a message that is still on the wire: it
\* and the queued ones occupy different slots of the windows.
LEMMA RoomInQueue ==
    ASSUME TypeOK, OrderInv, WindowInv, HeldInv, Sized,
           NEW c \in Clients, loop[c] = "poll", wire[c] # <<>>
    PROVE  Len(queue) < QueueCap
<1> DEFINE d == [client |-> c, msg |-> Head(wire[c])]
           U == {x \in Deliveries : x.msg \in inflight[x.client]}
           N == Cardinality(Clients) * ReceiveMax
<1>1. /\ IsFiniteSet(Clients) /\ ReceiveMax \in Nat /\ QueueCap \in Nat
      /\ queue \in Seq(Deliveries) /\ Len(queue) \in Nat
      /\ \A x \in Deliveries : /\ x.client \in Clients /\ x.msg \in Msgs
                               /\ x = [client |-> x.client, msg |-> x.msg]
  BY PipelineAssumption DEF TypeOK, Deliveries
<1>2. IsFiniteSet(U) /\ Cardinality(U) <= N
  <2>1. /\ IsFiniteSet(Clients) /\ ReceiveMax \in Nat
        /\ \A a \in Clients : IsFiniteSet(inflight[a]) /\ Cardinality(inflight[a]) <= ReceiveMax
    BY <1>1, WindowsAreFinite DEF HeldInv
  <2>2. /\ \A x \in U : x.client \in Clients /\ x.msg \in inflight[x.client]
        /\ \A x, y \in U : x.client = y.client /\ x.msg = y.msg => x = y
    BY <1>1
  <2> HIDE DEF U
  <2> QED
    BY ONLY <2>1, <2>2, PartsBound
<1>3. N \in Nat /\ N <= QueueCap
  <2>1. Cardinality(Clients) \in Nat
    BY <1>1, FS_CardinalityType
  <2> QED
    BY <1>1, <2>1 DEF Sized
<1> HIDE DEF N
<1>4. Elements(queue) \subseteq U
  <2> SUFFICES ASSUME NEW i \in DOMAIN queue  PROVE queue[i] \in U
    BY DEF Elements
  <2>1. queue[i] \in Deliveries
    BY <1>1
  <2>2. queue[i].msg \in Queued(queue[i].client)
    BY <1>1, <2>1 DEF Queued
  <2> QED
    BY <1>1, <2>1, <2>2 DEF HeldInv, Sized
<1>5. Cardinality(Elements(queue)) = Len(queue) /\ IsFiniteSet(Elements(queue))
  <2>1. ASSUME NEW i \in DOMAIN queue, NEW j \in DOMAIN queue, queue[i] = queue[j]
        PROVE  i = j
    <3>1. queue[i] \in Deliveries /\ i \in Nat /\ j \in Nat
      BY <1>1
    <3>2. QueueOrder(queue[i].client) /\ queue[i].msg \in Nat
      <4>1. queue[i].client \in Clients /\ queue[i].msg \in Msgs
        BY <1>1, <3>1
      <4>2. OrderOf(queue[i].client)
        BY <4>1 DEF OrderInv
      <4>3. Msgs \subseteq Nat
        BY PipelineAssumption DEF Msgs
      <4> QED
        BY <4>1, <4>2, <4>3 DEF OrderOf
    <3>3. ~(i < j) /\ ~(j < i)
      BY <2>1, <3>2 DEF QueueOrder
    <3> QED
      BY <3>1, <3>3
  <2> QED
    BY <1>1, <2>1, DistinctElements
<1>6. d \in U /\ d \notin Elements(queue)
  <2>1. Head(wire[c]) \in Elements(wire[c]) /\ Head(wire[c]) \in Msgs
    BY TailElements, HeadTailProperties DEF TypeOK
  <2>2. Head(wire[c]) \in inflight[c]
    BY <2>1 DEF WindowInv, WindowOf, Owed, Behind, Sized
  <2>3. Head(wire[c]) \notin Queued(c)
    BY <2>1, PlacesApart DEF OrderInv, Behind
  <2>4. \A i \in DOMAIN queue : queue[i] # d
    BY <2>1, <2>3 DEF Queued
  <2>5. d \in Deliveries /\ d.client = c /\ d.msg = Head(wire[c])
    BY <2>1 DEF Deliveries
  <2> HIDE DEF d
  <2> QED
    BY <2>2, <2>4, <2>5 DEF Elements
<1> HIDE DEF d, U
<1>7. Cardinality(Elements(queue) \cup {d}) = Len(queue) + 1
  BY ONLY <1>5, <1>6, FS_AddElement
<1>8. Cardinality(Elements(queue) \cup {d}) <= Cardinality(U)
  <2>1. Elements(queue) \cup {d} \in SUBSET U
    BY <1>4, <1>6
  <2> QED
    BY ONLY <1>2, <2>1, FS_Subset
<1>9. Cardinality(U) \in Nat
  BY <1>2, FS_CardinalityType
<1> QED
  BY ONLY <1>1, <1>2, <1>3, <1>7, <1>8, <1>9

\* And there is room in the request channel for the PUBACK of the message the worker
\* has just evaluated.
LEMMA RoomForAck ==
    ASSUME TypeOK, OrderInv, WindowInv, HeldInv, Sized, wpc = "ack",
           loop[cur.client] = "poll"
    PROVE  Len(req[cur.client]) < ReqCap
<1>1. PICK c \in Clients, m \in Msgs : cur = [client |-> c, msg |-> m]
  BY DEF TypeOK, Deliveries
<1>2. /\ cur.client = c /\ req[c] \in Seq(Nat) /\ Len(req[c]) \in Nat /\ Increasing(req[c])
      /\ loop[c] = "poll"
      /\ OrderOf(c) /\ WindowOf(c) /\ Cardinality(inflight[c]) <= ReceiveMax
      /\ ReceiveMax \in Nat /\ ReqCap \in Nat /\ ReceiveMax <= ReqCap
  <2>1. cur.client = c /\ loop[c] = "poll"
    BY <1>1
  <2>2. OrderOf(c) /\ WindowOf(c) /\ Cardinality(inflight[c]) <= ReceiveMax
    BY DEF OrderInv, WindowInv, HeldInv
  <2>3. Increasing(req[c]) /\ req[c] \in Seq(Nat)
    BY <2>2, OrderTypes DEF OrderOf
  <2>4. Len(req[c]) \in Nat
    BY <2>3, LenProperties
  <2> QED
    BY <2>1, <2>2, <2>3, <2>4, PipelineAssumption DEF Sized
<1>3. m \in Working(c)
  BY <1>1 DEF Working
<1>4. m \notin Elements(req[c])
  BY <1>2, <1>3, PlacesApart
<1>5. Elements(req[c]) \cup {m} \subseteq inflight[c]
  <2>1. inflight[c] = (Owed(c) \cup lost[c]) \ Qos0 /\ Qos0 = {}
    <3>1. loop[c] = "poll" => inflight[c] = (Owed(c) \cup lost[c]) \ Qos0
      BY <1>2 DEF WindowOf
    <3> QED
      BY <1>2, <3>1 DEF Sized
  <2>2. Elements(req[c]) \cup {m} \subseteq Owed(c)
    BY <1>3 DEF Owed
  <2> QED
    BY <2>1, <2>2
<1>6. Cardinality(Elements(req[c])) = Len(req[c]) /\ IsFiniteSet(Elements(req[c]))
  <2>1. \A i, j \in DOMAIN req[c] : req[c][i] = req[c][j] => i = j
    BY ONLY <1>2, IncreasingIsDistinct
  <2> QED
    BY ONLY <1>2, <2>1, DistinctElements
<1>7. Cardinality(Elements(req[c]) \cup {m}) = Len(req[c]) + 1
  BY ONLY <1>4, <1>6, FS_AddElement
<1>8. /\ IsFiniteSet(inflight[c]) /\ Cardinality(inflight[c]) \in Nat
  BY WindowsAreFinite
<1>9. Cardinality(Elements(req[c]) \cup {m}) <= Cardinality(inflight[c])
  BY <1>5, <1>8, FS_Subset
<1> QED
  BY ONLY <1>2, <1>7, <1>8, <1>9

\* A queue and channels of that size lose nothing on a live connection until the worker
\* has panicked or was forced to stop, for any number of clients and messages.
THEOREM NothingIsLost == Spec => []SizedQueueLosesNothing
<1> USE DEF SizedQueueLosesNothing, brokerVars, clientVars, workerVars, mainVars
<1>1. Init => SizedQueueLosesNothing
  BY DEF Init, NoSets
<1>2. ASSUME TypeOK, OrderInv, WindowInv, HeldInv, FifoInv, IntakeInv,
             SizedQueueLosesNothing, [Next]_vars
      PROVE  SizedQueueLosesNothing'
  <2> SUFFICES ASSUME Sized, wpc' # "panicked", NEW c \in Clients, loop'[c] = "poll"
               PROVE  lost'[c] = {}
    BY DEF Sized
  <2>1. CASE lost'[c] = lost[c] /\ loop[c] = "poll" /\ wpc # "panicked"
    BY <1>2, <2>1 DEF Sized
  <2>2. ASSUME NEW e \in Clients, \/ BrokerSend(e) \/ BrokerResend(e) \/ FlushAck(e)
                                  \/ Accept(e) \/ EndLoop(e)
        PROVE  lost'[c] = lost[c] /\ loop[c] = "poll" /\ wpc # "panicked"
    <3>1. /\ lost' = lost /\ wpc' = wpc
          /\ \/ loop' = loop
             \/ loop' = [loop EXCEPT ![e] = "done"]
      BY <2>2 DEF BrokerSend, BrokerResend, FlushAck, Accept, EndLoop
    <3>2. loop \in [Clients -> {"poll", "done"}]
      BY <1>2 DEF TypeOK
    <3> QED
      BY <3>1, <3>2
  <2>3. ASSUME NEW e \in Clients, Reject(e)
        PROVE  lost'[c] = lost[c] /\ loop[c] = "poll" /\ wpc # "panicked"
    <3>1. loop[c] = "poll" /\ wpc # "panicked"
      BY <2>3 DEF Reject
    <3>2. lost'[c] = lost[c]
      <4>1. CASE e # c
        BY <1>2, <2>3, <4>1 DEF Reject, TypeOK
      <4>2. CASE e = c
        <5>1. Alive /\ wire[c] # <<>> /\ ~QueueOpen
          BY <2>3, <4>2 DEF Reject
        <5>2. wpc # "ended"
          BY <1>2, <3>1, <5>1 DEF FifoInv, IntakeInv
        <5>3. Len(queue) < QueueCap
          BY <1>2, <3>1, <5>1, RoomInQueue
        <5> QED
          BY <3>1, <5>1, <5>2, <5>3 DEF QueueOpen, WorkerUp
      <4> QED
        BY <4>1, <4>2
    <3> QED
      BY <3>1, <3>2
  <2>4. CASE Take \/ WorkerDone \/ NotForced \/ Evaluate \/ Dispatch
    BY <2>1, <2>4 DEF Take, WorkerDone, NotForced, Evaluate, Dispatch
  <2>5. CASE WorkerForced
    <3>1. Forced /\ loop[c] = "poll"
      BY <2>5 DEF WorkerForced, DropDelivery
    <3> QED
      BY <1>2, <3>1 DEF Forced, SendersGone, IntakeInv
  <2>6. CASE WorkerPanic
    BY <2>6 DEF WorkerPanic
  <2>7. CASE Ack
    <3>1. loop[c] = "poll" /\ wpc = "ack"
      BY <2>7 DEF Ack
    <3>2. CASE cur.client = c
      <4>1. RequestOpen(cur.client)
        BY <1>2, <3>1, <3>2, RoomForAck DEF RequestOpen
      <4> QED
        BY <2>1, <2>7, <3>1, <4>1 DEF Ack, AckQueued, AckFailed, AckNothing
    <3>3. CASE cur.client # c
      <4>1. lost'[c] = lost[c]
        BY <1>2, <2>7, <3>3 DEF Ack, AckQueued, AckFailed, AckNothing, TypeOK
      <4> QED
        BY <2>1, <3>1, <4>1
    <3> QED
      BY <3>2, <3>3
  <2>8. CASE \/ ShutdownSignal \/ IntakeStopped \/ DrainTimeout
             \/ WorkerJoined \/ ForceTimeout \/ Crash \/ UNCHANGED vars
    BY <2>1, <2>8 DEF ShutdownSignal, IntakeStopped, DrainTimeout, WorkerJoined,
                      ForceTimeout, Crash, ExitWith, vars
  <2>9. CASE Restart
    BY <2>9 DEF Restart, NoSets
  <2> QED
    BY ONLY <1>2, <2>1, <2>2, <2>3, <2>4, <2>5, <2>6, <2>7, <2>8, <2>9
       DEF Next, LoopError, LoopStop
<1> QED
  BY <1>1, <1>2, TypeCorrect, OrderInvariant, WindowInvariant, HeldInvariant,
     FifoInvariant, IntakeInvariant, PTL DEF Spec
=============================================================================
