--------------------------- MODULE PipelineProofs ---------------------------
(***************************************************************************)
(* Theorems about Pipeline, for every number of clients and messages and   *)
(* every capacity: its types, at-least-once evaluation, the order of       *)
(* PUBACKs, the FIFO order of the eval queue, the meaning of a drained     *)
(* exit, and the refinement of AtLeastOnce.                                *)
(***************************************************************************)
EXTENDS Pipeline, SequenceTheorems, TLAPS

\* A delivery is a record of a client and a message.
LEMMA DeliveryFields ==
    \A d \in Deliveries : d.client \in Clients /\ d.msg \in Msgs
  BY DEF Deliveries

\* The worker's "nothing" is no delivery.
LEMMA NotADelivery == NoDelivery \notin Deliveries
  BY PipelineAssumption DEF Deliveries, Msgs

\* Type correctness is inductive by itself: every variable keeps its type, a
\* channel its bound, and the worker holds a delivery exactly in the states
\* between recv() and the end of the loop body of the eval worker.
THEOREM TypeCorrect == Spec => []TypeOK
<1> USE PipelineAssumption
<1> USE DEF Outcomes, Alive, brokerVars, clientVars, workerVars, mainVars
<1>1. Init => TypeOK
  BY DEF Init, TypeOK, NoSeqs, NoSets
<1>2. ASSUME TypeOK, [Next]_vars  PROVE TypeOK'
  <2> USE <1>2 DEF TypeOK
  <2>1. ASSUME NEW c \in Clients, BrokerSend(c)  PROVE TypeOK'
    <3>1. published + 1 \in Msgs /\ published' \in 0..MaxMsg
      BY <2>1 DEF BrokerSend, Msgs
    <3>2. wire' \in [Clients -> Seq(Msgs)]
      BY <2>1, <3>1 DEF BrokerSend
    <3>3. inflight' \in [Clients -> SUBSET (Msgs \ Qos0)]
      <4>1. CASE published + 1 \in Qos0
        BY <2>1, <4>1 DEF BrokerSend
      <4>2. CASE published + 1 \notin Qos0
        <5>1. inflight' = [inflight EXCEPT ![c] = @ \cup {published + 1}]
          BY <2>1, <4>2 DEF BrokerSend
        <5> QED
          BY <3>1, <4>2, <5>1
      <4> QED
        BY <4>1, <4>2
    <3> QED
      BY <2>1, <3>1, <3>2, <3>3 DEF BrokerSend
  <2>2. ASSUME NEW c \in Clients, BrokerResend(c)  PROVE TypeOK'
    <3>1. wire' \in [Clients -> Seq(Msgs)] /\ resend' \in [Clients -> SUBSET (Msgs \ Qos0)]
      BY <2>2 DEF BrokerResend
    <3> QED
      BY <2>2, <3>1 DEF BrokerResend
  <2>3. ASSUME NEW c \in Clients, FlushAck(c)  PROVE TypeOK'
    <3>1. /\ Head(req[c]) \in Msgs \ Qos0
          /\ Tail(req[c]) \in Seq(Msgs \ Qos0) /\ Len(Tail(req[c])) = Len(req[c]) - 1
      BY <2>3, HeadTailProperties DEF FlushAck
    <3>2. req' \in [Clients -> Seq(Msgs \ Qos0)] /\ \A e \in Clients : Len(req'[e]) <= ReqCap
      BY <2>3, <3>1 DEF FlushAck
    <3> QED
      BY <2>3, <3>1, <3>2 DEF FlushAck
  <2>4. ASSUME NEW c \in Clients, Accept(c)  PROVE TypeOK'
    <3> DEFINE d == [client |-> c, msg |-> Head(wire[c])]
    <3>1. Head(wire[c]) \in Msgs /\ Tail(wire[c]) \in Seq(Msgs)
      BY <2>4, HeadTailProperties DEF Accept
    <3>2. d \in Deliveries
      BY <3>1 DEF Deliveries
    <3>3. wire' \in [Clients -> Seq(Msgs)]
      BY <2>4, <3>1 DEF Accept
    <3>4. queue' \in Seq(Deliveries) /\ Len(queue') <= QueueCap
      BY <2>4, <3>2 DEF Accept, QueueOpen
    <3>5. accepted' \in Seq(Deliveries)
      BY <2>4, <3>2 DEF Accept
    <3> QED
      BY <2>4, <3>3, <3>4, <3>5 DEF Accept
  <2>5. ASSUME NEW c \in Clients, Reject(c)  PROVE TypeOK'
    <3>1. Head(wire[c]) \in Msgs /\ Tail(wire[c]) \in Seq(Msgs)
      BY <2>5, HeadTailProperties DEF Reject
    <3>2. wire' \in [Clients -> Seq(Msgs)] /\ lost' \in [Clients -> SUBSET (Msgs \ Qos0)]
      BY <2>5, <3>1 DEF Reject
    <3> QED
      BY <2>5, <3>2 DEF Reject
  <2>6. ASSUME NEW c \in Clients, EndLoop(c)  PROVE TypeOK'
    BY <2>6 DEF EndLoop
  <2>7. CASE Take
    <3>1. /\ Head(queue) \in Deliveries
          /\ Tail(queue) \in Seq(Deliveries) /\ Len(Tail(queue)) = Len(queue) - 1
      BY <2>7, HeadTailProperties DEF Take
    <3> QED
      BY <2>7, <3>1 DEF Take
  <2>8. CASE WorkerDone
    BY <2>8 DEF WorkerDone
  <2>9. CASE WorkerForced \/ WorkerPanic
    <3>1. cur \in Deliveries /\ cur.client \in Clients /\ cur.msg \in Msgs
      BY <2>9, DeliveryFields DEF WorkerForced, WorkerPanic
    <3>2. lost' \in [Clients -> SUBSET (Msgs \ Qos0)]
      <4>1. lost' = [lost EXCEPT ![cur.client] = @ \cup ({cur.msg} \ Qos0)]
        BY <2>9 DEF WorkerForced, WorkerPanic, DropDelivery
      <4> QED
        BY <3>1, <4>1
    <3> QED
      BY <2>9, <3>2 DEF WorkerForced, WorkerPanic, DropDelivery
  <2>10. CASE NotForced
    BY <2>10 DEF NotForced
  <2>11. CASE Evaluate
    BY <2>11, DeliveryFields DEF Evaluate
  <2>12. CASE Ack
    <3>1. cur \in Deliveries /\ cur.client \in Clients /\ cur.msg \in Msgs
      BY <2>12, DeliveryFields DEF Ack
    <3>2. CASE AckQueued
      <4>1. /\ Append(req[cur.client], cur.msg) \in Seq(Msgs \ Qos0)
            /\ Len(Append(req[cur.client], cur.msg)) <= ReqCap
        BY <3>1, <3>2 DEF AckQueued, RequestOpen
      <4>2. req' \in [Clients -> Seq(Msgs \ Qos0)] /\ \A e \in Clients : Len(req'[e]) <= ReqCap
        BY <3>1, <3>2, <4>1 DEF AckQueued
      <4> QED
        BY <2>12, <3>2, <4>2 DEF Ack, AckQueued
    <3>3. CASE AckFailed
      <4>1. /\ cur.msg \in Msgs \ Qos0
            /\ lost' = [lost EXCEPT ![cur.client] = @ \cup {cur.msg}]
        BY <3>1, <3>3 DEF AckFailed
      <4>2. lost' \in [Clients -> SUBSET (Msgs \ Qos0)]
        BY <3>1, <4>1
      <4> QED
        BY <2>12, <3>3, <4>2 DEF Ack, AckFailed
    <3>4. CASE AckNothing
      BY <2>12, <3>4 DEF Ack, AckNothing
    <3> QED
      BY <2>12, <3>2, <3>3, <3>4 DEF Ack
  <2>13. CASE Dispatch
    BY <2>13 DEF Dispatch
  <2>14. CASE ShutdownSignal \/ IntakeStopped \/ DrainTimeout
    BY <2>14 DEF ShutdownSignal, IntakeStopped, DrainTimeout
  <2>15. CASE WorkerJoined \/ ForceTimeout \/ Crash
    BY <2>15 DEF WorkerJoined, ForceTimeout, Crash, ExitWith
  <2>16. CASE Restart
    BY <2>16 DEF Restart, NoSeqs, NoSets
  <2>17. CASE UNCHANGED vars
    BY <2>17 DEF vars
  <2> QED
    BY <1>2, <2>1, <2>2, <2>3, <2>4, <2>5, <2>6, <2>7, <2>8, <2>9, <2>10, <2>11,
       <2>12, <2>13, <2>14, <2>15, <2>16, <2>17 DEF Next, LoopError, LoopStop
<1> QED
  BY <1>1, <1>2, PTL DEF Spec

-----------------------------------------------------------------------------
(***************************************************************************)
(* At-least-once evaluation.  AckAfterEval speaks of the broker; what      *)
(* carries it is that the worker acknowledges what it has just evaluated   *)
(* and that a request channel holds only evaluated messages.               *)
(***************************************************************************)
EvalInv ==
    /\ wpc \in {"ack", "dispatch"} => cur.msg \in evaluated
    /\ \A c \in Clients : Elements(req[c]) \subseteq evaluated
    /\ AckAfterEval

\* The elements of a sequence: those of its tail and of an extended sequence.
LEMMA TailElements ==
    ASSUME NEW S, NEW s \in Seq(S), s # <<>>
    PROVE  Head(s) \in Elements(s) /\ Elements(Tail(s)) \subseteq Elements(s)
  BY DEF Elements

\* An extended sequence has one element more.
LEMMA AppendElements ==
    ASSUME NEW S, NEW s \in Seq(S), NEW e \in S
    PROVE  Elements(Append(s, e)) = Elements(s) \cup {e}
<1>1. Elements(Append(s, e)) \subseteq Elements(s) \cup {e}
  BY DEF Elements
<1>2. e \in Elements(Append(s, e))
  <2>1. Len(s) + 1 \in DOMAIN Append(s, e) /\ Append(s, e)[Len(s) + 1] = e
    OBVIOUS
  <2> QED
    BY <2>1 DEF Elements
<1>3. Elements(s) \subseteq Elements(Append(s, e))
  <2>1. \A i \in DOMAIN s : i \in DOMAIN Append(s, e) /\ Append(s, e)[i] = s[i]
    OBVIOUS
  <2> QED
    BY <2>1 DEF Elements
<1> QED
  BY <1>1, <1>2, <1>3

\* The empty sequence has none.
LEMMA NoElements == Elements(<<>>) = {}
  BY DEF Elements

\* EvalInv is preserved by every step.
LEMMA EvalStep == TypeOK /\ EvalInv /\ [Next]_vars => EvalInv'
<1> SUFFICES ASSUME TypeOK, EvalInv, [Next]_vars
             PROVE  EvalInv'
  OBVIOUS
<1> USE DEF EvalInv, AckAfterEval
<1> USE DEF brokerVars, clientVars, workerVars, mainVars
<1>0. req \in [Clients -> Seq(Msgs \ Qos0)]
  BY DEF TypeOK
<1>1. ASSUME NEW c \in Clients, BrokerSend(c) \/ BrokerResend(c) \/ Accept(c) \/ Reject(c)
      PROVE  EvalInv'
  BY <1>1 DEF BrokerSend, BrokerResend, Accept, Reject
<1>2. ASSUME NEW c \in Clients, FlushAck(c)  PROVE EvalInv'
  <2>1. Head(req[c]) \in Elements(req[c]) /\ Elements(Tail(req[c])) \subseteq Elements(req[c])
    BY <1>0, <1>2, TailElements DEF FlushAck
  <2>2. \A e \in Clients : Elements(req'[e]) \subseteq Elements(req[e])
    BY <1>0, <1>2, <2>1 DEF FlushAck
  <2> QED
    BY <1>2, <2>1, <2>2 DEF FlushAck
<1>3. ASSUME NEW c \in Clients, EndLoop(c)  PROVE EvalInv'
  <2>1. \A e \in Clients : Elements(req'[e]) \subseteq Elements(req[e])
    BY <1>0, <1>3, NoElements DEF EndLoop
  <2> QED
    BY <1>3, <2>1 DEF EndLoop
<1>4. CASE Take \/ WorkerDone \/ NotForced \/ WorkerForced \/ WorkerPanic
  BY <1>4 DEF Take, WorkerDone, NotForced, WorkerForced, WorkerPanic, DropDelivery
<1>5. CASE Evaluate
  BY <1>5 DEF Evaluate
<1>6. CASE Ack
  <2>1. cur.client \in Clients /\ cur.msg \in evaluated
    BY <1>6, DeliveryFields DEF Ack, TypeOK
  <2>2. \A e \in Clients : Elements(req'[e]) \subseteq evaluated
    <3>1. CASE AckQueued
      <4>1. cur.msg \in Msgs \ Qos0
        BY <1>6, <3>1, DeliveryFields DEF Ack, AckQueued, TypeOK
      <4>2. Elements(Append(req[cur.client], cur.msg)) \subseteq evaluated
        BY <1>0, <2>1, <4>1, AppendElements
      <4> QED
        BY <1>0, <2>1, <3>1, <4>2 DEF AckQueued
    <3> QED
      BY <1>6, <3>1 DEF Ack, AckFailed, AckNothing
  <2> QED
    BY <1>6, <2>1, <2>2 DEF Ack
<1>7. CASE Dispatch
  BY <1>7 DEF Dispatch
<1>8. CASE \/ ShutdownSignal \/ IntakeStopped \/ DrainTimeout
           \/ WorkerJoined \/ ForceTimeout \/ Crash
  BY <1>8 DEF ShutdownSignal, IntakeStopped, DrainTimeout, WorkerJoined, ForceTimeout,
              Crash, ExitWith
<1>9. CASE Restart
  BY <1>9, NoElements DEF Restart, NoSeqs
<1>10. CASE UNCHANGED vars
  BY <1>10 DEF vars
<1> QED
  BY <1>1, <1>2, <1>3, <1>4, <1>5, <1>6, <1>7, <1>8, <1>9, <1>10
     DEF Next, LoopError, LoopStop

\* What waits as a PUBACK was evaluated, in every reachable state.
LEMMA EvalInvariant == Spec => []EvalInv
<1>1. Init => EvalInv
  BY NoElements DEF Init, EvalInv, AckAfterEval, NoSeqs
<1> QED
  BY <1>1, EvalStep, TypeCorrect, PTL DEF Spec

\* A message the broker has released was evaluated, in this run or an earlier
\* one: run() acknowledges after engine.evaluate() and nothing else does.
THEOREM AtLeastOnceEvaluation == Spec => []AckAfterEval
  BY EvalInvariant, PTL DEF EvalInv

-----------------------------------------------------------------------------
(***************************************************************************)
(* The eval queue is FIFO and a drained exit has dispatched everything.    *)
(* The second and third conjuncts carry the first over the end of the      *)
(* worker: it ends by itself only with an empty queue and empty hands.     *)
(***************************************************************************)
FifoInv ==
    /\ QueueIsFifo
    /\ wpc = "ended" => SendersGone \/ ~Alive
    /\ wpc = "ended" /\ phase = "draining" => accepted = dispatched
    /\ \A i \in DOMAIN dispatched : dispatched[i].msg \in evaluated
    /\ DrainedMeansAll

\* The ways a delivery moves along dispatched \o Holding \o queue.
LEMMA MoveToHand ==
    ASSUME NEW S, NEW D \in Seq(S), NEW Q \in Seq(S), Q # <<>>
    PROVE  D \o <<>> \o Q = D \o <<Head(Q)>> \o Tail(Q)
<1>1. <<Head(Q)>> \in Seq(S) /\ Tail(Q) \in Seq(S)
  BY HeadTailProperties
<1>2. Q = <<Head(Q)>> \o Tail(Q)
  OBVIOUS
<1>3. (D \o <<Head(Q)>>) \o Tail(Q) = D \o (<<Head(Q)>> \o Tail(Q))
  BY <1>1, ConcatAssociative
<1> QED
  BY <1>2, <1>3, ConcatEmptySeq

\* Dispatching moves the worker's delivery to the end of the dispatched ones.
LEMMA MoveOut ==
    ASSUME NEW S, NEW D \in Seq(S), NEW Q \in Seq(S), NEW d \in S
    PROVE  D \o <<d>> \o Q = Append(D, d) \o <<>> \o Q
  OBVIOUS

\* Every step keeps what was accepted equal to what was dispatched, held and queued.
LEMMA FifoStep == TypeOK /\ EvalInv /\ FifoInv /\ [Next]_vars => FifoInv'
<1> SUFFICES ASSUME TypeOK, EvalInv, FifoInv, [Next]_vars
             PROVE  FifoInv'
  OBVIOUS
<1> USE DEF FifoInv, QueueIsFifo, DrainedMeansAll, Holding, WorkerUp, SendersGone, Alive
<1> USE DEF brokerVars, clientVars, workerVars, mainVars
<1>t. /\ queue \in Seq(Deliveries) /\ accepted \in Seq(Deliveries)
      /\ dispatched \in Seq(Deliveries)
      /\ wpc \in {"taken", "evaluating", "ack", "dispatch"} =>
            cur \in Deliveries /\ cur # NoDelivery
      /\ wpc \in {"idle", "ended", "panicked"} => cur = NoDelivery
      /\ phase # "exited" => outcome = "none"
      /\ Holding \in Seq(Deliveries)
  BY NotADelivery DEF TypeOK
<1>1. ASSUME NEW c \in Clients, \/ BrokerSend(c) \/ BrokerResend(c) \/ FlushAck(c)
                                \/ Reject(c) \/ EndLoop(c)
      PROVE  FifoInv'
  <2>1. UNCHANGED <<queue, wpc, cur, phase, outcome, accepted, dispatched, evaluated>>
    BY <1>1 DEF BrokerSend, BrokerResend, FlushAck, Reject, EndLoop
  <2> QED
    BY <2>1
<1>2. ASSUME NEW c \in Clients, Accept(c)  PROVE FifoInv'
  <2> DEFINE d == [client |-> c, msg |-> Head(wire[c])]
  <2>1. d \in Deliveries
    BY <1>2, HeadTailProperties DEF Accept, TypeOK, Deliveries
  <2>2. Append(dispatched \o Holding \o queue, d) = dispatched \o Holding \o Append(queue, d)
    <3> DEFINE P == dispatched \o Holding
    <3>1. P \in Seq(Deliveries) /\ queue \in Seq(Deliveries)
      BY <1>t, ConcatProperties
    <3> HIDE DEF d, P
    <3>2. (P \o queue) \o <<d>> = P \o (queue \o <<d>>)
      BY ONLY <2>1, <3>1, ConcatAssociative
    <3>3. P \o queue \in Seq(Deliveries)
      BY <3>1, ConcatProperties
    <3> QED
      BY <2>1, <3>1, <3>2, <3>3, AppendIsConcat DEF P
  <2>3. /\ queue' = Append(queue, d) /\ accepted' = Append(accepted, d)
        /\ WorkerUp /\ Holding' = Holding /\ phase # "exited"
        /\ UNCHANGED <<wpc, dispatched, evaluated, outcome>>
    BY <1>2 DEF Accept, QueueOpen
  <2> QED
    BY <1>t, <2>2, <2>3
<1>3. CASE Take
  <2>1. dispatched \o <<>> \o queue = dispatched \o <<Head(queue)>> \o Tail(queue)
    BY <1>3, <1>t, MoveToHand DEF Take
  <2>2. Head(queue) \in Deliveries /\ Head(queue) # NoDelivery
    BY <1>3, <1>t, HeadTailProperties, NotADelivery DEF Take
  <2>3. Holding = <<>> /\ Holding' = <<Head(queue)>> /\ queue' = Tail(queue)
    BY <1>3, <1>t, <2>2 DEF Take
  <2> QED
    BY <1>3, <1>t, <2>1, <2>3 DEF Take
<1>4. CASE WorkerDone
  <2>1. Holding = <<>> /\ queue = <<>> /\ accepted = dispatched
    BY <1>4, <1>t, ConcatEmptySeq DEF WorkerDone
  <2> QED
    BY <1>4, <1>t, <2>1 DEF WorkerDone
<1>5. CASE WorkerForced \/ WorkerPanic
  BY <1>5, <1>t DEF WorkerForced, WorkerPanic, DropDelivery, Forced
<1>6. CASE NotForced \/ Evaluate \/ Ack
  BY <1>6, <1>t DEF NotForced, Evaluate, Ack
<1>7. CASE Dispatch
  <2>1. cur \in Deliveries /\ cur # NoDelivery /\ cur.msg \in evaluated
    BY <1>7, <1>t DEF Dispatch, EvalInv
  <2>2. dispatched \o <<cur>> \o queue = Append(dispatched, cur) \o <<>> \o queue
    BY <1>t, <2>1, MoveOut
  <2>3. Holding = <<cur>> /\ Holding' = <<>> /\ dispatched' = Append(dispatched, cur)
    BY <1>7, <2>1 DEF Dispatch
  <2>4. \A i \in DOMAIN dispatched' : dispatched'[i].msg \in evaluated
    BY <1>t, <2>1, <2>3
  <2> QED
    BY <1>7, <1>t, <2>2, <2>3, <2>4 DEF Dispatch
<1>8. CASE ShutdownSignal \/ IntakeStopped \/ DrainTimeout
  BY <1>8, <1>t DEF ShutdownSignal, IntakeStopped, DrainTimeout
<1>9. CASE WorkerJoined \/ ForceTimeout \/ Crash
  BY <1>9, <1>t DEF WorkerJoined, ForceTimeout, Crash, ExitWith, Forced
<1>10. CASE Restart
  BY <1>10, ConcatEmptySeq DEF Restart
<1>11. CASE UNCHANGED vars
  BY <1>11 DEF vars
<1> QED
  BY <1>1, <1>2, <1>3, <1>4, <1>5, <1>6, <1>7, <1>8, <1>9, <1>10, <1>11
     DEF Next, LoopError, LoopStop

\* Hence it holds in every reachable state.
LEMMA FifoInvariant == Spec => []FifoInv
<1>1. Init => FifoInv
  BY DEF Init, FifoInv, QueueIsFifo, DrainedMeansAll, Holding
<1> QED
  BY <1>1, FifoStep, TypeCorrect, EvalInvariant, PTL DEF Spec

\* While the worker is up, what the queue accepted is what was dispatched, what the
\* worker holds and what is queued, in that order.
THEOREM DeliveriesAreFifo == Spec => []QueueIsFifo
  BY FifoInvariant, PTL DEF FifoInv

\* "eval queue drained" is logged only if every accepted delivery was dispatched.
THEOREM DrainIsComplete == Spec => []DrainedMeansAll
  BY FifoInvariant, PTL DEF FifoInv

-----------------------------------------------------------------------------
(***************************************************************************)
(* The order of PUBACKs.  A client's messages pass five places on their    *)
(* way: still to be sent again, on the wire, in the eval queue, with the   *)
(* worker, in the request channel.  In each place they are in order, and   *)
(* everything in a later place is older than everything in an earlier one. *)
(***************************************************************************)
Before(S, T) == \A m \in S, n \in T : m < n

Queued(c)  == {m \in Msgs : \E i \in DOMAIN queue : queue[i] = [client |-> c, msg |-> m]}
Working(c) == {m \in Msgs : /\ wpc \in {"taken", "evaluating", "ack"}
                            /\ cur = [client |-> c, msg |-> m]}

Behind(c) == Elements(wire[c]) \cup resend[c]
Owed(c)   == Elements(req[c]) \cup Working(c) \cup Queued(c) \cup Behind(c)

QueueOrder(c) ==
    \A i, j \in DOMAIN queue :
        i < j /\ queue[i].client = c /\ queue[j].client = c => queue[i].msg < queue[j].msg

OrderOf(c) ==
    /\ Increasing(req[c])
    /\ Increasing(wire[c])
    /\ QueueOrder(c)
    /\ Before(Elements(req[c]), Working(c) \cup Queued(c) \cup Behind(c))
    /\ Before(Working(c), Queued(c) \cup Behind(c))
    /\ Before(Queued(c), Behind(c))
    /\ Before(Elements(wire[c]), resend[c])
    /\ \A m \in Owed(c) \cup inflight[c] : m <= published

OrderInv ==
    /\ \A c \in Clients : OrderOf(c)
    /\ cur # NoDelivery => cur.msg <= published

\* An increasing sequence of messages: its tail, its head, and one more at its end.
LEMMA TailIncreasing ==
    ASSUME NEW s \in Seq(Nat), s # <<>>, Increasing(s)
    PROVE  /\ Increasing(Tail(s))
           /\ \A m \in Elements(Tail(s)) : Head(s) < m
<1>1. /\ Tail(s) \in Seq(Nat) /\ Len(Tail(s)) = Len(s) - 1 /\ Len(s) \in Nat
      /\ \A i \in DOMAIN Tail(s) : i \in Nat /\ i > 0 /\ i + 1 \in DOMAIN s /\ Tail(s)[i] = s[i + 1]
      /\ 1 \in DOMAIN s /\ Head(s) = s[1]
  OBVIOUS
<1>2. Increasing(Tail(s))
  BY <1>1 DEF Increasing
<1>3. \A m \in Elements(Tail(s)) : Head(s) < m
  BY <1>1 DEF Increasing, Elements
<1> QED
  BY <1>2, <1>3

\* A larger element at the end of an increasing sequence.
LEMMA AppendIncreasing ==
    ASSUME NEW s \in Seq(Nat), NEW m \in Nat, Increasing(s), \A n \in Elements(s) : n < m
    PROVE  Increasing(Append(s, m))
<1>1. \A i \in DOMAIN s : s[i] < m
  BY DEF Elements
<1>2. /\ Append(s, m) \in Seq(Nat) /\ Len(Append(s, m)) = Len(s) + 1 /\ Len(s) \in Nat
      /\ \A i \in DOMAIN s : i \in Nat /\ Append(s, m)[i] = s[i]
      /\ Append(s, m)[Len(s) + 1] = m
      /\ \A i \in DOMAIN Append(s, m) : i \in DOMAIN s \/ i = Len(s) + 1
      /\ \A i \in DOMAIN s : i <= Len(s)
  OBVIOUS
<1> QED
  BY <1>1, <1>2 DEF Increasing

\* The empty sequence is increasing.
LEMMA EmptyIncreasing == Increasing(<<>>)
  BY DEF Increasing

\* A client whose places only lose messages keeps its order.
LEMMA OrderShrinks ==
    ASSUME NEW c \in Clients, OrderOf(c), published \in Nat, published' \in Nat,
           inflight \in [Clients -> SUBSET (Msgs \ Qos0)], published <= published',
           Increasing(req'[c]), Elements(req'[c]) \subseteq Elements(req[c]),
           Increasing(wire'[c]), Elements(wire'[c]) \subseteq Elements(wire[c]),
           QueueOrder(c)', Queued(c)' \subseteq Queued(c), Working(c)' \subseteq Working(c),
           resend'[c] \subseteq resend[c], inflight'[c] \subseteq inflight[c],
           Owed(c) \subseteq Nat
    PROVE  OrderOf(c)'
<1> USE DEF OrderOf, Before, Behind, Owed
<1>1. /\ Before(Elements(req[c]), Working(c) \cup Queued(c) \cup Behind(c))'
      /\ Before(Working(c), Queued(c) \cup Behind(c))'
      /\ Before(Queued(c), Behind(c))'
      /\ Before(Elements(wire[c]), resend[c])'
  OBVIOUS
<1>2. \A m \in Owed(c)' \cup inflight'[c] : m \in Nat /\ m <= published
  BY DEF Msgs
<1>3. \A m \in Owed(c)' \cup inflight'[c] : m <= published'
  BY <1>2
<1> QED
  BY <1>1, <1>3

\* What the order proofs use of TypeOK.
LEMMA OrderTypes ==
    ASSUME TypeOK
    PROVE  /\ published \in Nat /\ published <= MaxMsg /\ Msgs \subseteq Nat
           /\ inflight \in [Clients -> SUBSET (Msgs \ Qos0)]
           /\ queue \in Seq(Deliveries)
           /\ \A c \in Clients : /\ req[c] \in Seq(Nat) /\ wire[c] \in Seq(Nat)
                                 /\ Owed(c) \subseteq Nat /\ Owed(c) \subseteq Msgs
<1>1. MaxMsg \in Nat /\ published \in Nat /\ published <= MaxMsg /\ Msgs \subseteq Nat
  BY PipelineAssumption DEF TypeOK, Msgs
<1>2. ASSUME NEW c \in Clients
      PROVE  /\ req[c] \in Seq(Nat) /\ wire[c] \in Seq(Nat) /\ Owed(c) \subseteq Msgs
  <2>1. req[c] \in Seq(Msgs \ Qos0) /\ wire[c] \in Seq(Msgs) /\ resend[c] \subseteq Msgs
    BY <1>2 DEF TypeOK
  <2>2. Elements(req[c]) \subseteq Msgs /\ Elements(wire[c]) \subseteq Msgs
    BY <2>1 DEF Elements
  <2>3. req[c] \in Seq(Nat) /\ wire[c] \in Seq(Nat)
    BY <1>1, <2>1, SeqMonotonic
  <2> QED
    BY <2>1, <2>2, <2>3 DEF Owed, Working, Queued, Behind
<1> QED
  BY <1>1, <1>2 DEF TypeOK

\* A step that leaves a client's places and the queue alone leaves its order alone.
LEMMA OrderFrame ==
    ASSUME TypeOK, TypeOK', NEW c \in Clients, OrderOf(c),
           req'[c] = req[c], wire'[c] = wire[c], queue' = queue, published' >= published,
           Working(c)' \subseteq Working(c),
           resend'[c] \subseteq resend[c], inflight'[c] \subseteq inflight[c]
    PROVE  OrderOf(c)'
<1>1. QueueOrder(c)' /\ Queued(c)' \subseteq Queued(c)
  BY DEF OrderOf, QueueOrder, Queued
<1>2. Increasing(req'[c]) /\ Increasing(wire'[c])
  BY DEF OrderOf
<1>3. published' \in Nat /\ published \in Nat /\ published <= published'
  BY PipelineAssumption DEF TypeOK
<1>4. inflight \in [Clients -> SUBSET (Msgs \ Qos0)] /\ Owed(c) \subseteq Nat
  BY OrderTypes
<1> QED
  BY <1>1, <1>2, <1>3, <1>4, OrderShrinks

\* The head of a queue moves to the worker, or the queue is cut at its head: what
\* remains is in order, a part of what was queued, and younger than the head.
LEMMA QueueTail ==
    ASSUME NEW c \in Clients, queue \in Seq(Deliveries), queue # <<>>,
           Msgs \subseteq Nat, queue' = Tail(queue), QueueOrder(c)
    PROVE  /\ QueueOrder(c)'
           /\ Queued(c)' \subseteq Queued(c)
           /\ \A m \in Msgs : Head(queue) = [client |-> c, msg |-> m] =>
                 m \in Queued(c) /\ \A n \in Queued(c)' : m < n
<1>1. /\ Tail(queue) \in Seq(Deliveries)
      /\ \A i \in DOMAIN Tail(queue) : /\ i \in Nat /\ i > 0 /\ i + 1 \in DOMAIN queue
                                       /\ Tail(queue)[i] = queue[i + 1]
      /\ 1 \in DOMAIN queue /\ Head(queue) = queue[1]
  OBVIOUS
<1>2. QueueOrder(c)'
  BY <1>1 DEF QueueOrder
<1>3. Queued(c)' \subseteq Queued(c)
  BY <1>1 DEF Queued
<1>4. ASSUME NEW m \in Msgs, Head(queue) = [client |-> c, msg |-> m], NEW n \in Queued(c)'
      PROVE  m < n
  <2>1. PICK i \in DOMAIN Tail(queue) : Tail(queue)[i] = [client |-> c, msg |-> n]
    BY DEF Queued
  <2>2. queue[i + 1] = [client |-> c, msg |-> n] /\ queue[1] = [client |-> c, msg |-> m] /\ 1 < i + 1
    BY <1>1, <1>4, <2>1
  <2> QED
    BY <1>1, <2>2 DEF QueueOrder
<1> QED
  BY <1>1, <1>2, <1>3, <1>4 DEF Queued

\* A delivery at the end of the queue keeps the order of every client there, if it
\* is larger than the queued ones of its own client.
LEMMA QueueAppend ==
    ASSUME NEW c \in Clients, NEW h \in Msgs, NEW e \in Clients, QueueOrder(e),
           queue \in Seq(Deliveries), queue' = Append(queue, [client |-> c, msg |-> h]),
           e = c => \A m \in Queued(c) : m < h
    PROVE  /\ QueueOrder(e)'
           /\ Queued(e)' = IF e = c THEN Queued(e) \cup {h} ELSE Queued(e)
<1> DEFINE d == [client |-> c, msg |-> h]
<1>1. d \in Deliveries /\ d.client = c /\ d.msg = h
  BY DEF Deliveries
<1>2. \A m \in Msgs : d = [client |-> e, msg |-> m] <=> e = c /\ m = h
  OBVIOUS
<1>3. \A i \in DOMAIN queue : queue[i].client = c => queue[i].msg \in Queued(c)
  <2>1. \A i \in DOMAIN queue : queue[i] \in Deliveries
    OBVIOUS
  <2>2. \A x \in Deliveries : x = [client |-> x.client, msg |-> x.msg] /\ x.msg \in Msgs
    BY DEF Deliveries
  <2> QED
    BY <2>1, <2>2 DEF Queued
<1> HIDE DEF d
<1>4. /\ \A i \in DOMAIN queue : i \in DOMAIN queue' /\ queue'[i] = queue[i] /\ i \in Nat /\ i <= Len(queue)
      /\ Len(queue) + 1 \in DOMAIN queue' /\ queue'[Len(queue) + 1] = d
      /\ \A i \in DOMAIN queue' : i \in DOMAIN queue \/ i = Len(queue) + 1
      /\ Len(queue) \in Nat
  BY <1>1 DEF d
<1>5. QueueOrder(e)'
  BY <1>1, <1>3, <1>4 DEF QueueOrder
<1>6. \A m \in Msgs : m \in Queued(e)' <=> m \in Queued(e) \/ (e = c /\ m = h)
  BY <1>2, <1>4 DEF Queued, d
<1> QED
  BY <1>5, <1>6 DEF Queued

\* The steps of the broker and of the event loops keep the order.
LEMMA OrderIntake ==
    ASSUME TypeOK, TypeOK', OrderInv, NEW c \in Clients,
           \/ BrokerSend(c) \/ BrokerResend(c) \/ FlushAck(c)
           \/ Accept(c) \/ Reject(c) \/ EndLoop(c)
    PROVE  OrderInv'
<1> USE DEF OrderInv, brokerVars, clientVars, workerVars, mainVars
<1>t. /\ published \in Nat /\ published' \in Nat /\ published <= published' /\ Msgs \subseteq Nat
      /\ inflight \in [Clients -> SUBSET (Msgs \ Qos0)]
      /\ \A e \in Clients : /\ req[e] \in Seq(Nat) /\ wire[e] \in Seq(Nat) /\ Owed(e) \subseteq Nat
      /\ queue \in Seq(Deliveries)
  <2>1. published' \in Nat /\ published' \in {published, published + 1}
    BY OrderTypes DEF BrokerSend, BrokerResend, FlushAck, Accept, Reject, EndLoop
  <2> QED
    BY <2>1, OrderTypes
<1>n. published \in Nat /\ published' \in Nat /\ published <= published'
  BY <1>t
<1>c. cur' # NoDelivery => cur'.msg <= published'
  <2>1. cur' = cur
    BY DEF BrokerSend, BrokerResend, FlushAck, Accept, Reject, EndLoop
  <2>2. cur # NoDelivery => cur.msg \in Nat /\ cur.msg <= published
    BY <1>t, DeliveryFields DEF TypeOK
  <2> QED
    BY ONLY <1>n, <2>1, <2>2
<1>e. ASSUME NEW e \in Clients, e # c  PROVE OrderOf(e)'
  <2>1. /\ req'[e] = req[e] /\ wire'[e] = wire[e] /\ resend'[e] = resend[e]
        /\ inflight'[e] = inflight[e] /\ wpc' = wpc /\ cur' = cur
    BY <1>e DEF TypeOK, BrokerSend, BrokerResend, FlushAck, Accept, Reject, EndLoop
  <2>2. Working(e)' = Working(e)
    BY <2>1 DEF Working
  <2>3. CASE Accept(c)
    <3>1. Head(wire[c]) \in Msgs
      BY <2>3, HeadTailProperties DEF TypeOK, Accept
    <3>2. queue' = Append(queue, [client |-> c, msg |-> Head(wire[c])])
      BY <2>3 DEF Accept
    <3>3. QueueOrder(e)' /\ Queued(e)' = Queued(e)
      BY <1>e, <1>t, <3>1, <3>2, QueueAppend DEF OrderOf
    <3> QED
      BY <1>e, <1>t, <2>1, <2>2, <3>3, OrderShrinks DEF OrderOf
  <2>4. CASE ~Accept(c)
    <3>1. queue' = queue
      BY <2>4 DEF BrokerSend, BrokerResend, FlushAck, Accept, Reject, EndLoop
    <3> QED
      BY <1>e, <1>t, <2>1, <2>2, <3>1, OrderFrame
  <2> QED
    BY <2>3, <2>4
<1>w. Working(c)' = Working(c)
  BY DEF Working, BrokerSend, BrokerResend, FlushAck, Accept, Reject, EndLoop
<1>o. OrderOf(c)
  OBVIOUS
<1>1. CASE BrokerSend(c)
  <2> DEFINE m == published + 1
  <2>1. /\ wire' = [wire EXCEPT ![c] = Append(@, m)] /\ resend'[c] = {} /\ resend[c] = {}
        /\ req' = req /\ queue' = queue /\ published' = m
        /\ inflight'[c] \subseteq inflight[c] \cup {m}
    BY <1>1 DEF BrokerSend, TypeOK
  <2>2. wire'[c] = Append(wire[c], m)
    <3>1. wire \in [Clients -> Seq(Msgs)]
      BY DEF TypeOK
    <3> QED
      BY <2>1, <3>1
  <2>3. \A n \in Owed(c) \cup inflight[c] : n \in Nat /\ n < m
    <3>1. Owed(c) \cup inflight[c] \subseteq Nat
      BY <1>t
    <3>2. \A n \in Owed(c) \cup inflight[c] : n <= published
      BY <1>o DEF OrderOf
    <3> QED
      BY ONLY <1>n, <3>1, <3>2
  <2>4. Elements(wire'[c]) = Elements(wire[c]) \cup {m} /\ Increasing(wire'[c])
    <3> HIDE DEF m
    <3>1. m \in Nat /\ wire[c] \in Seq(Nat)
      BY <1>t DEF m
    <3>2. \A n \in Elements(wire[c]) : n < m
      BY <2>3 DEF Owed, Behind
    <3>3. Elements(Append(wire[c], m)) = Elements(wire[c]) \cup {m}
      BY ONLY <3>1, AppendElements
    <3>4. Increasing(wire[c])
      BY <1>o DEF OrderOf
    <3>5. Increasing(Append(wire[c], m))
      BY ONLY <3>1, <3>2, <3>4, AppendIncreasing
    <3> QED
      BY <2>2, <3>3, <3>5
  <2>5. Queued(c)' = Queued(c) /\ QueueOrder(c)'
    BY <1>o, <2>1 DEF Queued, OrderOf, QueueOrder
  <2> HIDE DEF m
  <2>6. /\ Before(Elements(req[c]), Working(c) \cup Queued(c) \cup Behind(c))'
        /\ Before(Working(c), Queued(c) \cup Behind(c))'
        /\ Before(Queued(c), Behind(c))'
        /\ Before(Elements(wire[c]), resend[c])'
    BY <1>o, <1>w, <2>1, <2>3, <2>4, <2>5 DEF OrderOf, Before, Behind, Owed
  <2>7. \A n \in Owed(c)' \cup inflight'[c] : n <= published'
    BY <1>t, <1>w, <2>1, <2>3, <2>4, <2>5 DEF Behind, Owed
  <2>8. OrderOf(c)'
    BY <1>o, <2>1, <2>4, <2>5, <2>6, <2>7 DEF OrderOf
  <2> QED
    BY <1>c, <1>e, <2>8
<1>2. CASE BrokerResend(c)
  <2>1. PICK m \in resend[c] :
           /\ \A n \in resend[c] : m <= n
           /\ resend' = [resend EXCEPT ![c] = @ \ {m}]
           /\ wire' = [wire EXCEPT ![c] = Append(@, m)]
    BY <1>2 DEF BrokerResend
  <2>2. /\ wire'[c] = Append(wire[c], m) /\ resend'[c] = resend[c] \ {m}
        /\ req' = req /\ queue' = queue /\ published' = published /\ inflight' = inflight
    BY <1>2, <2>1 DEF BrokerResend, TypeOK
  <2>3. m \in Nat /\ \A n \in resend'[c] : n \in Nat /\ m < n
    <3>1. resend[c] \subseteq Nat
      BY <1>t DEF Owed, Behind
    <3>2. resend'[c] = resend[c] \ {m} /\ m \in resend[c] /\ \A n \in resend[c] : m <= n
      BY <2>1, <2>2
    <3> QED
      BY ONLY <3>1, <3>2
  <2>4. Elements(wire'[c]) = Elements(wire[c]) \cup {m} /\ Increasing(wire'[c])
    <3>1. m \in Nat /\ wire[c] \in Seq(Nat) /\ \A n \in Elements(wire[c]) : n < m
      BY <1>t, <1>o, <2>1, <2>3 DEF OrderOf, Before
    <3>2. Elements(Append(wire[c], m)) = Elements(wire[c]) \cup {m}
      BY ONLY <3>1, AppendElements
    <3>3. Increasing(wire[c])
      BY <1>o DEF OrderOf
    <3>4. Increasing(Append(wire[c], m))
      BY ONLY <3>1, <3>3, AppendIncreasing
    <3> QED
      BY <2>2, <3>2, <3>4
  <2>5. Queued(c)' = Queued(c) /\ QueueOrder(c)' /\ Behind(c)' = Behind(c)
    BY <1>o, <2>1, <2>2, <2>4 DEF Queued, OrderOf, QueueOrder, Behind
  <2>6. Before(Elements(wire'[c]), resend'[c])
    BY <1>o, <2>2, <2>3, <2>4 DEF OrderOf, Before
  <2>7. OrderOf(c)'
    BY <1>o, <1>w, <2>2, <2>4, <2>5, <2>6 DEF OrderOf, Owed
  <2> QED
    BY <1>c, <1>e, <2>7
<1>3. CASE FlushAck(c)
  <2>1. /\ req'[c] = Tail(req[c]) /\ req[c] # <<>> /\ inflight'[c] \subseteq inflight[c]
        /\ UNCHANGED <<wire, resend, queue, published>>
    BY <1>3 DEF FlushAck, TypeOK
  <2>2. Increasing(req'[c]) /\ Elements(req'[c]) \subseteq Elements(req[c])
    BY <1>t, <1>o, <2>1, TailIncreasing, TailElements DEF OrderOf
  <2>3. Queued(c)' = Queued(c) /\ QueueOrder(c)'
    BY <1>o, <2>1 DEF Queued, OrderOf, QueueOrder
  <2> QED
    BY <1>t, <1>c, <1>e, <1>o, <1>w, <2>1, <2>2, <2>3, OrderShrinks DEF OrderOf
<1>4. CASE Accept(c)
  <2> DEFINE h == Head(wire[c])
  <2>1. /\ wire'[c] = Tail(wire[c]) /\ wire[c] # <<>>
        /\ queue' = Append(queue, [client |-> c, msg |-> h])
        /\ UNCHANGED <<req, resend, inflight, published>>
    BY <1>4 DEF Accept, TypeOK
  <2>2. /\ h \in Msgs /\ h \in Elements(wire[c])
        /\ Elements(wire'[c]) \subseteq Elements(wire[c])
        /\ Increasing(wire'[c]) /\ \A n \in Elements(wire'[c]) : h < n
    BY <1>t, <1>o, <2>1, TailIncreasing, TailElements, HeadTailProperties DEF OrderOf, TypeOK
  <2> HIDE DEF h
  <2>3. \A n \in Queued(c) : n < h
    BY <1>o, <2>2 DEF OrderOf, Before, Behind
  <2>4. QueueOrder(c)' /\ Queued(c)' = Queued(c) \cup {h}
    BY <1>t, <1>o, <2>1, <2>2, <2>3, QueueAppend DEF OrderOf
  <2>5. /\ Before(Elements(req[c]), Working(c) \cup Queued(c) \cup Behind(c))'
        /\ Before(Working(c), Queued(c) \cup Behind(c))'
        /\ Before(Queued(c), Behind(c))'
        /\ Before(Elements(wire[c]), resend[c])'
    BY <1>o, <1>w, <2>1, <2>2, <2>4 DEF OrderOf, Before, Behind
  <2>6. Owed(c)' \subseteq Owed(c)
    BY <1>w, <2>1, <2>2, <2>4 DEF Owed, Behind
  <2>7. OrderOf(c)'
    BY <1>o, <2>1, <2>2, <2>4, <2>5, <2>6 DEF OrderOf
  <2> QED
    BY <1>c, <1>e, <2>7
<1>5. CASE Reject(c)
  <2>1. /\ wire'[c] = Tail(wire[c]) /\ wire[c] # <<>>
        /\ UNCHANGED <<req, resend, inflight, queue, published>>
    BY <1>5 DEF Reject, TypeOK
  <2>2. Increasing(wire'[c]) /\ Elements(wire'[c]) \subseteq Elements(wire[c])
    BY <1>t, <1>o, <2>1, TailIncreasing, TailElements DEF OrderOf
  <2>3. Queued(c)' = Queued(c) /\ QueueOrder(c)'
    BY <1>o, <2>1 DEF Queued, OrderOf, QueueOrder
  <2> QED
    BY <1>t, <1>c, <1>e, <1>o, <1>w, <2>1, <2>2, <2>3, OrderShrinks DEF OrderOf
<1>6. CASE EndLoop(c)
  <2>1. /\ wire'[c] = <<>> /\ req'[c] = <<>> /\ resend'[c] = {}
        /\ UNCHANGED <<inflight, queue, published>>
    BY <1>6 DEF EndLoop, TypeOK
  <2>2. Queued(c)' = Queued(c) /\ QueueOrder(c)'
    BY <1>o, <2>1 DEF Queued, OrderOf, QueueOrder
  <2> QED
    BY <1>t, <1>c, <1>e, <1>o, <1>w, <2>1, <2>2, NoElements, EmptyIncreasing, OrderShrinks
       DEF OrderOf
<1> QED
  BY <1>1, <1>2, <1>3, <1>4, <1>5, <1>6

\* The steps of the eval worker keep the order.
LEMMA OrderWorker ==
    ASSUME TypeOK, TypeOK', OrderInv, Worker
    PROVE  OrderInv'
<1> USE DEF brokerVars, clientVars, workerVars, mainVars
<1>t. /\ published \in Nat /\ Msgs \subseteq Nat
      /\ inflight \in [Clients -> SUBSET (Msgs \ Qos0)]
      /\ queue \in Seq(Deliveries)
      /\ \A e \in Clients : /\ req[e] \in Seq(Nat) /\ wire[e] \in Seq(Nat) /\ Owed(e) \subseteq Nat
  BY OrderTypes
<1>o. \A c \in Clients : OrderOf(c)
  BY DEF OrderInv
<1>b. UNCHANGED <<published, inflight, resend, wire>>
  BY DEF Worker, Take, WorkerDone, WorkerForced, NotForced, WorkerPanic, DropDelivery,
         Evaluate, Ack, Dispatch
<1>1. CASE Take
  <2>1. /\ queue # <<>> /\ queue' = Tail(queue) /\ cur' = Head(queue) /\ req' = req
        /\ wpc = "idle" /\ wpc' = "taken"
    BY <1>1 DEF Take
  <2>2. ASSUME NEW c \in Clients  PROVE OrderOf(c)'
    <3>1. OrderOf(c)
      BY <1>o, <2>2
    <3>2. /\ QueueOrder(c)' /\ Queued(c)' \subseteq Queued(c)
          /\ \A m \in Msgs : Head(queue) = [client |-> c, msg |-> m] =>
                m \in Queued(c) /\ \A n \in Queued(c)' : m < n
      BY <1>t, <2>1, <3>1, QueueTail DEF OrderOf
    <3>3. \A m \in Working(c)' : m \in Queued(c) /\ \A n \in Queued(c)' : m < n
      BY <2>1, <3>2 DEF Working
    <3>4. Behind(c)' = Behind(c)
      BY <1>b DEF Behind
    <3>5. Before(Elements(req[c]), Working(c) \cup Queued(c) \cup Behind(c))'
      BY <2>1, <3>1, <3>2, <3>3, <3>4 DEF OrderOf, Before
    <3>6. Before(Working(c), Queued(c) \cup Behind(c))' /\ Before(Queued(c), Behind(c))'
      BY <3>1, <3>2, <3>3, <3>4 DEF OrderOf, Before
    <3>7. Owed(c)' \subseteq Owed(c)
      BY <2>1, <3>2, <3>3, <3>4 DEF Owed
    <3> QED
      BY <1>b, <2>1, <3>1, <3>2, <3>5, <3>6, <3>7 DEF OrderOf
  <2>3. cur'.msg <= published'
    <3>1. Head(queue) \in Deliveries
      BY <1>t, <2>1, HeadTailProperties
    <3>2. PICK c \in Clients, m \in Msgs : Head(queue) = [client |-> c, msg |-> m]
      BY <3>1 DEF Deliveries
    <3>3. m \in Queued(c)
      BY <1>t, <1>o, <2>1, <3>2, QueueTail DEF OrderOf
    <3>4. m <= published
      BY <1>o, <3>3 DEF OrderOf, Owed
    <3> QED
      BY <1>b, <2>1, <3>2, <3>4
  <2> QED
    BY <2>2, <2>3 DEF OrderInv
<1>2. CASE Ack
  <2>1. /\ wpc = "ack" /\ wpc' = "dispatch" /\ cur' = cur /\ queue' = queue
    BY <1>2 DEF Ack
  <2>2. ASSUME NEW c \in Clients  PROVE OrderOf(c)'
    <3>1. OrderOf(c) /\ Working(c)' = {} /\ Queued(c)' = Queued(c) /\ QueueOrder(c)'
      BY <1>o, <2>1, <2>2 DEF Working, Queued, OrderOf, QueueOrder
    <3>2. CASE req'[c] = req[c]
      BY <1>b, <2>1, <3>1, <3>2, OrderFrame, <1>t
    <3>3. CASE req'[c] # req[c]
      <4>1. AckQueued /\ cur.client = c /\ req'[c] = Append(req[c], cur.msg)
        BY <1>2, <3>3 DEF Ack, AckQueued, AckFailed, AckNothing, TypeOK
      <4>2. cur.msg \in Msgs /\ cur = [client |-> c, msg |-> cur.msg]
        BY <2>1, <4>1 DEF TypeOK, Deliveries
      <4>3. cur.msg \in Working(c)
        BY <2>1, <4>2 DEF Working
      <4> DEFINE m == cur.msg
      <4>4. m \in Nat /\ req[c] \in Seq(Nat) /\ \A n \in Elements(req[c]) : n < m
        BY <1>t, <3>1, <4>2, <4>3 DEF OrderOf, Before
      <4>5. \A n \in Queued(c) \cup Behind(c) : m < n
        BY <3>1, <4>3 DEF OrderOf, Before
      <4> HIDE DEF m
      <4>6. Elements(Append(req[c], m)) = Elements(req[c]) \cup {m}
        BY ONLY <4>4, AppendElements
      <4>7. Increasing(req[c])
        BY <3>1 DEF OrderOf
      <4>8. Increasing(Append(req[c], m))
        BY ONLY <4>4, <4>7, AppendIncreasing
      <4>9. req'[c] = Append(req[c], m) /\ m \in Working(c)
        BY <4>1, <4>3 DEF m
      <4>10. Behind(c)' = Behind(c)
        BY <1>b DEF Behind
      <4>11. /\ Before(Elements(req[c]), Working(c) \cup Queued(c) \cup Behind(c))'
             /\ Before(Working(c), Queued(c) \cup Behind(c))'
             /\ Before(Queued(c), Behind(c))'
             /\ Before(Elements(wire[c]), resend[c])'
        BY <1>b, <3>1, <4>5, <4>6, <4>9, <4>10 DEF OrderOf, Before
      <4>12. Owed(c)' \subseteq Owed(c)
        BY <3>1, <4>6, <4>9, <4>10 DEF Owed
      <4> QED
        BY <1>b, <3>1, <4>8, <4>9, <4>11, <4>12 DEF OrderOf
    <3> QED
      BY <3>2, <3>3
  <2> QED
    BY <1>b, <2>1, <2>2 DEF OrderInv
<1>3. CASE \/ WorkerDone \/ WorkerForced \/ NotForced \/ WorkerPanic
           \/ Evaluate \/ Dispatch
  <2>1. /\ req' = req /\ queue' = queue
        /\ cur' = cur \/ cur' = NoDelivery
        /\ wpc' \in {"taken", "evaluating", "ack"} =>
              cur' = cur /\ wpc \in {"taken", "evaluating", "ack"}
    BY <1>3 DEF WorkerDone, WorkerForced, NotForced, WorkerPanic, DropDelivery, Evaluate, Dispatch
  <2>2. ASSUME NEW c \in Clients  PROVE OrderOf(c)'
    <3>1. Working(c)' \subseteq Working(c)
      BY <2>1 DEF Working
    <3> QED
      BY <1>b, <1>o, <1>t, <2>1, <2>2, <3>1, OrderFrame
  <2> QED
    BY <1>b, <2>1, <2>2 DEF OrderInv
<1> QED
  BY <1>1, <1>2, <1>3 DEF Worker

\* Every step keeps the five places of every client in order.
LEMMA OrderStep == TypeOK /\ TypeOK' /\ OrderInv /\ [Next]_vars => OrderInv'
<1> SUFFICES ASSUME TypeOK, TypeOK', OrderInv, [Next]_vars
             PROVE  OrderInv'
  OBVIOUS
<1> USE DEF brokerVars, clientVars, workerVars, mainVars
<1>t. published \in Nat /\ inflight \in [Clients -> SUBSET (Msgs \ Qos0)]
  BY OrderTypes
<1>1. CASE \E c \in Clients : \/ BrokerSend(c) \/ BrokerResend(c) \/ FlushAck(c)
                              \/ Accept(c) \/ Reject(c) \/ EndLoop(c)
  BY <1>1, OrderIntake
<1>2. CASE Worker
  BY <1>2, OrderWorker
<1>3. CASE \/ ShutdownSignal \/ IntakeStopped \/ DrainTimeout
           \/ WorkerJoined \/ ForceTimeout \/ Crash \/ UNCHANGED vars
  <2>1. UNCHANGED <<brokerVars, clientVars, queue, workerVars>>
    BY <1>3 DEF ShutdownSignal, IntakeStopped, DrainTimeout, WorkerJoined, ForceTimeout,
                Crash, ExitWith, vars
  <2>2. ASSUME NEW c \in Clients  PROVE OrderOf(c)'
    <3>1. Working(c)' = Working(c)
      BY <2>1 DEF Working
    <3> QED
      BY <1>t, <2>1, <2>2, <3>1, OrderFrame DEF OrderInv
  <2> QED
    BY <2>1, <2>2 DEF OrderInv
<1>4. CASE Restart
  <2>1. /\ published' = published /\ queue' = <<>> /\ wpc' = "idle" /\ cur' = NoDelivery
        /\ \A c \in Clients : /\ req'[c] = <<>> /\ wire'[c] = <<>>
                              /\ inflight'[c] \subseteq inflight[c] /\ resend'[c] = inflight'[c]
    BY <1>4 DEF Restart, NoSeqs, NoSets
  <2>2. ASSUME NEW c \in Clients  PROVE OrderOf(c)'
    <3>1. /\ Elements(req'[c]) = {} /\ Elements(wire'[c]) = {} /\ Queued(c)' = {}
          /\ Working(c)' = {} /\ QueueOrder(c)'
          /\ Increasing(req'[c]) /\ Increasing(wire'[c])
      BY <2>1, <2>2, NoElements, EmptyIncreasing DEF Queued, Working, QueueOrder
    <3>2. \A m \in inflight[c] : m <= published
      BY DEF OrderInv, OrderOf
    <3>3. Owed(c)' = inflight'[c]
      BY <2>1, <2>2, <3>1 DEF Owed, Behind
    <3> QED
      BY <2>1, <2>2, <3>1, <3>2, <3>3 DEF OrderOf, Before
  <2> QED
    BY <2>1, <2>2 DEF OrderInv
<1> QED
  BY <1>1, <1>2, <1>3, <1>4 DEF Next, LoopError, LoopStop, Worker

\* Hence they are in order in every reachable state.
LEMMA OrderInvariant == Spec => []OrderInv
<1>1. Init => OrderInv
  <2> SUFFICES ASSUME Init, NEW c \in Clients  PROVE OrderOf(c)
    BY DEF OrderInv, Init
  <2>a. /\ req[c] = <<>> /\ wire[c] = <<>> /\ resend[c] = {} /\ inflight[c] = {}
        /\ queue = <<>> /\ wpc = "idle"
    BY DEF Init, NoSeqs, NoSets
  <2>1. /\ Elements(req[c]) = {} /\ Elements(wire[c]) = {} /\ Queued(c) = {}
        /\ Working(c) = {} /\ QueueOrder(c)
        /\ Increasing(req[c]) /\ Increasing(wire[c])
    BY <2>a, NoElements, EmptyIncreasing DEF Queued, Working, QueueOrder
  <2>2. Owed(c) \cup inflight[c] = {}
    BY <2>a, <2>1 DEF Owed, Behind
  <2> QED
    BY <2>a, <2>1, <2>2 DEF OrderOf, Before
<1> QED
  BY <1>1, OrderStep, TypeCorrect, PTL DEF Spec

\* PUBACKs wait in a request channel in the order the PUBLISHes arrived, although
\* they come through one queue and one worker shared by all the clients.
THEOREM AcksInOrder == Spec => []AckOrder
<1>1. OrderInv => AckOrder
  BY DEF OrderInv, OrderOf, AckOrder
<1> QED
  BY <1>1, OrderInvariant, PTL

-----------------------------------------------------------------------------
(***************************************************************************)
(* The drain is quiet.  The main thread starts it only after every event   *)
(* loop has ended, and no event loop starts again in the same process.     *)
(***************************************************************************)
IntakeInv == SendersGone => \A c \in Clients : loop[c] = "done"

\* After adapter.stop() every event loop is over, in every reachable state.
LEMMA IntakeInvariant == Spec => []IntakeInv
<1> USE DEF IntakeInv, SendersGone, Alive, brokerVars, clientVars, workerVars, mainVars
<1>1. Init => IntakeInv
  BY DEF Init
<1>2. TypeOK /\ IntakeInv /\ [Next]_vars => IntakeInv'
  <2> SUFFICES ASSUME TypeOK, IntakeInv, [Next]_vars  PROVE IntakeInv'
    OBVIOUS
  <2>t. loop \in [Clients -> {"poll", "done"}]
    BY DEF TypeOK
  <2>1. ASSUME NEW c \in Clients, \/ BrokerSend(c) \/ BrokerResend(c) \/ FlushAck(c)
                                  \/ Accept(c) \/ Reject(c) \/ EndLoop(c)
        PROVE  IntakeInv'
    <3>1. phase' = phase /\ \A e \in Clients : loop'[e] \in {loop[e], "done"}
      BY <2>t, <2>1 DEF BrokerSend, BrokerResend, FlushAck, Accept, Reject, EndLoop
    <3> QED
      BY <3>1
  <2>2. CASE Worker \/ UNCHANGED vars
    <3>1. UNCHANGED <<phase, loop>>
      BY <2>2 DEF Worker, Take, WorkerDone, WorkerForced, NotForced, WorkerPanic,
                  DropDelivery, Evaluate, Ack, Dispatch, vars
    <3> QED
      BY <3>1
  <2>3. CASE \/ ShutdownSignal \/ IntakeStopped \/ DrainTimeout \/ WorkerJoined
             \/ ForceTimeout \/ Crash \/ Restart
    BY <2>3 DEF ShutdownSignal, IntakeStopped, DrainTimeout, WorkerJoined, ForceTimeout,
                Crash, ExitWith, Restart
  <2> QED
    BY <2>1, <2>2, <2>3 DEF Next, LoopError, LoopStop, Worker
<1> QED
  BY <1>1, <1>2, TypeCorrect, PTL DEF Spec

\* After adapter.stop() nothing enters the eval queue or a request channel and
\* the broker releases nothing more, in every step of the drain and the forced stop.
THEOREM DrainIsQuiet == Spec => StoppedIntakeIsQuiet
<1> USE DEF SendersGone, Alive, brokerVars, clientVars, workerVars, mainVars
<1>1. TypeOK /\ IntakeInv /\ [Next]_vars =>
        [SendersGone => UNCHANGED <<accepted, req, acked>>]_vars
  <2> SUFFICES ASSUME TypeOK, IntakeInv, Next, SendersGone
               PROVE  UNCHANGED <<accepted, req, acked>>
    OBVIOUS
  <2>1. \A c \in Clients : loop[c] # "poll"
    BY DEF IntakeInv
  <2>2. \A c \in Clients : ~(\/ BrokerSend(c) \/ BrokerResend(c) \/ FlushAck(c)
                             \/ Accept(c) \/ Reject(c) \/ LoopError(c) \/ LoopStop(c))
    BY <2>1 DEF BrokerSend, BrokerResend, FlushAck, Accept, Reject, LoopError, LoopStop, EndLoop
  <2>3. CASE Ack
    <3>1. cur.client \in Clients
      BY <2>3, DeliveryFields DEF Ack, TypeOK
    <3>2. ~AckQueued
      BY <2>1, <3>1 DEF AckQueued, RequestOpen
    <3> QED
      BY <2>3, <3>2 DEF Ack, AckFailed, AckNothing
  <2>4. CASE \/ Take \/ WorkerDone \/ WorkerForced \/ NotForced \/ WorkerPanic
             \/ Evaluate \/ Dispatch
    BY <2>4 DEF Take, WorkerDone, WorkerForced, NotForced, WorkerPanic, DropDelivery,
                Evaluate, Dispatch
  <2>5. CASE \/ ShutdownSignal \/ IntakeStopped \/ DrainTimeout \/ WorkerJoined
             \/ ForceTimeout \/ Crash
    BY <2>5 DEF ShutdownSignal, IntakeStopped, DrainTimeout, WorkerJoined, ForceTimeout,
                Crash, ExitWith
  <2>6. ~Restart
    BY DEF Restart
  <2> QED
    BY <2>2, <2>3, <2>4, <2>5, <2>6 DEF Next
<1> QED
  BY <1>1, TypeCorrect, IntakeInvariant, PTL DEF Spec, StoppedIntakeIsQuiet

-----------------------------------------------------------------------------
(***************************************************************************)
(* The pipeline implements AtLeastOnce.  Evaluate needs the message to be  *)
(* offered (OrderInv: the worker holds nothing that was not published) and *)
(* FlushAck needs it to be evaluated (EvalInv); every other step, crashes  *)
(* and restarts included, leaves the abstract state as it is.              *)
(***************************************************************************)
THEOREM ImplementsGuarantee == Spec => ImplementsAtLeastOnce
<1> USE DEF brokerVars, clientVars, workerVars, mainVars
<1>1. Init => Guarantee!Init
  BY DEF Init, Guarantee!Init
<1>2. TypeOK /\ EvalInv /\ OrderInv /\ [Next]_vars => [Guarantee!Next]_(Guarantee!vars)
  <2> SUFFICES ASSUME TypeOK, EvalInv, OrderInv, [Next]_vars
               PROVE  Guarantee!Next \/ UNCHANGED Guarantee!vars
    OBVIOUS
  <2>t. published \in Nat /\ published' \in Nat
    <3>1. published \in Nat
      BY OrderTypes
    <3>2. published' \in {published, published + 1}
      BY DEF Next, BrokerSend, BrokerResend, FlushAck, Accept, Reject, LoopError, LoopStop,
             EndLoop, Take, WorkerDone, WorkerForced, NotForced, WorkerPanic, DropDelivery,
             Evaluate, Ack, Dispatch, ShutdownSignal, IntakeStopped, WorkerJoined, ExitWith,
             DrainTimeout, ForceTimeout, Crash, Restart, vars
    <3> QED
      BY <3>1, <3>2
  <2>1. ASSUME NEW c \in Clients, BrokerSend(c)  PROVE Guarantee!Next
    <3>1. /\ published' = published + 1 /\ published + 1 \in Msgs
          /\ UNCHANGED <<evaluated, acked>>
      BY <2>1, PipelineAssumption DEF BrokerSend, Msgs, TypeOK
    <3>2. 1..(published + 1) = 1..published \cup {published + 1} /\ published + 1 \notin 1..published
      BY <2>t
    <3>3. Guarantee!Offer(published + 1)
      BY <3>1, <3>2 DEF Guarantee!Offer
    <3> QED
      BY <3>1, <3>3 DEF Guarantee!Next
  <2>2. CASE Evaluate
    <3>1. cur \in Deliveries /\ cur # NoDelivery
      BY <2>2, NotADelivery DEF Evaluate, TypeOK
    <3>2. cur.msg \in Msgs /\ cur.msg \in 1..published
      BY <2>t, <3>1, DeliveryFields DEF OrderInv, Msgs
    <3>3. evaluated' = evaluated \cup {cur.msg} /\ UNCHANGED <<published, acked>>
      BY <2>2 DEF Evaluate
    <3>4. Guarantee!Evaluate(cur.msg)
      BY <3>2, <3>3 DEF Guarantee!Evaluate
    <3> QED
      BY <3>2, <3>4 DEF Guarantee!Next
  <2>3. ASSUME NEW c \in Clients, FlushAck(c)  PROVE Guarantee!Next
    <3>1. /\ req[c] \in Seq(Msgs \ Qos0) /\ req[c] # <<>>
          /\ acked' = acked \cup {Head(req[c])} /\ UNCHANGED <<published, evaluated>>
      BY <2>3 DEF FlushAck, TypeOK
    <3>2. Head(req[c]) \in Msgs \ Qos0
      BY <3>1, HeadTailProperties
    <3>3. Head(req[c]) \in evaluated
      BY <3>1, TailElements DEF EvalInv
    <3>4. Guarantee!Settle(Head(req[c]))
      BY <3>1, <3>2, <3>3 DEF Guarantee!Settle
    <3> QED
      BY <3>2, <3>4 DEF Guarantee!Next
  <2>4. ASSUME NEW c \in Clients, BrokerResend(c) \/ Accept(c) \/ Reject(c) \/ EndLoop(c)
        PROVE  UNCHANGED Guarantee!vars
    BY <2>4 DEF BrokerResend, Accept, Reject, EndLoop, Guarantee!vars
  <2>5. CASE \/ Take \/ WorkerDone \/ WorkerForced \/ NotForced \/ WorkerPanic
             \/ Ack \/ Dispatch
    BY <2>5 DEF Take, WorkerDone, WorkerForced, NotForced, WorkerPanic, DropDelivery, Ack,
                Dispatch, Guarantee!vars
  <2>6. CASE \/ ShutdownSignal \/ IntakeStopped \/ DrainTimeout \/ WorkerJoined
             \/ ForceTimeout \/ Crash \/ Restart \/ UNCHANGED vars
    BY <2>6 DEF ShutdownSignal, IntakeStopped, DrainTimeout, WorkerJoined, ForceTimeout,
                Crash, ExitWith, Restart, vars, Guarantee!vars
  <2> QED
    BY <2>1, <2>2, <2>3, <2>4, <2>5, <2>6 DEF Next, LoopError, LoopStop
<1> QED
  BY <1>1, <1>2, TypeCorrect, EvalInvariant, OrderInvariant, PTL
     DEF Spec, ImplementsAtLeastOnce, Guarantee!Spec
=============================================================================
