-------------------------- MODULE EvalWorkerProofs --------------------------
(***************************************************************************)
(* Theorems about EvalWorker for any rules, destinations, sinks, number of *)
(* messages and durations: what is true of the sinks when run() returns,   *)
(* which messages can lose results, and that the metrics neither miss a    *)
(* latency nor show one that was not there.                                *)
(***************************************************************************)
EXTENDS EvalWorker, TLAPS

-----------------------------------------------------------------------------
(***************************************************************************)
(* Types.                                                                  *)
(***************************************************************************)

Recorders == [at : RecordSteps, duration : Durations \cup {0}, current : Nat]

\* The snapshot has seven fields, each of which is loaded once.
LEMMA SevenFields ==
    /\ Len(Fields) = 7 /\ DOMAIN Fields = 1..7
    /\ Names = {"evals", "errors", "typeErrors", "payloadErrors", "count", "total", "max"}
    /\ \A i, j \in 1..7 : Fields[i] = Fields[j] => i = j
    /\ \A f \in Names : \E i \in 1..7 : Fields[i] = f
<1>1. Len(Fields) = 7 /\ DOMAIN Fields = 1..7
  BY DEF Fields
<1>2. Names = {"evals", "errors", "typeErrors", "payloadErrors", "count", "total", "max"}
  <2>1. \A i \in 1..7 : i \in {1, 2, 3, 4, 5, 6, 7}
    OBVIOUS
  <2> QED
    BY <1>1, <2>1 DEF Names, Fields
<1>3. \A i, j \in 1..7 : Fields[i] = Fields[j] => i = j
  <2>1. \A i \in 1..7 : i \in {1, 2, 3, 4, 5, 6, 7}
    OBVIOUS
  <2> QED
    BY <2>1 DEF Fields
<1> QED
  BY <1>1, <1>2, <1>3 DEF Names

\* What the recorder of a rule becomes when a latency is to be recorded, and when
\* the maximum is to be replaced.
LEMMA NewRecorders ==
    /\ Resting \in Recorders
    /\ \A x \in Recorders : \A v : [x EXCEPT !.at = "swap", !.current = v] =
                               [at |-> "swap", duration |-> x.duration, current |-> v]
    /\ \A d : [Resting EXCEPT !.at = "count", !.duration = d] =
              [at |-> "count", duration |-> d, current |-> 0]
<1>1. Resting \in Recorders
  BY DEF Resting, Recorders, RecordSteps
<1>2. ASSUME NEW x \in Recorders, NEW v
      PROVE  [x EXCEPT !.at = "swap", !.current = v] =
             [at |-> "swap", duration |-> x.duration, current |-> v]
  <2> DEFINE y == [x EXCEPT !.at = "swap", !.current = v]
  <2>1. y.at = "swap" /\ y.duration = x.duration /\ y.current = v
    BY DEF Recorders
  <2>2. y \in [at : {"swap"}, duration : {x.duration}, current : {v}]
    BY DEF Recorders
  <2> HIDE DEF y
  <2>3. y = [at |-> "swap", duration |-> x.duration, current |-> v]
    BY <2>1, <2>2
  <2> QED
    BY <2>3 DEF y
<1>3. ASSUME NEW d
      PROVE  [Resting EXCEPT !.at = "count", !.duration = d] =
             [at |-> "count", duration |-> d, current |-> 0]
  <2> DEFINE z == [Resting EXCEPT !.at = "count", !.duration = d]
  <2>1. z.at = "count" /\ z.duration = d /\ z.current = 0
    BY DEF Resting
  <2>2. z \in [at : {"count"}, duration : {d}, current : {0}]
    BY DEF Resting
  <2> HIDE DEF z
  <2>3. z = [at |-> "count", duration |-> d, current |-> 0]
    BY <2>1, <2>2
  <2> QED
    BY <2>3 DEF z
<1> QED
  BY <1>1, <1>2, <1>3

\* Durations are numbers, also that of a thread which is not recording.
LEMMA Nanoseconds == /\ \A d \in Durations : d \in Nat
                     /\ \A d \in Durations \cup {0} : d \in Nat
  BY EvalMetricsAssumption

\* What the loop of record() does with a rule: it leaves with the maximum as large
\* as the duration, or tries to replace a smaller one.
LEMMA Loops ==
    ASSUME MetricsTypeOK, NEW r \in Rules, Looped(r)
    PROVE  /\ rec' \in [Rules -> Recorders]
           /\ \A s \in Rules \ {r} : rec'[s] = rec[s]
           /\ \/ rec'[r] = Resting /\ rec[r].duration <= counter["max"]
              \/ /\ rec'[r] = [at |-> "swap", duration |-> rec[r].duration,
                               current |-> counter["max"]]
                 /\ rec[r].duration > counter["max"]
<1>1. counter["max"] \in Nat /\ rec[r] \in Recorders /\ rec \in [Rules -> Recorders]
  BY SevenFields DEF MetricsTypeOK, Recorders
<1>2. rec[r].duration \in Nat
  <2>1. rec[r].duration \in Durations \cup {0}
    BY <1>1 DEF Recorders
  <2> QED
    BY <2>1, Nanoseconds
<1>3. CASE rec[r].duration > counter["max"]
  <2>1. rec' = [rec EXCEPT ![r] = [at |-> "swap", duration |-> rec[r].duration,
                                   current |-> counter["max"]]]
    <3>1. rec' = [rec EXCEPT ![r] = [rec[r] EXCEPT !.at = "swap", !.current = counter["max"]]]
      BY <1>1, <1>3 DEF Looped
    <3> QED
      BY <1>1, <3>1, NewRecorders
  <2>2. [at |-> "swap", duration |-> rec[r].duration, current |-> counter["max"]] \in Recorders
    BY <1>1 DEF Recorders, RecordSteps
  <2> QED
    BY <1>1, <1>3, <2>1, <2>2
<1>4. CASE ~(rec[r].duration > counter["max"])
  <2>1. rec' = [rec EXCEPT ![r] = Resting]
    BY <1>1, <1>4 DEF Looped
  <2>2. Resting \in Recorders
    BY DEF Resting, Recorders, RecordSteps
  <2> QED
    BY <1>1, <1>2, <1>4, <2>1, <2>2
<1> QED
  BY <1>3, <1>4

\* The steps of record() and of the endpoint keep the types of the metrics.
LEMMA MetricsTypes ==
    ASSUME MetricsTypeOK, Record \/ Endpoint
    PROVE  MetricsTypeOK'
<1> USE SevenFields, EvalMetricsAssumption DEF MetricsTypeOK, Recorders, RecordSteps
<1>0. truth.max \in Nat /\ truth.total \in Nat
  OBVIOUS
<1>1. ASSUME NEW r \in Rules, NoStage(r)  PROVE MetricsTypeOK'
  BY <1>1 DEF NoStage, Resting, endpointVars
<1>2. ASSUME NEW r \in Rules, FinishStage(r)  PROVE MetricsTypeOK'
  <2>1. PICK d \in Durations :
           /\ rec' = [rec EXCEPT ![r] = [at |-> "count", duration |-> d, current |-> 0]]
           /\ truth' = [count |-> truth.count + 1, total |-> truth.total + d,
                        max |-> Larger(truth.max, d)]
    BY ONLY <1>2, NewRecorders DEF FinishStage
  <2>2. d \in Nat /\ truth.max \in Nat /\ truth.total \in Nat
    BY Nanoseconds, <1>0
  <2>3. Larger(truth.max, d) \in Nat /\ truth.total + d \in Nat
    BY <2>2 DEF Larger
  <2> QED
    BY <1>2, <2>1, <2>3 DEF FinishStage, endpointVars
<1>3. ASSUME NEW r \in Rules, AddCount(r)  PROVE MetricsTypeOK'
  BY <1>3 DEF AddCount, endpointVars
<1>4. ASSUME NEW r \in Rules, AddTotal(r)  PROVE MetricsTypeOK'
  BY <1>4 DEF AddTotal, endpointVars
<1>5. ASSUME NEW r \in Rules, LoadMax(r)  PROVE MetricsTypeOK'
  <2>1. rec' \in [Rules -> Recorders]
    BY <1>5, Loops DEF LoadMax
  <2> QED
    BY <1>5, <2>1 DEF LoadMax, endpointVars
<1>6. ASSUME NEW r \in Rules, SwapMax(r)  PROVE MetricsTypeOK'
  <2>1. CASE counter["max"] = rec[r].current /\ rec' = [rec EXCEPT ![r] = Resting]
    <3>1. rec[r].duration \in Nat
      BY Nanoseconds
    <3>2. counter' \in [Names -> Nat]
      BY <1>6, <3>1 DEF SwapMax
    <3> QED
      BY <1>6, <2>1, <3>2 DEF SwapMax, Resting, endpointVars
  <2>2. CASE Looped(r) /\ UNCHANGED counter
    <3>1. rec' \in [Rules -> Recorders]
      BY <2>2, Loops
    <3> QED
      BY <1>6, <2>2, <3>1 DEF SwapMax, endpointVars
  <2> QED
    BY <1>6, <2>1, <2>2 DEF SwapMax
<1>7. CASE BeginScrape
  BY <1>7 DEF BeginScrape, recorderVars
<1>8. CASE LoadField
  BY <1>8 DEF LoadField, recorderVars
<1>9. CASE Publish
  BY <1>9 DEF Publish, recorderVars, Zero, Larger
<1> QED
  BY <1>1, <1>2, <1>3, <1>4, <1>5, <1>6, <1>7, <1>8, <1>9 DEF Record, Endpoint

\* A record is on its way to a destination that a rule names, and every such
\* destination is one that the configuration may define.
LEMMA RecordFields ==
    /\ \A record \in Records : /\ record.msg \in 1..MaxMsg
                               /\ record.rule \in Rules
                               /\ Destination(record) \in Used
    /\ \A d \in Used : d \in DOMAIN Kind /\ Kind[d] \in {"noop", "log", "kafka"}
  BY SinksAssumption, EvalWorkerAssumption DEF Records, Used, Destination

\* What can become of a record whose destination has its sink, or has none.
LEMMA SentFates ==
    ASSUME NEW d \in Used, NEW f \in Sent(d)
    PROVE  /\ f \in Fates \ {"unsent"}
           /\ d \in sinks => f # "unsupported"
           /\ f = "queued" => d \in sinks
  BY RecordFields DEF Sent, Produced, Fates

\* The steps of the dispatcher and of the producers keep the types of the sinks.
LEMMA SinkTypes ==
    ASSUME SinksTypeOK,
           \/ BuildSinks
           \/ \E record \in Records : Send(record) \/ Deliver(record)
           \/ \E d \in sinks : DropSink(d) \/ FlushTimeout(d)
    PROVE  SinksTypeOK'
<1> USE DEF SinksTypeOK
<1>1. CASE BuildSinks
  BY <1>1 DEF BuildSinks
<1>2. ASSUME NEW record \in Records, Send(record)  PROVE SinksTypeOK'
  BY <1>2, RecordFields, SentFates DEF Send
<1>3. ASSUME NEW record \in Records, Deliver(record)  PROVE SinksTypeOK'
  BY <1>3 DEF Deliver, Fates
<1>4. ASSUME NEW d \in sinks, DropSink(d)  PROVE SinksTypeOK'
  BY <1>4 DEF DropSink
<1>5. ASSUME NEW d \in sinks, FlushTimeout(d)  PROVE SinksTypeOK'
  BY <1>5 DEF FlushTimeout, Fates
<1> QED
  BY <1>1, <1>2, <1>3, <1>4, <1>5

\* The steps of the worker that touch the metrics: counting, and the begin and the
\* end of a parallel evaluation.
LEMMA WorkerMetricsTypes ==
    ASSUME MetricsTypeOK
    PROVE  /\ UNCHANGED metricsVars => MetricsTypeOK'
           /\ \A name \in Names :
                 Count(name) /\ UNCHANGED <<recorderVars, endpointVars>> => MetricsTypeOK'
           /\ \A rs \in SUBSET Rules :
                 Evaluating(rs) /\ UNCHANGED <<counter, truth, endpointVars>> => MetricsTypeOK'
<1> USE DEF MetricsTypeOK, endpointVars
<1>1. ASSUME UNCHANGED metricsVars  PROVE MetricsTypeOK'
  BY <1>1 DEF metricsVars, recorderVars
<1>2. ASSUME NEW name \in Names, Count(name), UNCHANGED <<recorderVars, endpointVars>>
      PROVE  MetricsTypeOK'
  BY <1>2 DEF Count, recorderVars
<1>3. ASSUME NEW rs \in SUBSET Rules, Evaluating(rs), UNCHANGED <<counter, truth, endpointVars>>
      PROVE  MetricsTypeOK'
  <2>1. Resting \in Recorders /\ [Resting EXCEPT !.at = "running"] \in Recorders
    BY DEF Resting, Recorders, RecordSteps
  <2>2. rec' \in [Rules -> Recorders]
    BY ONLY <1>3, <2>1 DEF Evaluating
  <2> QED
    BY <1>3, <2>2 DEF Recorders
<1> QED
  BY <1>1, <1>2, <1>3

\* The worker has a message in its hands.
Holding == wpc \in {"evaluating", "tally", "error", "typeError", "ack", "dispatch"}

TypeInv == TypeOK /\ (Holding => taken >= 1)

\* Every variable keeps its type, and a worker that is past recv has taken a
\* message, by induction on the steps of all threads.
LEMMA TypeInvariant == Spec => []TypeInv
<1>1. Init => TypeInv
  <2> SUFFICES ASSUME Init  PROVE TypeInv
    OBVIOUS
  <2>1. MetricsTypeOK
    <3>1. Zero \in [Names -> Nat] /\ [r \in Rules |-> Resting] \in [Rules -> Recorders]
      BY NewRecorders DEF Zero
    <3> QED
      BY <3>1, SevenFields, EvalMetricsAssumption DEF Init, MetricsInit, MetricsTypeOK, Recorders
  <2>2. SinksTypeOK
    BY DEF Init, SinksInit, SinksTypeOK, Fates
  <2>3. 0 \in 0..MaxMsg /\ 0 \in 0..0
    BY SinksAssumption
  <2> QED
    BY ONLY Init, <2>1, <2>2, <2>3 DEF Init, TypeInv, TypeOK, Holding, WorkerSteps, Outcomes
<1>2. ASSUME TypeInv, [Next]_vars  PROVE TypeInv'
  <2> USE <1>2, SinksAssumption, SevenFields
      DEF TypeInv, TypeOK, Holding, WorkerSteps, Outcomes, At, Alive
  <2>m. /\ MetricsTypeOK
        /\ UNCHANGED metricsVars => MetricsTypeOK'
        /\ \A name \in Names :
              Count(name) /\ UNCHANGED <<recorderVars, endpointVars>> => MetricsTypeOK'
        /\ \A rs \in SUBSET Rules :
              Evaluating(rs) /\ UNCHANGED <<counter, truth, endpointVars>> => MetricsTypeOK'
    BY WorkerMetricsTypes
  <2>s. SinksTypeOK /\ (UNCHANGED sinkVars => SinksTypeOK')
    BY DEF SinksTypeOK, sinkVars
  <2> HIDE SevenFields
  <2>1. CASE Take
    <3>1. MetricsTypeOK'
      <4>1. CASE Count("payloadErrors") /\ UNCHANGED rec
        BY <2>1, <2>m, <4>1, SevenFields DEF Take, recorderVars
      <4>2. CASE UNCHANGED <<counter, rec>>
        BY <2>1, <2>m, <4>2 DEF Take, metricsVars, recorderVars
      <4>3. CASE UNCHANGED counter /\ \E rs \in SUBSET Rules \ {{}} : Evaluating(rs)
        BY <2>1, <2>m, <4>3 DEF Take
      <4> QED
        BY <2>1, <4>1, <4>2, <4>3 DEF Take
    <3> QED
      BY <2>1, <2>s, <3>1 DEF Take, mainVars
  <2>2. CASE Evaluated
    BY <2>2, <2>m, <2>s DEF Evaluated, mainVars
  <2>3. CASE Tally
    <3>1. MetricsTypeOK'
      BY <2>3, <2>m, SevenFields DEF Tally
    <3> QED
      BY <2>3, <2>s, <3>1 DEF Tally, mainVars
  <2>4. CASE TallyError
    <3>1. MetricsTypeOK'
      BY <2>4, <2>m, SevenFields DEF TallyError
    <3> QED
      BY <2>4, <2>s, <3>1 DEF TallyError, mainVars
  <2>5. CASE EvaluateReturns
    BY <2>5, <2>m, <2>s DEF EvaluateReturns, mainVars
  <2>6. CASE Ack
    BY <2>6, <2>m, <2>s DEF Ack, mainVars
  <2>7. CASE DispatchNext
    <3>1. SinksTypeOK'
      BY <2>7, <2>s, SinkTypes DEF DispatchNext, Unsent
    <3> QED
      BY <2>7, <2>m, <3>1 DEF DispatchNext, workerVars, mainVars
  <2>8. CASE DispatchDone
    BY <2>8, <2>m, <2>s DEF DispatchDone, mainVars
  <2>9. CASE LeaveLoop
    BY <2>9, <2>m, <2>s DEF LeaveLoop, mainVars
  <2>10. CASE Panic
    <3>1. rec' \in [Rules -> Recorders]
      BY ONLY <2>10, NewRecorders DEF Panic
    <3>2. MetricsTypeOK'
      BY ONLY <2>10, <2>m, <3>1 DEF Panic, MetricsTypeOK, Recorders, endpointVars
    <3> QED
      BY <2>10, <2>s, <3>2 DEF Panic, mainVars
  <2>11. CASE Drop
    <3>1. SinksTypeOK'
      BY <2>11, <2>s, SinkTypes DEF Drop
    <3> QED
      BY <2>11, <2>m, <3>1 DEF Drop, workerVars, mainVars
  <2>12. CASE WorkerEnds
    BY <2>12, <2>m, <2>s DEF WorkerEnds, mainVars
  <2>13. CASE Begin
    <3>1. SinksTypeOK'
      BY <2>13, <2>s, SinkTypes DEF Begin
    <3> QED
      BY <2>13, <2>m, <3>1 DEF Begin
  <2>14. CASE Refuse
    BY <2>14, <2>m, <2>s DEF Refuse, workerVars
  <2>15. CASE IntakeStopped
    BY <2>15, <2>m, <2>s DEF IntakeStopped, workerVars
  <2>16. CASE Joined
    BY <2>16, <2>m, <2>s DEF Joined, workerVars
  <2>17. CASE WaitTimeout
    BY <2>17, <2>m, <2>s DEF WaitTimeout, workerVars
  <2>18. CASE Crash
    BY <2>18, <2>m, <2>s DEF Crash, workerVars
  <2>19. CASE Arrive
    BY <2>19, <2>m, <2>s DEF Arrive, mainVars
  <2>20. CASE (Record \/ Endpoint) /\ UNCHANGED <<sinkVars, workerVars, mainVars>>
    <3>1. MetricsTypeOK'
      BY <2>20, <2>m, MetricsTypes
    <3> QED
      BY <2>20, <2>s, <3>1 DEF workerVars, mainVars
  <2>21. ASSUME NEW record \in Records, Deliver(record),
                UNCHANGED <<metricsVars, workerVars, mainVars>>
         PROVE  TypeInv'
    <3>1. SinksTypeOK'
      BY <2>21, <2>s, SinkTypes
    <3> QED
      BY <2>21, <2>m, <3>1 DEF workerVars, mainVars
  <2>22. CASE UNCHANGED vars
    BY <2>22, <2>m, <2>s DEF vars, workerVars, mainVars
  <2> QED
    BY ONLY <1>2, <2>1, <2>2, <2>3, <2>4, <2>5, <2>6, <2>7, <2>8, <2>9, <2>10, <2>11, <2>12,
       <2>13, <2>14, <2>15, <2>16, <2>17, <2>18, <2>19, <2>20, <2>21, <2>22
       DEF Next, Worker, Main, Others
<1> QED
  BY <1>1, <1>2, PTL DEF Spec

\* The types of the sinks, the worker and the metrics hold in every behaviour.
THEOREM TypeCorrect == Spec => []TypeOK
<1>1. TypeInv => TypeOK
  BY DEF TypeInv
<1> QED
  BY <1>1, TypeInvariant, PTL

-----------------------------------------------------------------------------
(***************************************************************************)
(* The sinks and the shutdown.  A sink lives from Dispatcher::new until    *)
(* the dispatcher is dropped, so every send finds it, and only a sink that *)
(* is alive has records in a producer's queue.  Once a message has been    *)
(* acknowledged its results are not added to, and the worker does not go   *)
(* on before they have been sent.                                          *)
(***************************************************************************)
MainInv ==
    /\ phase = "starting" => wpc = "unborn"
    /\ outcome = "none" \/ phase = "exited"
    /\ outcome = "refused" => wpc = "unborn"
    /\ outcome \in {"drained", "panicked", "stopped"} => wpc = "ended"

SinkInv ==
    /\ wpc \notin {"unborn", "dropping", "ended"} => sinks = Used
    /\ wpc \in {"unborn", "ended"} => sinks = {}
    /\ \A record \in Records : /\ fate[record] # "unsupported"
                               /\ fate[record] = "queued" => Destination(record) \in sinks

DispatchInv ==
    /\ \A m \in acked : Unsent(m) # {} => m = taken /\ wpc = "dispatch"
    /\ Holding /\ wpc # "dispatch" => taken \notin acked

WorkerInv == MainInv /\ SinkInv /\ DispatchInv

\* A step that leaves the results and the fates alone leaves the unsent ones alone;
\* sending a record, or the broker taking one, never adds to them; and a rule's
\* answer adds only to those of the current message.
LEMMA UnsentSteps ==
    ASSUME TypeInv, NEW m \in 1..MaxMsg
    PROVE  /\ UNCHANGED <<result, fate>> => Unsent(m)' = Unsent(m)
           /\ \A record \in Records :
                 result' = result /\ Deliver(record) => Unsent(m)' \subseteq Unsent(m)
           /\ \A record \in Unsent(taken) :
                 result' = result /\ Send(record) => Unsent(m)' \subseteq Unsent(m)
           /\ \A d \in sinks : result' = result /\ (DropSink(d) \/ FlushTimeout(d))
                    => Unsent(m)' \subseteq Unsent(m)
           /\ \A r \in Rules :
                 m # taken /\ fate' = fate /\ result' = [result EXCEPT ![taken] = @ \cup {r}]
                    => Unsent(m)' = Unsent(m)
<1> USE DEF TypeInv, TypeOK, SinksTypeOK, Unsent
<1>1. UNCHANGED <<result, fate>> => Unsent(m)' = Unsent(m)
  OBVIOUS
<1>2. ASSUME NEW record \in Records, result' = result, Deliver(record)
      PROVE  Unsent(m)' \subseteq Unsent(m)
  BY <1>2 DEF Deliver
<1>3. ASSUME NEW record \in Unsent(taken), result' = result, Send(record)
      PROVE  Unsent(m)' \subseteq Unsent(m)
  BY <1>3 DEF Send
<1>4. ASSUME NEW d \in sinks, result' = result, DropSink(d) \/ FlushTimeout(d)
      PROVE  Unsent(m)' \subseteq Unsent(m)
  BY <1>4 DEF DropSink, FlushTimeout
<1>5. ASSUME NEW r \in Rules, m # taken, fate' = fate,
             result' = [result EXCEPT ![taken] = @ \cup {r}]
      PROVE  Unsent(m)' = Unsent(m)
  BY <1>5
<1> QED
  BY <1>1, <1>2, <1>3, <1>4, <1>5

\* WorkerInv holds initially and is kept by every step.
LEMMA WorkerInvariant == Spec => []WorkerInv
<1>1. Init => WorkerInv
  BY DEF Init, SinksInit, WorkerInv, MainInv, SinkInv, DispatchInv, Holding
<1>2. ASSUME TypeInv, WorkerInv, [Next]_vars  PROVE WorkerInv'
  <2>t. /\ acked \subseteq 1..taken /\ taken \in 0..MaxMsg /\ acked \subseteq 1..MaxMsg
        /\ Holding => taken \in 1..MaxMsg
        /\ fate \in [Records -> Fates] /\ sinks \subseteq Used
    BY <1>2, SinksAssumption DEF TypeInv, TypeOK, SinksTypeOK
  <2>u. \A m \in acked : UNCHANGED <<result, fate>> => Unsent(m)' = Unsent(m)
    BY <1>2, <2>t, UnsentSteps
  <2> USE <1>2, <2>t, <2>u DEF WorkerInv, MainInv, SinkInv, DispatchInv, Holding, At, Alive
  <2>1. CASE Take
    BY <2>1 DEF Take, sinkVars, mainVars
  <2>2. CASE Evaluated
    BY <2>2 DEF Evaluated, sinkVars, mainVars
  <2>3. CASE Tally
    <3>1. \A m \in acked : Unsent(m)' = Unsent(m)
      <4>1. taken \notin acked /\ fate' = fate
        BY <2>3 DEF Tally, sinkVars
      <4>2. UNCHANGED result \/ \E r \in Rules : result' = [result EXCEPT ![taken] = @ \cup {r}]
        BY <2>3 DEF Tally, TypeInv, TypeOK
      <4> QED
        BY <4>1, <4>2, UnsentSteps
    <3> QED
      BY <2>3, <3>1 DEF Tally, sinkVars, mainVars
  <2>4. CASE TallyError
    BY <2>4 DEF TallyError, sinkVars, mainVars
  <2>5. CASE EvaluateReturns
    BY <2>5 DEF EvaluateReturns, sinkVars, mainVars
  <2>6. CASE Ack
    BY <2>6 DEF Ack, sinkVars, mainVars
  <2>7. CASE DispatchNext
    <3>1. PICK record \in Records : record \in Unsent(taken) /\ Send(record)
      BY <2>7 DEF DispatchNext, Unsent
    <3>2. UNCHANGED <<metricsVars, workerVars, mainVars>> /\ wpc = "dispatch"
      BY <2>7 DEF DispatchNext
    <3>3. \A m \in acked : Unsent(m)' \subseteq Unsent(m)
      BY <3>1, <3>2, UnsentSteps DEF workerVars
    <3>4. SinkInv'
      <4>1. PICK f \in Sent(Destination(record)) : fate' = [fate EXCEPT ![record] = f]
        BY <3>1 DEF Send
      <4>2. Destination(record) \in Used /\ sinks = Used /\ sinks' = sinks
        BY <3>1, <3>2, RecordFields DEF Send
      <4>3. f # "unsupported"
        BY <4>1, <4>2, SentFates
      <4> QED
        BY <3>2, <4>1, <4>2, <4>3 DEF workerVars
    <3> QED
      BY <3>2, <3>3, <3>4 DEF workerVars, mainVars
  <2>8. CASE DispatchDone
    BY <2>8 DEF DispatchDone, sinkVars, mainVars
  <2>9. CASE LeaveLoop
    BY <2>9 DEF LeaveLoop, sinkVars, mainVars
  <2>10. CASE Panic
    BY <2>10 DEF Panic, sinkVars, mainVars
  <2>11. CASE Drop
    <3>1. PICK d \in sinks : DropSink(d) \/ FlushTimeout(d)
      BY <2>11 DEF Drop
    <3>2. UNCHANGED <<metricsVars, workerVars, mainVars>> /\ wpc = "dropping"
      BY <2>11 DEF Drop
    <3>3. \A m \in acked : Unsent(m)' \subseteq Unsent(m)
      BY <3>1, <3>2, UnsentSteps DEF workerVars
    <3>4. SinkInv'
      BY <3>1, <3>2 DEF DropSink, FlushTimeout, Queued, workerVars
    <3> QED
      BY <3>2, <3>3, <3>4 DEF workerVars, mainVars
  <2>12. CASE WorkerEnds
    BY <2>12 DEF WorkerEnds, sinkVars, mainVars
  <2>13. CASE Begin
    <3>1. sinks' = Used /\ fate' = fate /\ sinks = {}
      BY <2>13 DEF Begin, BuildSinks
    <3> QED
      BY <2>13, <3>1 DEF Begin
  <2>14. CASE Refuse
    BY <2>14 DEF Refuse, sinkVars, workerVars
  <2>15. CASE IntakeStopped
    BY <2>15 DEF IntakeStopped, sinkVars, workerVars
  <2>16. CASE Joined
    BY <2>16 DEF Joined, sinkVars, workerVars
  <2>17. CASE WaitTimeout
    BY <2>17 DEF WaitTimeout, sinkVars, workerVars
  <2>18. CASE Crash
    BY <2>18 DEF Crash, sinkVars, workerVars
  <2>19. CASE Arrive
    BY <2>19 DEF Arrive, sinkVars, mainVars
  <2>20. CASE UNCHANGED <<sinkVars, workerVars, mainVars>>
    BY <2>20 DEF sinkVars, workerVars, mainVars
  <2>21. ASSUME NEW record \in Records, Deliver(record),
                UNCHANGED <<metricsVars, workerVars, mainVars>>
         PROVE  WorkerInv'
    <3>1. \A m \in acked : Unsent(m)' \subseteq Unsent(m)
      BY <2>21, UnsentSteps DEF workerVars
    <3>2. SinkInv'
      BY <2>21 DEF Deliver, workerVars
    <3> QED
      BY <2>21, <3>1, <3>2 DEF workerVars, mainVars
  <2>22. CASE UNCHANGED vars
    BY <2>22 DEF vars, sinkVars, workerVars, mainVars
  <2> QED
    BY ONLY <1>2, <2>1, <2>2, <2>3, <2>4, <2>5, <2>6, <2>7, <2>8, <2>9, <2>10, <2>11, <2>12,
       <2>13, <2>14, <2>15, <2>16, <2>17, <2>18, <2>19, <2>20, <2>21, <2>22
       DEF Next, Worker, Main, Others
<1> QED
  BY <1>1, <1>2, TypeInvariant, PTL DEF Spec

\* When run() has joined the worker, after a drain, a panic or a forced stop, every
\* sink has been dropped and no producer's queue holds a record (main.rs:139-157,
\* sink.rs:218-228): the worker ends only after its last sink, and a record stays
\* queued only while its sink exists.
THEOREM SinksAreFlushed == Spec => []SinksDroppedMeansFlushed
<1>1. WorkerInv => SinksDroppedMeansFlushed
  BY DEF WorkerInv, MainInv, SinkInv, SinksDroppedMeansFlushed
<1> QED
  BY <1>1, WorkerInvariant, PTL

\* Of the acknowledged messages only the one in the worker's hands can have results
\* that were not offered to every destination of their rule, and no result meets a
\* missing sink (main.rs:359-361), whatever the rules, destinations and sinks.
THEOREM AckedMessagesReachTheirSinks == Spec => []AckedReachesSinks
<1>1. TypeInv /\ WorkerInv => AckedReachesSinks
  BY DEF TypeInv, TypeOK, Outcomes, WorkerInv, MainInv, SinkInv, DispatchInv, AckedReachesSinks
<1> QED
  BY <1>1, TypeInvariant, WorkerInvariant, PTL

-----------------------------------------------------------------------------
(***************************************************************************)
(* Counting without a sum.  A ledger lists the rules of a set, each once,  *)
(* with the balance before and after the weight of each is added: it leads *)
(* from the value of a counter to the value it will have when every rule   *)
(* of the set has been counted.                                            *)
(***************************************************************************)
IsLedger(S, w, from, to, n, s, p) ==
    /\ \A r \in S : \E i \in 1..n : s[i] = r
    /\ \A i, j \in 1..n : s[i] = s[j] => i = j
    /\ p[0] = from /\ p[n] = to
    /\ \A i \in 1..n : p[i] = p[i - 1] + w[s[i]]
    /\ \A i, j \in 0..n : i <= j => p[i] <= p[j]

Ledger(S, w, from, to) ==
    \E n \in Nat : \E s \in [1..n -> S], p \in [0..n -> Nat] : IsLedger(S, w, from, to, n, s, p)

\* A ledger never leads to a smaller balance, and an empty one leads nowhere.
LEMMA LedgerEnds ==
    ASSUME NEW S, NEW w, NEW from, NEW to
    PROVE  /\ Ledger(S, w, from, to) => from \in Nat /\ to \in Nat /\ from <= to
           /\ Ledger({}, w, from, to) => from = to
           /\ from \in Nat => Ledger({}, w, from, from)
<1>1. ASSUME Ledger(S, w, from, to)  PROVE from \in Nat /\ to \in Nat /\ from <= to
  <2>0. PICK n \in Nat : \E s \in [1..n -> S], p \in [0..n -> Nat] :
           IsLedger(S, w, from, to, n, s, p)
    BY <1>1 DEF Ledger
  <2>1. PICK s \in [1..n -> S], p \in [0..n -> Nat] : IsLedger(S, w, from, to, n, s, p)
    BY <2>0
  <2>2. 0 \in 0..n /\ n \in 0..n /\ 0 <= n
    OBVIOUS
  <2> QED
    BY <2>1, <2>2 DEF IsLedger
<1>2. ASSUME Ledger({}, w, from, to)  PROVE from = to
  <2>0. PICK n \in Nat : \E s \in [1..n -> {}], p \in [0..n -> Nat] :
           IsLedger({}, w, from, to, n, s, p)
    BY <1>2 DEF Ledger
  <2>1. PICK s \in [1..n -> {}], p \in [0..n -> Nat] : IsLedger({}, w, from, to, n, s, p)
    BY <2>0
  <2>2. n = 0
    <3>1. ASSUME n # 0  PROVE FALSE
      <4>1. 1 \in 1..n
        BY <3>1
      <4> QED
        BY <4>1
    <3> QED
      BY <3>1
  <2> QED
    BY <2>1, <2>2 DEF IsLedger
<1>3. ASSUME from \in Nat  PROVE Ledger({}, w, from, from)
  <2> DEFINE s == [i \in 1..0 |-> 0]
             p == [i \in 0..0 |-> from]
  <2>1. 1..0 = {} /\ 0..0 = {0}
    OBVIOUS
  <2>2. s \in [1..0 -> {}] /\ p \in [0..0 -> Nat]
    BY <1>3, <2>1
  <2>3. IsLedger({}, w, from, from, 0, s, p)
    BY <1>3, <2>1 DEF IsLedger
  <2> QED
    BY <2>2, <2>3 DEF Ledger
<1> QED
  BY <1>1, <1>2, <1>3

\* A rule that has still to be counted is put at the end of the ledger.
LEMMA LedgerAdd ==
    ASSUME NEW S \in SUBSET Rules, NEW r \in Rules \ S, NEW w \in [Rules -> Nat],
           NEW v \in [Rules -> Nat], \A x \in S : v[x] = w[x],
           NEW from, NEW to, Ledger(S, w, from, to)
    PROVE  Ledger(S \cup {r}, v, from, to + v[r])
<1>0. PICK n \in Nat : \E s \in [1..n -> S], p \in [0..n -> Nat] :
         IsLedger(S, w, from, to, n, s, p)
  BY DEF Ledger
<1>1. PICK s \in [1..n -> S], p \in [0..n -> Nat] : IsLedger(S, w, from, to, n, s, p)
  BY <1>0
<1> DEFINE m == n + 1
           t == [i \in 1..m |-> IF i = m THEN r ELSE s[i]]
           q == [i \in 0..m |-> IF i = m THEN to + v[r] ELSE p[i]]
<1>2. /\ m \in Nat /\ v[r] \in Nat /\ to \in Nat
      /\ \A i \in 1..n : s[i] \in S /\ i \in 1..m /\ i # m
      /\ \A i \in 1..m : i = m \/ i \in 1..n
      /\ \A i \in 0..m : i = m \/ i \in 0..n
      /\ 0 \in 0..n /\ n \in 0..n /\ 0 \in 0..m /\ m \in 1..m /\ m \in 0..m
  BY <1>1 DEF IsLedger
<1>3. t \in [1..m -> S \cup {r}] /\ q \in [0..m -> Nat]
  BY <1>2
<1>4. \A x \in S \cup {r} : \E i \in 1..m : t[i] = x
  BY <1>1, <1>2 DEF IsLedger
<1>5. \A i, j \in 1..m : t[i] = t[j] => i = j
  <2>1. \A i \in 1..n : t[i] = s[i] /\ t[i] # r
    BY <1>2
  <2>2. t[m] = r
    BY <1>2
  <2>3. \A i, j \in 1..n : s[i] = s[j] => i = j
    BY <1>1 DEF IsLedger
  <2> QED
    BY <1>2, <2>1, <2>2, <2>3
<1>6. q[0] = from /\ q[m] = to + v[r]
  BY <1>1, <1>2 DEF IsLedger
<1>7. \A i \in 1..m : q[i] = q[i - 1] + v[t[i]]
  <2>1. ASSUME NEW i \in 1..n  PROVE q[i] = q[i - 1] + v[t[i]]
    <3>1. i - 1 \in 0..n /\ i \in 0..n
      OBVIOUS
    <3>2. q[i] = p[i] /\ q[i - 1] = p[i - 1] /\ t[i] = s[i] /\ s[i] \in S
      BY <1>2, <3>1
    <3> QED
      BY <1>1, <3>2 DEF IsLedger
  <2>2. q[m] = q[m - 1] + v[t[m]]
    <3>1. m - 1 = n /\ q[n] = p[n] /\ p[n] = to /\ t[m] = r
      BY <1>1, <1>2 DEF IsLedger
    <3> QED
      BY <1>6, <3>1
  <2> QED
    BY <1>2, <2>1, <2>2
<1>8. \A i, j \in 0..m : i <= j => q[i] <= q[j]
  <2>1. ASSUME NEW i \in 0..n, NEW j \in 0..n, i <= j  PROVE q[i] <= q[j]
    BY <1>1, <2>1 DEF IsLedger
  <2>2. ASSUME NEW i \in 0..n  PROVE q[i] <= q[m]
    <3>1. p[i] <= p[n] /\ p[n] = to /\ p[i] \in Nat
      BY <1>1, <1>2 DEF IsLedger
    <3> QED
      BY <1>2, <3>1
  <2>3. ASSUME NEW j \in 0..n, m <= j  PROVE FALSE
    BY <2>3
  <2>4. q[m] <= q[m]
    BY <1>2
  <2> QED
    BY <1>2, <2>1, <2>2, <2>3, <2>4
<1> HIDE DEF m, t, q
<1>9. IsLedger(S \cup {r}, v, from, to + v[r], m, t, q)
  BY <1>4, <1>5, <1>6, <1>7, <1>8 DEF IsLedger
<1> QED
  BY <1>2, <1>3, <1>9 DEF Ledger

\* A rule that is counted leaves the ledger wherever it stands in it, and the
\* balances before its place rise by its weight.
LEMMA LedgerRemove ==
    ASSUME NEW S \in SUBSET Rules, NEW r \in S, NEW w \in [Rules -> Nat],
           NEW v \in [Rules -> Nat], \A x \in S \ {r} : v[x] = w[x],
           NEW from, NEW to, Ledger(S, w, from, to)
    PROVE  Ledger(S \ {r}, v, from + w[r], to)
<1>0. PICK n \in Nat : \E s \in [1..n -> S], p \in [0..n -> Nat] :
         IsLedger(S, w, from, to, n, s, p)
  BY DEF Ledger
<1>1. PICK s \in [1..n -> S], p \in [0..n -> Nat] : IsLedger(S, w, from, to, n, s, p)
  BY <1>0
<1>2. PICK k \in 1..n : s[k] = r
  BY <1>1 DEF IsLedger
<1> DEFINE m == n - 1
           t == [i \in 1..m |-> IF i < k THEN s[i] ELSE s[i + 1]]
           q == [i \in 0..m |-> IF i < k THEN p[i] + w[r] ELSE p[i + 1]]
<1>3. m \in Nat /\ w[r] \in Nat /\ 1 <= k /\ k <= n
  BY <1>1, <1>2
<1>4. \A i \in 1..m : i \in 1..n /\ i + 1 \in 1..n /\ i \in 0..m /\ i - 1 \in 0..m
  BY <1>3
<1>5. \A i \in 0..m : i \in 0..n /\ i + 1 \in 0..n /\ p[i] \in Nat /\ p[i + 1] \in Nat
  BY <1>3
<1>6. t \in [1..m -> S \ {r}] /\ q \in [0..m -> Nat]
  <2>1. ASSUME NEW i \in 1..m  PROVE t[i] \in S \ {r}
    <3>1. \A j \in 1..n : s[j] \in S /\ (s[j] = r => j = k)
      BY <1>1, <1>2 DEF IsLedger
    <3>2. CASE i < k
      BY <1>4, <3>1, <3>2
    <3>3. CASE ~(i < k)
      BY <1>4, <3>1, <3>3
    <3> QED
      BY <3>2, <3>3
  <2>2. ASSUME NEW i \in 0..m  PROVE q[i] \in Nat
    <3>1. p[i] + w[r] \in Nat /\ p[i + 1] \in Nat
      BY <1>3, <1>5
    <3> QED
      BY <3>1
  <2> QED
    BY <2>1, <2>2
<1>7. \A x \in S \ {r} : \E i \in 1..m : t[i] = x
  <2>1. ASSUME NEW x \in S \ {r}  PROVE \E i \in 1..m : t[i] = x
    <3>1. PICK j \in 1..n : s[j] = x
      BY <1>1 DEF IsLedger
    <3>2. j # k
      BY <1>2, <3>1
    <3>3. CASE j < k
      <4>1. j \in 1..m /\ t[j] = s[j]
        BY <1>3, <3>3
      <4> QED
        BY <3>1, <4>1
    <3>4. CASE j > k
      <4>1. j - 1 \in 1..m /\ ~(j - 1 < k) /\ (j - 1) + 1 = j
        BY <1>3, <3>4
      <4>2. t[j - 1] = s[j]
        BY <4>1
      <4> QED
        BY <3>1, <4>1, <4>2
    <3> QED
      BY <3>2, <3>3, <3>4
  <2> QED
    BY <2>1
<1>8. \A i, j \in 1..m : t[i] = t[j] => i = j
  <2>1. \A i, j \in 1..n : s[i] = s[j] => i = j
    BY <1>1 DEF IsLedger
  <2>2. ASSUME NEW i \in 1..m, NEW j \in 1..m, t[i] = t[j]  PROVE i = j
    <3>1. CASE i < k /\ j < k
      BY <1>4, <2>1, <2>2, <3>1
    <3>2. CASE i < k /\ ~(j < k)
      <4>1. s[i] = s[j + 1]
        BY <2>2, <3>2
      <4>2. i = j + 1
        BY <1>4, <2>1, <4>1
      <4> QED
        BY <3>2, <4>2
    <3>3. CASE ~(i < k) /\ j < k
      <4>1. s[i + 1] = s[j]
        BY <2>2, <3>3
      <4>2. i + 1 = j
        BY <1>4, <2>1, <4>1
      <4> QED
        BY <3>3, <4>2
    <3>4. CASE ~(i < k) /\ ~(j < k)
      <4>1. s[i + 1] = s[j + 1]
        BY <2>2, <3>4
      <4>2. i + 1 = j + 1
        BY <1>4, <2>1, <4>1
      <4> QED
        BY <4>2
    <3> QED
      BY <3>1, <3>2, <3>3, <3>4
  <2> QED
    BY <2>2
<1>9. p[k] = p[k - 1] + w[r]
  BY <1>1, <1>2 DEF IsLedger
<1>10. q[0] = from + w[r] /\ q[m] = to
  <2>1. q[0] = p[0] + w[r] /\ 0 \in 0..m /\ m \in 0..m
    BY <1>3
  <2>2. CASE k = n
    BY <1>1, <1>3, <1>9, <2>1, <2>2 DEF IsLedger
  <2>3. CASE k < n
    <3>1. ~(m < k) /\ m + 1 = n
      BY <1>3, <2>3
    <3> QED
      BY <1>1, <2>1, <3>1 DEF IsLedger
  <2> QED
    BY <1>1, <1>3, <2>1, <2>2, <2>3 DEF IsLedger
<1>11. \A i \in 1..m : q[i] = q[i - 1] + v[t[i]]
  <2>1. ASSUME NEW i \in 1..m  PROVE q[i] = q[i - 1] + w[t[i]]
    <3>1. CASE i < k
      <4>1. q[i] = p[i] + w[r] /\ q[i - 1] = p[i - 1] + w[r] /\ t[i] = s[i]
        BY <1>4, <3>1
      <4>2. p[i] = p[i - 1] + w[s[i]] /\ w[s[i]] \in Nat /\ p[i - 1] \in Nat
        BY <1>1, <1>4, <1>5 DEF IsLedger
      <4>3. \A a, b, c \in Nat : (a + b) + c = (a + c) + b
        OBVIOUS
      <4>4. (p[i - 1] + w[s[i]]) + w[r] = (p[i - 1] + w[r]) + w[s[i]]
        BY <1>3, <4>2, <4>3
      <4> HIDE DEF t, q
      <4> QED
        BY ONLY <4>1, <4>2, <4>4
    <3>2. CASE i = k
      <4>1. q[i] = p[i + 1] /\ q[i - 1] = p[i - 1] + w[r] /\ t[i] = s[i + 1]
        BY <1>4, <3>2
      <4>2. p[i + 1] = p[(i + 1) - 1] + w[s[i + 1]] /\ (i + 1) - 1 = i
        BY <1>1, <1>4 DEF IsLedger
      <4> QED
        BY <1>9, <3>2, <4>1, <4>2
    <3>3. CASE i > k
      <4>1. ~(i < k) /\ ~(i - 1 < k) /\ (i - 1) + 1 = i /\ (i + 1) - 1 = i
        BY <3>3
      <4>2. q[i] = p[i + 1] /\ q[i - 1] = p[i] /\ t[i] = s[i + 1]
        BY <1>4, <4>1
      <4>3. p[i + 1] = p[(i + 1) - 1] + w[s[i + 1]]
        BY <1>1, <1>4 DEF IsLedger
      <4> QED
        BY <4>1, <4>2, <4>3
    <3> QED
      BY <3>1, <3>2, <3>3
  <2>2. \A i \in 1..m : v[t[i]] = w[t[i]]
    BY <1>6
  <2> QED
    BY <2>1, <2>2
<1>12. \A i, j \in 0..m : i <= j => q[i] <= q[j]
  <2>1. \A i, j \in 0..n : i <= j => p[i] <= p[j]
    BY <1>1 DEF IsLedger
  <2>2. ASSUME NEW i \in 0..m, NEW j \in 0..m, i <= j  PROVE q[i] <= q[j]
    <3>1. CASE j < k
      <4>1. q[i] = p[i] + w[r] /\ q[j] = p[j] + w[r] /\ p[i] <= p[j]
        BY <1>5, <2>1, <2>2, <3>1
      <4> QED
        BY <1>3, <1>5, <4>1
    <3>2. CASE i < k /\ ~(j < k)
      <4>1. q[i] = p[i] + w[r] /\ q[j] = p[j + 1]
        BY <3>2
      <4>2. k - 1 \in 0..n /\ k \in 0..n /\ i <= k - 1 /\ k <= j + 1
        BY <1>3, <3>2
      <4>3. p[i] <= p[k - 1] /\ p[k] <= p[j + 1] /\ p[k - 1] \in Nat /\ p[k] \in Nat
        BY <1>5, <2>1, <4>2
      <4>4. p[i] \in Nat /\ p[j + 1] \in Nat
        BY <1>5
      <4> DEFINE a == p[i]
                 b == p[k - 1]
                 c == w[r]
                 d == p[j + 1]
      <4>5. a \in Nat /\ b \in Nat /\ c \in Nat /\ d \in Nat
        BY <1>3, <4>3, <4>4
      <4>6. a <= b /\ b + c <= d
        BY <1>9, <4>3
      <4> HIDE DEF a, b, c, d
      <4>7. a + c <= d
        BY <4>5, <4>6
      <4> USE DEF a, b, c, d
      <4> QED
        BY <4>1, <4>7
    <3>3. CASE ~(i < k)
      <4>1. q[i] = p[i + 1] /\ q[j] = p[j + 1] /\ i + 1 <= j + 1
        BY <2>2, <3>3
      <4> QED
        BY <1>5, <2>1, <4>1
    <3> QED
      BY <3>1, <3>2, <3>3
  <2> QED
    BY <2>2
<1> HIDE DEF m, t, q
<1>13. IsLedger(S \ {r}, v, from + w[r], to, m, t, q)
  BY <1>7, <1>8, <1>10, <1>11, <1>12 DEF IsLedger
<1> QED
  BY <1>3, <1>6, <1>13 DEF Ledger

\* Only the weights of its rules matter to a ledger.
LEMMA LedgerSame ==
    ASSUME NEW S, NEW w, NEW v, \A x \in S : v[x] = w[x], NEW from, NEW to,
           Ledger(S, w, from, to)
    PROVE  Ledger(S, v, from, to)
<1>0. PICK n \in Nat : \E s \in [1..n -> S], p \in [0..n -> Nat] :
         IsLedger(S, w, from, to, n, s, p)
  BY DEF Ledger
<1>1. PICK s \in [1..n -> S], p \in [0..n -> Nat] : IsLedger(S, w, from, to, n, s, p)
  BY <1>0
<1>2. \A i \in 1..n : v[s[i]] = w[s[i]]
  OBVIOUS
<1>3. IsLedger(S, v, from, to, n, s, p)
  BY <1>1, <1>2 DEF IsLedger
<1> QED
  BY <1>3 DEF Ledger

-----------------------------------------------------------------------------
(***************************************************************************)
(* The metrics.  The rules whose thread has not yet added to a counter     *)
(* make up the difference to what has been recorded; the largest latency   *)
(* is in the counter already, or in the hands of a thread that has still   *)
(* to compare it; and a thread about to replace the maximum holds a larger *)
(* one.                                                                    *)
(***************************************************************************)
RulesAt(steps) == {r \in Rules : rec[r].at \in steps}

Ones  == [r \in Rules |-> 1]
Spent == [r \in Rules |-> rec[r].duration]

CountInv == Ledger(RulesAt({"count"}), Ones, counter["count"], truth.count)

TotalInv == Ledger(RulesAt({"count", "total"}), Spent, counter["total"], truth.total)

Recording == RulesAt({"count", "total", "load", "swap"})

MaxInv ==
    /\ counter["max"] <= truth.max
    /\ \A r \in Recording : rec[r].duration <= truth.max
    /\ \A r \in RulesAt({"swap"}) : rec[r].current < rec[r].duration
    /\ counter["max"] = truth.max \/ \E r \in Recording : rec[r].duration = truth.max

LatencyInv == CountInv /\ TotalInv /\ MaxInv

\* While no thread is in record(), the counters are exact; and they are if that is so.
LEMMA QuietLatencies ==
    ASSUME MetricsTypeOK, Recording = {}
    PROVE  LatencyInv <=> /\ counter["count"] = truth.count
                          /\ counter["total"] = truth.total
                          /\ counter["max"] = truth.max
<1>1. RulesAt({"count"}) = {} /\ RulesAt({"count", "total"}) = {} /\ RulesAt({"swap"}) = {}
  BY DEF Recording, RulesAt
<1>2. /\ counter["count"] \in Nat /\ counter["total"] \in Nat /\ counter["max"] \in Nat
      /\ truth.count \in Nat /\ truth.total \in Nat /\ truth.max \in Nat
  BY SevenFields DEF MetricsTypeOK
<1>3. CountInv <=> counter["count"] = truth.count
  BY <1>1, <1>2, LedgerEnds DEF CountInv
<1>4. TotalInv <=> counter["total"] = truth.total
  BY <1>1, <1>2, LedgerEnds DEF TotalInv
<1>5. MaxInv <=> counter["max"] = truth.max
  BY <1>1, <1>2 DEF MaxInv
<1> QED
  BY <1>3, <1>4, <1>5 DEF LatencyInv

\* A step before and after which no thread is in record() keeps the counters exact
\* if it leaves count, total and maximum alone.
LEMMA QuietSteps ==
    ASSUME MetricsTypeOK, LatencyInv, MetricsTypeOK', Recording = {}, Recording' = {},
           truth' = truth,
           \A f \in {"count", "total", "max"} : counter'[f] = counter[f]
    PROVE  LatencyInv'
<1>1. /\ RulesAt({"count"})' = {} /\ RulesAt({"count", "total"})' = {}
      /\ RulesAt({"swap"})' = {}
  BY DEF Recording, RulesAt
<1>2. /\ counter'["count"] = truth'.count /\ counter'["total"] = truth'.total
      /\ counter'["max"] = truth'.max
  BY QuietLatencies
<1>3. truth'.count \in Nat /\ truth'.total \in Nat /\ truth'.max \in Nat
  BY DEF MetricsTypeOK
<1>4. CountInv'
  BY <1>1, <1>2, <1>3, LedgerEnds DEF CountInv
<1>5. TotalInv'
  BY <1>1, <1>2, <1>3, LedgerEnds DEF TotalInv
<1>6. MaxInv'
  BY <1>1, <1>2, <1>3 DEF MaxInv
<1> QED
  BY <1>4, <1>5, <1>6 DEF LatencyInv

\* Each of the three atomic operations of record() moves its rule out of one ledger,
\* and the loop ends with a maximum that is at least the rule's latency.
LEMMA LatencySteps ==
    ASSUME MetricsTypeOK, LatencyInv, MetricsTypeOK', Record
    PROVE  LatencyInv'
<1>t. /\ Ones \in [Rules -> Nat] /\ Spent \in [Rules -> Nat] /\ Spent' \in [Rules -> Nat]
      /\ \A r \in Rules : Ones[r] = 1 /\ Spent[r] = rec[r].duration /\ Spent'[r] = rec'[r].duration
      /\ \A S : RulesAt(S) \in SUBSET Rules /\ Ones' = Ones
  <2>1. \A r \in Rules : rec[r].duration \in Durations \cup {0}
    BY DEF MetricsTypeOK
  <2>2. \A r \in Rules : rec'[r].duration \in Durations \cup {0}
    BY DEF MetricsTypeOK
  <2>3. \A r \in Rules : rec[r].duration \in Nat /\ rec'[r].duration \in Nat
    BY ONLY <2>1, <2>2, Nanoseconds
  <2> QED
    BY <2>3 DEF Ones, Spent, RulesAt
<1>n. /\ counter["count"] \in Nat /\ counter["total"] \in Nat /\ counter["max"] \in Nat
      /\ truth.count \in Nat /\ truth.total \in Nat /\ truth.max \in Nat
      /\ DOMAIN counter = Names /\ DOMAIN rec = Rules
      /\ {"count", "total", "max"} \subseteq Names
  BY SevenFields DEF MetricsTypeOK
<1>i. CountInv /\ TotalInv /\ MaxInv
  BY DEF LatencyInv
<1>1. ASSUME NEW r \in Rules, NoStage(r)  PROVE LatencyInv'
  <2>1. /\ rec[r].at = "running" /\ rec'[r].at = "resting" /\ rec'[r].duration = 0
        /\ \A s \in Rules \ {r} : rec'[s] = rec[s]
        /\ truth' = truth /\ counter' = counter
    BY <1>1, <1>n DEF NoStage, Resting
  <2>2. /\ RulesAt({"count"})' = RulesAt({"count"})
        /\ RulesAt({"count", "total"})' = RulesAt({"count", "total"})
        /\ RulesAt({"swap"})' = RulesAt({"swap"})
        /\ Recording' = Recording
        /\ r \notin RulesAt({"count", "total"}) /\ r \notin Recording
        /\ r \notin RulesAt({"swap"})
    BY <2>1 DEF Recording, RulesAt
  <2>3. CountInv'
    BY <1>i, <1>t, <2>1, <2>2 DEF CountInv
  <2>4. TotalInv'
    <3>1. \A x \in RulesAt({"count", "total"}) : Spent'[x] = Spent[x]
      BY <1>t, <2>1, <2>2
    <3> QED
      BY <1>i, <2>1, <2>2, <3>1, LedgerSame DEF TotalInv
  <2>5. MaxInv'
    <3>1. \A x \in Recording \cup RulesAt({"swap"}) : rec'[x] = rec[x]
      BY <2>1, <2>2 DEF Recording, RulesAt
    <3> QED
      BY <1>i, <2>1, <2>2, <3>1 DEF MaxInv
  <2> QED
    BY <2>3, <2>4, <2>5 DEF LatencyInv
<1>2. ASSUME NEW r \in Rules, FinishStage(r)  PROVE LatencyInv'
  <2>0. PICK d \in Durations :
           /\ rec' = [rec EXCEPT ![r] = [at |-> "count", duration |-> d, current |-> 0]]
           /\ truth' = [count |-> truth.count + 1, total |-> truth.total + d,
                        max |-> Larger(truth.max, d)]
    BY ONLY <1>2, NewRecorders DEF FinishStage
  <2>1. /\ rec[r].at = "running" /\ rec'[r].at = "count" /\ rec'[r].duration = d
        /\ \A s \in Rules \ {r} : rec'[s] = rec[s]
        /\ truth'.count = truth.count + 1 /\ truth'.total = truth.total + d
        /\ truth'.max = Larger(truth.max, d) /\ counter' = counter /\ d \in Nat
    BY <1>2, <1>n, <2>0, Nanoseconds DEF FinishStage
  <2>2. /\ RulesAt({"count"})' = RulesAt({"count"}) \cup {r} /\ r \notin RulesAt({"count"})
        /\ RulesAt({"count", "total"})' = RulesAt({"count", "total"}) \cup {r}
        /\ RulesAt({"swap"})' = RulesAt({"swap"}) /\ r \notin RulesAt({"swap"})
        /\ Recording' = Recording \cup {r} /\ r \notin Recording
        /\ r \notin RulesAt({"count", "total"})
    BY <2>1 DEF Recording, RulesAt
  <2>3. CountInv'
    <3>1. Ledger(RulesAt({"count"}) \cup {r}, Ones, counter["count"], truth.count + Ones[r])
      BY <1>i, <1>t, <2>2, LedgerAdd DEF CountInv
    <3> QED
      BY <1>t, <2>1, <2>2, <3>1 DEF CountInv
  <2>4. TotalInv'
    <3>1. /\ \A x \in RulesAt({"count", "total"}) : Spent'[x] = Spent[x]
          /\ Spent'[r] = d
      BY <1>t, <2>1, <2>2
    <3>2. Ledger(RulesAt({"count", "total"}) \cup {r}, Spent', counter["total"],
                 truth.total + Spent'[r])
      BY <1>i, <1>t, <2>2, <3>1, LedgerAdd DEF TotalInv
    <3> QED
      BY <2>1, <2>2, <3>1, <3>2 DEF TotalInv
  <2>5. MaxInv'
    <3>1. \A x \in Recording \cup RulesAt({"swap"}) : rec'[x] = rec[x] /\ x \in Rules
      BY <2>1, <2>2 DEF Recording, RulesAt
    <3>2. \A x \in Recording : rec[x].duration \in Nat
      BY <1>t, <3>1
    <3>3. /\ truth'.max = d \/ truth'.max = truth.max
          /\ truth.max <= truth'.max /\ d <= truth'.max
      BY <1>n, <2>1 DEF Larger
    <3>4. truth'.max \in Nat
      BY <1>n, <2>1, <3>3
    <3>5. counter["max"] <= truth'.max /\ \A x \in Recording : rec[x].duration <= truth'.max
      BY <1>i, <1>n, <3>2, <3>3, <3>4 DEF MaxInv
    <3> QED
      BY <1>i, <2>1, <2>2, <3>1, <3>3, <3>5 DEF MaxInv
  <2> QED
    BY <2>3, <2>4, <2>5 DEF LatencyInv
<1>3. ASSUME NEW r \in Rules, AddCount(r)  PROVE LatencyInv'
  <2>1. /\ rec[r].at = "count" /\ rec'[r].at = "total" /\ truth' = truth
        /\ counter'["count"] = counter["count"] + 1
        /\ counter'["total"] = counter["total"] /\ counter'["max"] = counter["max"]
        /\ \A s \in Rules \ {r} : rec'[s].at = rec[s].at
        /\ \A s \in Rules : rec'[s].duration = rec[s].duration /\ rec'[s].current = rec[s].current
    BY <1>3, <1>n DEF AddCount, MetricsTypeOK
  <2>2. /\ RulesAt({"count"})' = RulesAt({"count"}) \ {r} /\ r \in RulesAt({"count"})
        /\ RulesAt({"count", "total"})' = RulesAt({"count", "total"})
        /\ RulesAt({"swap"})' = RulesAt({"swap"})
        /\ Recording' = Recording
    BY <2>1 DEF Recording, RulesAt
  <2>3. CountInv'
    <3>1. Ledger(RulesAt({"count"}) \ {r}, Ones, counter["count"] + Ones[r], truth.count)
      BY <1>i, <1>t, <2>2, LedgerRemove DEF CountInv
    <3> QED
      BY <1>t, <2>1, <2>2, <3>1 DEF CountInv
  <2>4. TotalInv'
    <3>1. Spent' = Spent
      BY <2>1 DEF Spent
    <3> QED
      BY <1>i, <2>1, <2>2, <3>1 DEF TotalInv
  <2>5. MaxInv'
    BY <1>i, <2>1, <2>2 DEF MaxInv, Recording, RulesAt
  <2> QED
    BY <2>3, <2>4, <2>5 DEF LatencyInv
<1>4. ASSUME NEW r \in Rules, AddTotal(r)  PROVE LatencyInv'
  <2>1. /\ rec[r].at = "total" /\ rec'[r].at = "load" /\ truth' = truth
        /\ counter'["total"] = counter["total"] + rec[r].duration
        /\ counter'["count"] = counter["count"] /\ counter'["max"] = counter["max"]
        /\ \A s \in Rules \ {r} : rec'[s].at = rec[s].at
        /\ \A s \in Rules : rec'[s].duration = rec[s].duration /\ rec'[s].current = rec[s].current
    BY <1>4, <1>n DEF AddTotal, MetricsTypeOK
  <2>2. /\ RulesAt({"count"})' = RulesAt({"count"})
        /\ RulesAt({"count", "total"})' = RulesAt({"count", "total"}) \ {r}
        /\ r \in RulesAt({"count", "total"})
        /\ RulesAt({"swap"})' = RulesAt({"swap"})
        /\ Recording' = Recording
    BY <2>1 DEF Recording, RulesAt
  <2>3. CountInv'
    BY <1>i, <1>t, <2>1, <2>2 DEF CountInv
  <2>4. TotalInv'
    <3>1. Spent' = Spent /\ Spent[r] = rec[r].duration
      BY <2>1 DEF Spent
    <3>2. Ledger(RulesAt({"count", "total"}) \ {r}, Spent, counter["total"] + Spent[r], truth.total)
      BY <1>i, <1>t, <2>2, LedgerRemove DEF TotalInv
    <3> QED
      BY <2>1, <2>2, <3>1, <3>2 DEF TotalInv
  <2>5. MaxInv'
    BY <1>i, <2>1, <2>2 DEF MaxInv, Recording, RulesAt
  <2> QED
    BY <2>3, <2>4, <2>5 DEF LatencyInv
<1>5. ASSUME NEW r \in Rules, rec[r].at \in {"load", "swap"}, truth' = truth,
             \A s \in Rules \ {r} : rec'[s] = rec[s],
             \A f \in {"count", "total"} : counter'[f] = counter[f],
             counter["max"] <= counter'["max"], counter'["max"] <= truth.max,
             \/ /\ rec'[r] = Resting /\ rec[r].duration <= counter'["max"]
                /\ counter'["max"] \in {counter["max"], rec[r].duration}
             \/ /\ rec'[r].at = "swap" /\ rec'[r].duration = rec[r].duration
                /\ rec'[r].current < rec[r].duration /\ counter' = counter
      PROVE  LatencyInv'
  <2>1. /\ rec'[r].at \in {"resting", "swap"}
        /\ RulesAt({"count"})' = RulesAt({"count"}) /\ r \notin RulesAt({"count"})
        /\ RulesAt({"count", "total"})' = RulesAt({"count", "total"})
        /\ r \notin RulesAt({"count", "total"})
        /\ RulesAt({"swap"})' \subseteq RulesAt({"swap"}) \cup {r}
        /\ r \in Recording
    BY <1>5 DEF Recording, RulesAt, Resting
  <2>2. CountInv'
    BY <1>i, <1>t, <1>5, <2>1 DEF CountInv
  <2>3. TotalInv'
    <3>1. \A x \in RulesAt({"count", "total"}) : Spent'[x] = Spent[x]
      BY <1>t, <1>5, <2>1
    <3> QED
      BY <1>i, <1>5, <2>1, <3>1, LedgerSame DEF TotalInv
  <2>4. MaxInv'
    <3>1. CASE rec'[r] = Resting /\ rec[r].duration <= counter'["max"]
               /\ counter'["max"] \in {counter["max"], rec[r].duration}
      <4>1. Recording' = Recording \ {r} /\ r \notin RulesAt({"swap"})'
        BY <1>5, <3>1 DEF Recording, RulesAt, Resting
      <4>2. counter'["max"] \in Nat /\ rec[r].duration \in Nat
        BY <1>n, <1>t, <3>1
      <4>3. counter'["max"] = truth.max \/ \E x \in Recording' : rec'[x].duration = truth.max
        <5>1. CASE counter["max"] = truth.max
          BY <1>5, <1>n, <4>2, <5>1
        <5>2. CASE rec[r].duration = truth.max
          BY <1>5, <1>n, <3>1, <4>2, <5>2
        <5>3. ASSUME NEW x \in Recording \ {r}, rec[x].duration = truth.max
              PROVE  \E y \in Recording' : rec'[y].duration = truth.max
          BY <1>5, <4>1, <5>3 DEF Recording, RulesAt
        <5> QED
          BY <1>i, <5>1, <5>2, <5>3 DEF MaxInv
      <4>4. /\ \A x \in Recording' : rec'[x] = rec[x] /\ x \in Recording
            /\ \A x \in RulesAt({"swap"})' : rec'[x] = rec[x] /\ x \in RulesAt({"swap"})
        BY <1>5, <2>1, <4>1 DEF Recording, RulesAt
      <4> QED
        BY <1>i, <1>5, <4>3, <4>4 DEF MaxInv
    <3>2. CASE rec'[r].at = "swap" /\ rec'[r].duration = rec[r].duration
               /\ rec'[r].current < rec[r].duration /\ counter' = counter
      <4>1. Recording' = Recording /\ \A x \in Recording : rec'[x].duration = rec[x].duration
        BY <1>5, <3>2 DEF Recording, RulesAt
      <4>2. \A x \in RulesAt({"swap"})' : rec'[x].current < rec'[x].duration
        BY <1>i, <1>5, <2>1, <3>2 DEF MaxInv, RulesAt
      <4> QED
        BY <1>i, <1>5, <3>2, <4>1, <4>2 DEF MaxInv
    <3> QED
      BY <1>5, <3>1, <3>2
  <2> QED
    BY <2>2, <2>3, <2>4 DEF LatencyInv
<1>l. ASSUME NEW r \in Rules, rec[r].at \in {"load", "swap"}, truth' = truth,
             Looped(r), counter' = counter
      PROVE  LatencyInv'
  <2>1. /\ counter["max"] <= counter'["max"] /\ counter'["max"] <= truth.max
        /\ counter'["max"] \in {counter["max"], rec[r].duration}
        /\ \A f \in {"count", "total"} : counter'[f] = counter[f]
    BY <1>l, <1>i, <1>n DEF MaxInv
  <2>2. /\ \A s \in Rules \ {r} : rec'[s] = rec[s]
        /\ \/ rec'[r] = Resting /\ rec[r].duration <= counter["max"]
           \/ /\ rec'[r] = [at |-> "swap", duration |-> rec[r].duration,
                            current |-> counter["max"]]
              /\ rec[r].duration > counter["max"]
    BY <1>l, Loops
  <2>3. CASE rec'[r] = Resting /\ rec[r].duration <= counter["max"]
    BY ONLY <1>l, <1>5, <2>1, <2>2, <2>3
  <2>4. CASE /\ rec'[r] = [at |-> "swap", duration |-> rec[r].duration,
                            current |-> counter["max"]]
             /\ rec[r].duration > counter["max"]
    <3>1. /\ rec'[r].at = "swap" /\ rec'[r].duration = rec[r].duration
          /\ rec'[r].current < rec[r].duration
      BY <1>n, <1>t, <2>4
    <3> QED
      BY ONLY <1>l, <1>5, <2>1, <2>2, <3>1
  <2> QED
    BY <2>2, <2>3, <2>4
<1>6. ASSUME NEW r \in Rules, LoadMax(r)  PROVE LatencyInv'
  BY <1>l, <1>6 DEF LoadMax
<1>7. ASSUME NEW r \in Rules, SwapMax(r)  PROVE LatencyInv'
  <2>1. rec[r].at = "swap" /\ truth' = truth
    BY <1>7 DEF SwapMax
  <2>2. CASE Looped(r) /\ counter' = counter
    BY <1>l, <2>1, <2>2
  <2>3. CASE /\ counter["max"] = rec[r].current /\ rec' = [rec EXCEPT ![r] = Resting]
             /\ counter' = [counter EXCEPT !["max"] = rec[r].duration]
    <3>1. /\ rec[r].duration \in Nat /\ counter["max"] < rec[r].duration
          /\ rec[r].duration <= truth.max
      BY <1>i, <1>t, <2>1, <2>3 DEF MaxInv, Recording, RulesAt
    <3> QED
      BY <1>5, <1>n, <2>1, <2>3, <3>1
  <2> QED
    BY <1>7, <2>2, <2>3 DEF SwapMax
<1> QED
  BY <1>1, <1>2, <1>3, <1>4, <1>6, <1>7 DEF Record

\* What a step of the system means to the metrics: a step of record() while the
\* worker evaluates, a step of the endpoint, an atomic increment of one of the other
\* counters, or a step between two quiet states.
LEMMA StepKinds ==
    ASSUME TypeInv, MainInv, [Next]_vars,
           wpc # "evaluating" => \A r \in Rules : rec[r] = Resting
    PROVE  /\ wpc' # "evaluating" => \A r \in Rules : rec'[r] = Resting
           /\ \/ Record
              \/ Endpoint
              \/ UNCHANGED metricsVars
              \/ \E name \in Names \ {"count", "total", "max"} :
                    Count(name) /\ UNCHANGED <<recorderVars, endpointVars>>
              \/ /\ Recording = {} /\ Recording' = {}
                 /\ UNCHANGED <<counter, truth, endpointVars>>
<1>r. Resting.at = "resting" /\ [Resting EXCEPT !.at = "running"].at = "running"
  BY DEF Resting
<1>n. {"evals", "errors", "typeErrors", "payloadErrors"} \subseteq Names \ {"count", "total", "max"}
  BY SevenFields
<1> DEFINE Kept == wpc' # "evaluating" => \A r \in Rules : rec'[r] = Resting
<1> USE DEF At, Alive
<1>1. CASE Take
  <2>1. Recording = {} /\ wpc = "idle" /\ UNCHANGED <<truth, endpointVars>>
    BY <1>1, <1>r DEF Take, Recording, RulesAt
  <2>2. CASE UNCHANGED <<counter, rec>> /\ wpc' = "ack"
    BY <2>1, <2>2 DEF metricsVars, recorderVars
  <2>3. CASE Count("payloadErrors") /\ UNCHANGED rec /\ wpc' = "ack"
    BY <1>n, <2>1, <2>3 DEF recorderVars
  <2>4. CASE wpc' = "evaluating" /\ UNCHANGED counter /\ \E rs \in SUBSET Rules : Evaluating(rs)
    <3>1. \A r \in Rules : rec'[r].at \in {"resting", "running"}
      BY <1>r, <2>4 DEF Evaluating
    <3> QED
      BY <2>1, <2>4, <3>1 DEF Recording, RulesAt
  <2> QED
    BY <1>1, <2>2, <2>3, <2>4 DEF Take
<1>2. CASE Evaluated
  BY <1>2 DEF Evaluated, metricsVars, recorderVars
<1>3. CASE Tally
  <2>1. rec' = rec /\ wpc = "tally" /\ Count("evals") /\ UNCHANGED <<recorderVars, endpointVars>>
    BY <1>3 DEF Tally, recorderVars
  <2> QED
    BY <1>n, <2>1
<1>4. CASE TallyError
  <2>1. /\ rec' = rec /\ wpc \in {"error", "typeError"}
        /\ Count("errors") \/ Count("typeErrors")
        /\ UNCHANGED <<recorderVars, endpointVars>>
    BY <1>4 DEF TallyError, recorderVars
  <2> QED
    BY <1>n, <2>1
<1>5. CASE Panic
  <2>1. \A r \in Rules : rec'[r] = Resting
    BY <1>5 DEF Panic
  <2>2. Recording = {} /\ UNCHANGED <<counter, truth, endpointVars>>
    BY <1>5 DEF Panic, Recording, RulesAt
  <2>3. Recording' = {}
    BY <1>r, <2>1 DEF Recording, RulesAt
  <2> QED
    BY <2>1, <2>2, <2>3
<1>6. CASE UNCHANGED metricsVars /\ (wpc = "evaluating" => wpc' = "evaluating")
  BY <1>6 DEF metricsVars, recorderVars
<1>7. CASE EvaluateReturns \/ Ack \/ DispatchNext \/ DispatchDone \/ LeaveLoop \/ Drop \/ WorkerEnds
  BY <1>6, <1>7 DEF EvaluateReturns, Ack, DispatchNext, DispatchDone, LeaveLoop, Drop, WorkerEnds,
     workerVars
<1>8. CASE Begin
  <2>1. UNCHANGED metricsVars /\ wpc' = "idle"
    BY <1>8 DEF Begin
  <2>2. wpc = "evaluating" => wpc' = "evaluating"
    BY <1>8 DEF Begin, MainInv
  <2> QED
    BY <1>6, <2>1, <2>2
<1>9. CASE Refuse \/ IntakeStopped \/ Joined \/ WaitTimeout \/ Crash \/ Arrive
  BY <1>6, <1>9 DEF Refuse, IntakeStopped, Joined, WaitTimeout, Crash, Arrive, workerVars
<1>10. CASE wpc = "evaluating" /\ Record /\ UNCHANGED workerVars
  BY <1>10 DEF workerVars
<1>11. CASE Endpoint /\ UNCHANGED workerVars
  <2>1. UNCHANGED recorderVars
    BY <1>11 DEF Endpoint, BeginScrape, LoadField, Publish
  <2> QED
    BY <1>11, <2>1 DEF recorderVars, workerVars
<1>12. ASSUME NEW record \in Records, Deliver(record), UNCHANGED <<metricsVars, workerVars>>
       PROVE  UNCHANGED metricsVars /\ Kept
  BY <1>6, <1>12 DEF workerVars
<1>13. CASE UNCHANGED vars
  BY <1>6, <1>13 DEF vars, workerVars
<1> QED
  BY ONLY [Next]_vars, <1>1, <1>2, <1>3, <1>4, <1>5, <1>7, <1>8, <1>9, <1>10, <1>11, <1>12, <1>13
     DEF Next, Worker, Main, Others, At

\* No step makes a counter smaller; a replaced maximum was smaller than the new one.
LEMMA CountersGrow ==
    ASSUME TypeInv, MainInv, LatencyInv, [Next]_vars,
           wpc # "evaluating" => \A r \in Rules : rec[r] = Resting
    PROVE  \A f \in Names : counter[f] <= counter'[f]
<1>t. counter \in [Names -> Nat] /\ DOMAIN rec = Rules
  BY DEF TypeInv, TypeOK, MetricsTypeOK
<1>0. ASSUME counter' = counter  PROVE \A f \in Names : counter[f] <= counter'[f]
  BY <1>0, <1>t
<1>1. ASSUME NEW name \in Names, Count(name)  PROVE \A f \in Names : counter[f] <= counter'[f]
  BY <1>1, <1>t DEF Count
<1>2. CASE Record
  <2>1. ASSUME NEW r \in Rules, AddCount(r)  PROVE \A f \in Names : counter[f] <= counter'[f]
    BY <1>t, <2>1 DEF AddCount
  <2>2. ASSUME NEW r \in Rules, AddTotal(r)  PROVE \A f \in Names : counter[f] <= counter'[f]
    <3>1. rec[r].duration \in Durations \cup {0}
      BY DEF TypeInv, TypeOK, MetricsTypeOK
    <3>2. rec[r].duration \in Nat
      BY ONLY <3>1, Nanoseconds
    <3> QED
      BY <1>t, <2>2, <3>2 DEF AddTotal
  <2>3. ASSUME NEW r \in Rules, SwapMax(r), counter' # counter
        PROVE  \A f \in Names : counter[f] <= counter'[f]
    <3>1. rec[r].duration \in Durations \cup {0}
      BY DEF TypeInv, TypeOK, MetricsTypeOK
    <3>2. rec[r].duration \in Nat
      BY ONLY <3>1, Nanoseconds
    <3>3. /\ rec[r].at = "swap" /\ counter["max"] = rec[r].current
          /\ counter' = [counter EXCEPT !["max"] = rec[r].duration]
      BY <2>3 DEF SwapMax
    <3>4. rec[r].current < rec[r].duration
      BY <3>3 DEF LatencyInv, MaxInv, RulesAt
    <3> QED
      BY <1>t, <3>2, <3>3, <3>4
  <2>4. ASSUME NEW r \in Rules, NoStage(r) \/ FinishStage(r) \/ LoadMax(r)
        PROVE  counter' = counter
    BY <2>4 DEF NoStage, FinishStage, LoadMax
  <2> QED
    BY <1>0, <1>2, <2>1, <2>2, <2>3, <2>4 DEF Record
<1>3. CASE Endpoint
  BY <1>0, <1>3 DEF Endpoint, BeginScrape, LoadField, Publish
<1>4. CASE UNCHANGED metricsVars
  BY <1>0, <1>4 DEF metricsVars
<1> QED
  BY <1>0, <1>1, <1>2, <1>3, <1>4, StepKinds

(***************************************************************************)
(* The endpoint: what is published is not ahead of the counters, and the   *)
(* fields loaded since a snapshot was begun lie between what they were     *)
(* then and what they are now.                                             *)
(***************************************************************************)
ScrapeInv ==
    /\ \A f \in Names : published[f] <= counter[f]
    /\ field # 0 => \A f \in Names : published[f] <= atStart[f] /\ atStart[f] <= counter[f]
    /\ \A i \in 1..7 : i < field => /\ atStart[Fields[i]] <= seen[Fields[i]]
                                    /\ seen[Fields[i]] <= counter[Fields[i]]

MetricsInv ==
    /\ wpc # "evaluating" => \A r \in Rules : rec[r] = Resting
    /\ LatencyInv
    /\ ScrapeInv

\* Of what Publish shows, every field lies between what it was when the snapshot was
\* begun and what it is; absolute() never has to hold a counter back.
LEMMA PublishedFields ==
    ASSUME TypeInv, ScrapeInv, Publish
    PROVE  \A f \in Names : /\ atStart[f] <= published'[f] /\ published'[f] <= counter[f]
                            /\ published[f] <= published'[f]
<1> SUFFICES ASSUME NEW f \in Names
             PROVE  /\ atStart[f] <= published'[f] /\ published'[f] <= counter[f]
                    /\ published[f] <= published'[f]
  OBVIOUS
<1>1. /\ counter[f] \in Nat /\ seen[f] \in Nat /\ atStart[f] \in Nat /\ published[f] \in Nat
  BY SevenFields DEF TypeInv, TypeOK, MetricsTypeOK
<1>0. /\ published' = [g \in Names |-> IF g = "max" THEN seen[g] ELSE Larger(published[g], seen[g])]
      /\ field = 8
  BY SevenFields DEF Publish
<1>2. PICK i \in 1..7 : Fields[i] = f
  BY SevenFields
<1>3. i < field /\ field # 0
  BY <1>0
<1>4. atStart[f] <= seen[f] /\ seen[f] <= counter[f] /\ published[f] <= atStart[f]
  BY <1>2, <1>3 DEF ScrapeInv
<1>5. published'[f] = seen[f]
  BY <1>1, <1>0, <1>4 DEF Larger
<1> QED
  BY <1>1, <1>4, <1>5

\* MetricsInv holds initially and is kept by every step.
LEMMA MetricsInvariant == Spec => []MetricsInv
<1>1. Init => MetricsInv
  <2> SUFFICES ASSUME Init  PROVE MetricsInv
    OBVIOUS
  <2>1. /\ counter = Zero /\ published = Zero /\ seen = Zero /\ field = 0
        /\ rec = [r \in Rules |-> Resting]
        /\ truth = [count |-> 0, total |-> 0, max |-> 0]
    BY DEF Init, MetricsInit
  <2>2. \A f \in Names : Zero[f] = 0
    BY DEF Zero
  <2>3. Recording = {} /\ \A r \in Rules : rec[r] = Resting
    BY <2>1 DEF Recording, RulesAt, Resting
  <2>4. LatencyInv
    <3>1. {"count", "total", "max"} \subseteq Names
      BY SevenFields
    <3>2. RulesAt({"count"}) = {} /\ RulesAt({"count", "total"}) = {} /\ RulesAt({"swap"}) = {}
      BY <2>3 DEF RulesAt, Resting
    <3>3. CountInv
      BY <2>1, <2>2, <3>1, <3>2, LedgerEnds DEF CountInv
    <3>4. TotalInv
      BY <2>1, <2>2, <3>1, <3>2, LedgerEnds DEF TotalInv
    <3>5. MaxInv
      BY <2>1, <2>2, <2>3, <3>1, <3>2 DEF MaxInv
    <3> QED
      BY <3>3, <3>4, <3>5 DEF LatencyInv
  <2>5. ScrapeInv
    BY <2>1, <2>2 DEF ScrapeInv
  <2> QED
    BY <2>3, <2>4, <2>5 DEF MetricsInv
<1>2. ASSUME TypeInv, TypeInv', MainInv, MetricsInv, [Next]_vars  PROVE MetricsInv'
  <2>1. /\ MetricsTypeOK /\ MetricsTypeOK' /\ LatencyInv /\ ScrapeInv
        /\ wpc # "evaluating" => \A r \in Rules : rec[r] = Resting
    BY <1>2 DEF TypeInv, TypeOK, MetricsInv
  <2>2. \A f \in Names : counter[f] <= counter'[f]
    BY <1>2, <2>1, CountersGrow
  <2>3. ASSUME rec' = rec, truth' = truth,
               \A f \in {"count", "total", "max"} : counter'[f] = counter[f]
        PROVE  LatencyInv'
    <3>1. CountInv' /\ TotalInv'
      BY <2>1, <2>3 DEF LatencyInv, CountInv, TotalInv, RulesAt, Ones, Spent
    <3>2. MaxInv'
      BY <2>1, <2>3 DEF LatencyInv, MaxInv, Recording, RulesAt
    <3> QED
      BY <3>1, <3>2 DEF LatencyInv
  <2>4. ASSUME UNCHANGED endpointVars  PROVE ScrapeInv'
    <3>1. /\ counter \in [Names -> Nat] /\ counter' \in [Names -> Nat]
          /\ published \in [Names -> Nat] /\ seen \in [Names -> Nat] /\ atStart \in [Names -> Nat]
          /\ \A i \in 1..7 : Fields[i] \in Names
      BY <2>1, SevenFields DEF MetricsTypeOK, Names
    <3>2. \A f \in Names : \A n \in Nat : n <= counter[f] => n <= counter'[f]
      BY <2>2, <3>1
    <3>3. UNCHANGED <<field, seen, atStart, published>>
      BY <2>4 DEF endpointVars
    <3> QED
      BY <2>1, <3>1, <3>2, <3>3 DEF ScrapeInv
  <2>5. CASE Record
    <3>1. UNCHANGED endpointVars
      BY <2>5 DEF Record, NoStage, FinishStage, AddCount, AddTotal, LoadMax, SwapMax
    <3> QED
      BY <1>2, <2>1, <2>4, <2>5, <3>1, LatencySteps, StepKinds DEF MetricsInv
  <2>6. CASE Endpoint
    <3>1. UNCHANGED <<counter, rec, truth>>
      BY <2>6 DEF Endpoint, BeginScrape, LoadField, Publish, recorderVars
    <3>t. /\ counter \in [Names -> Nat] /\ published \in [Names -> Nat]
          /\ seen \in [Names -> Nat] /\ atStart \in [Names -> Nat] /\ field \in 0..8
          /\ \A i \in 1..7 : Fields[i] \in Names
      BY <2>1, SevenFields DEF MetricsTypeOK, Names
    <3>2. ASSUME BeginScrape  PROVE ScrapeInv'
      BY <2>1, <3>2, <3>t DEF BeginScrape, ScrapeInv
    <3>3. ASSUME LoadField  PROVE ScrapeInv'
      <4>1. /\ field \in 1..7 /\ field' = field + 1 /\ UNCHANGED <<counter, atStart, published>>
            /\ seen' = [seen EXCEPT ![Fields[field]] = counter[Fields[field]]]
        BY <3>3, SevenFields DEF LoadField, recorderVars
      <4>2. ASSUME NEW i \in 1..7, i < field'
            PROVE  /\ atStart[Fields[i]] <= seen'[Fields[i]]
                   /\ seen'[Fields[i]] <= counter[Fields[i]]
        <5>1. CASE i = field
          <6>1. seen'[Fields[i]] = counter[Fields[i]]
            BY <3>t, <4>1, <5>1
          <6> QED
            BY <2>1, <3>t, <4>1, <6>1 DEF ScrapeInv
        <5>2. CASE i # field
          <6>1. seen'[Fields[i]] = seen[Fields[i]] /\ i < field
            BY <3>t, <4>1, <4>2, <5>2, SevenFields
          <6> QED
            BY <2>1, <6>1 DEF ScrapeInv
        <5> QED
          BY <5>1, <5>2
      <4> QED
        BY <2>1, <4>1, <4>2 DEF ScrapeInv
    <3>4. ASSUME Publish  PROVE ScrapeInv'
      <4>1. \A f \in Names : published'[f] <= counter[f]
        BY <1>2, <2>1, <3>4, PublishedFields
      <4>2. field' = 0 /\ counter' = counter
        BY <3>4 DEF Publish
      <4>3. ASSUME NEW i \in 1..7  PROVE ~(i < 0)
        OBVIOUS
      <4> QED
        BY <4>1, <4>2, <4>3 DEF ScrapeInv
    <3> QED
      BY <1>2, <2>1, <2>3, <2>6, <3>1, <3>2, <3>3, <3>4, StepKinds DEF MetricsInv, Endpoint
  <2>7. CASE UNCHANGED metricsVars
    BY <1>2, <2>1, <2>3, <2>4, <2>7, StepKinds DEF MetricsInv, metricsVars, recorderVars
  <2>8. ASSUME NEW name \in Names \ {"count", "total", "max"}, Count(name),
               UNCHANGED <<recorderVars, endpointVars>>
        PROVE  MetricsInv'
    <3>1. \A f \in {"count", "total", "max"} : counter'[f] = counter[f]
      BY <2>1, <2>8, SevenFields DEF Count, MetricsTypeOK
    <3> QED
      BY <1>2, <2>1, <2>3, <2>4, <2>8, <3>1, StepKinds DEF MetricsInv, recorderVars
  <2>9. CASE /\ Recording = {} /\ Recording' = {}
             /\ UNCHANGED <<counter, truth, endpointVars>>
    BY <1>2, <2>1, <2>4, <2>9, QuietSteps, StepKinds DEF MetricsInv
  <2> QED
    BY <1>2, <2>1, <2>5, <2>6, <2>7, <2>8, <2>9, StepKinds
<1> QED
  BY <1>1, <1>2, TypeInvariant, WorkerInvariant, PTL DEF Spec, WorkerInv

\* For any number of rules recording at the same time, a stage's counters are never
\* ahead of what has been recorded, and exact when no thread is inside record():
\* every latency counted once, the maximum lost to no slower thread
\* (core/metrics.rs:46-63).
THEOREM LatenciesAreExact == Spec => []LatencyExact
<1>1. TypeInv /\ MetricsInv => LatencyExact
  <2> SUFFICES ASSUME TypeInv, MetricsInv  PROVE LatencyExact
    OBVIOUS
  <2>1. MetricsTypeOK /\ LatencyInv
    BY DEF TypeInv, TypeOK, MetricsInv
  <2>2. /\ counter["count"] <= truth.count /\ counter["total"] <= truth.total
        /\ counter["max"] <= truth.max
    BY <2>1, LedgerEnds DEF LatencyInv, CountInv, TotalInv, MaxInv
  <2>3. ASSUME \A r \in Rules : rec[r].at \in {"resting", "running"}
        PROVE  truth = [count |-> counter["count"], total |-> counter["total"],
                        max |-> counter["max"]]
    <3>1. Recording = {}
      BY <2>3 DEF Recording, RulesAt
    <3>2. /\ counter["count"] = truth.count /\ counter["total"] = truth.total
          /\ counter["max"] = truth.max
      BY <2>1, <3>1, QuietLatencies
    <3>3. truth = [count |-> truth.count, total |-> truth.total, max |-> truth.max]
      BY <2>1 DEF MetricsTypeOK
    <3> QED
      BY <3>2, <3>3
  <2> QED
    BY <2>2, <2>3 DEF LatencyExact
<1> QED
  BY <1>1, TypeInvariant, MetricsInvariant, PTL

\* Every field of /metrics was true during the request that shows it and never goes
\* back, however the snapshot is interleaved with the threads that count
\* (core/metrics.rs:184, oss/metrics.rs:138).
THEOREM ScrapesAreTrue == Spec => ScrapeIsTrue
<1>1. ASSUME TypeInv, MainInv, MetricsInv, [Next]_vars
      PROVE  [published' # published =>
                 \A f \in Names : /\ atStart[f] <= published'[f]
                                  /\ published'[f] <= counter[f]
                                  /\ published[f] <= published'[f]]_metricsVars
  <2>1. ASSUME published' # published  PROVE Publish
    <3>1. ~UNCHANGED endpointVars
      BY <2>1 DEF endpointVars
    <3>2. Endpoint
      <4>1. UNCHANGED metricsVars => UNCHANGED endpointVars
        BY DEF metricsVars
      <4>2. Record => UNCHANGED endpointVars
        BY DEF Record, NoStage, FinishStage, AddCount, AddTotal, LoadMax, SwapMax
      <4> QED
        BY <1>1, <3>1, <4>1, <4>2, StepKinds DEF MetricsInv
    <3> QED
      BY <2>1, <3>2 DEF Endpoint, BeginScrape, LoadField
  <2> QED
    BY <1>1, <2>1, PublishedFields DEF MetricsInv
<1> QED
  BY <1>1, TypeInvariant, WorkerInvariant, MetricsInvariant, PTL DEF Spec, ScrapeIsTrue, WorkerInv
=============================================================================
