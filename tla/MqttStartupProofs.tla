------------------------- MODULE MqttStartupProofs -------------------------
(***************************************************************************)
(* Theorems about MqttStartup for any number of clients and rules and any  *)
(* capacity of the request channels: a channel holds the requests of its   *)
(* client's setup until the event loop writes them out or is gone, and the *)
(* runtime thread ends after the last event loop.                          *)
(***************************************************************************)
EXTENDS MqttStartup, TLAPS

(***************************************************************************)
(* The types alone are not inductive: that a client's requests are never   *)
(* more than its rules follows from where they come from.  Clients behind  *)
(* index have no event loop yet; one that is being set up has the requests *)
(* queued so far in its channel; and what has gone into a channel is in    *)
(* it, written out, or was dropped with it.                                *)
(***************************************************************************)
SetupInv ==
    /\ \A c \in Clients : c >= index => loop[c] = "absent"
    /\ \A c \in Clients : loop[c] = "absent" =>
          /\ written[c] = 0
          /\ chan[c] = IF c = index THEN queuedNow ELSE 0
    /\ \A c \in Clients : loop[c] = "ended" => chan[c] = 0
    /\ \A c \in Clients : written[c] + chan[c] <= TopicCount
    /\ subscribed < index

\* What the runtime thread has behind it in each of its steps; requests are counted
\* in queuedNow only while a client is being set up.
RuntimeInv ==
    /\ runtime = "building" => index = 1
    /\ runtime # "clients" => queuedNow = 0
    /\ index \notin Clients => queuedNow = 0
    /\ runtime \in {"serving", "awaiting"} => index = ClientCount + 1
    /\ runtime = "ended" => \A c \in Clients : loop[c] # "polling"
    /\ main \in {"failed", "stopped"} => runtime = "ended"

StartupInv == TypeOK /\ SetupInv /\ RuntimeInv

\* StartupInv holds initially and is kept by every step.
LEMMA StartupInvariant == Spec => []StartupInv
<1>a. /\ ClientCount \in Nat \ {0} /\ TopicCount \in Nat /\ ReqCap \in Nat \ {0}
      /\ \A c : c \in Clients <=> c \in Nat /\ 1 <= c /\ c <= ClientCount
  BY MqttStartupAssumption DEF Clients
<1>1. Init => StartupInv
  <2> SUFFICES ASSUME Init  PROVE StartupInv
    OBVIOUS
  <2>1. /\ 1 \in 1..(ClientCount + 1) /\ 0 \in 0..TopicCount /\ 0 \in 0..ClientCount
        /\ 0 \in 0..ReqCap
    BY <1>a
  <2>2. TypeOK
    BY <2>1 DEF Init, TypeOK
  <2>3. SetupInv
    BY <1>a DEF Init, SetupInv
  <2>4. RuntimeInv
    BY DEF Init, RuntimeInv
  <2> QED
    BY <2>2, <2>3, <2>4 DEF StartupInv
<1>2. ASSUME StartupInv, [Next]_vars  PROVE StartupInv'
  <2>t. /\ index \in Nat /\ 1 <= index /\ index <= ClientCount + 1
        /\ queuedNow \in Nat /\ queuedNow <= TopicCount
        /\ subscribed \in Nat /\ subscribed <= ClientCount
        /\ DOMAIN loop = Clients /\ DOMAIN chan = Clients /\ DOMAIN written = Clients
        /\ \A c \in Clients : /\ chan[c] \in Nat /\ chan[c] <= ReqCap
                              /\ written[c] \in Nat /\ written[c] <= TopicCount
    BY <1>2, <1>a DEF StartupInv, TypeOK
  <2>i. TypeOK /\ SetupInv /\ RuntimeInv
    BY <1>2 DEF StartupInv
  <2> USE DEF mainVars, runtimeVars, loopVars
  <2>1. CASE BuildRuntime \/ BuildFails
    <3>1. TypeOK'
      BY <2>i, <2>1 DEF BuildRuntime, BuildFails, TypeOK
    <3>2. SetupInv'
      BY <2>i, <2>1 DEF BuildRuntime, BuildFails, SetupInv
    <3>3. RuntimeInv'
      BY <1>a, <2>i, <2>t, <2>1 DEF BuildRuntime, BuildFails, TypeOK, SetupInv, RuntimeInv
    <3> QED
      BY <3>1, <3>2, <3>3 DEF StartupInv
  <2>2. CASE Subscribe
    <3>1. /\ runtime = "clients" /\ index \in Clients /\ queuedNow < TopicCount
          /\ chan[index] < ReqCap /\ chan' = [chan EXCEPT ![index] = @ + 1]
          /\ queuedNow' = queuedNow + 1 /\ runtime' = runtime
          /\ UNCHANGED <<bad, main, stopSent, index, subscribed, announced, ready, loop, written>>
      BY <2>2 DEF Subscribe
    <3>2. chan' \in [Clients -> 0..ReqCap] /\ queuedNow' \in 0..TopicCount
      <4>1. chan[index] + 1 \in 0..ReqCap
        BY <1>a, <2>t, <3>1
      <4>2. queuedNow + 1 \in 0..TopicCount
        BY <1>a, <2>t, <3>1
      <4> QED
        BY <2>i, <3>1, <4>1, <4>2 DEF TypeOK
    <3>3. TypeOK'
      BY <2>i, <3>1, <3>2 DEF TypeOK
    <3>4. loop[index] = "absent" /\ written[index] = 0 /\ chan[index] = queuedNow
      BY <2>i, <2>t, <3>1 DEF SetupInv
    <3>5. /\ chan'[index] = queuedNow + 1
          /\ \A c \in Clients \ {index} : chan'[c] = chan[c]
      BY <2>t, <3>1, <3>4
    <3>6. \A c \in Clients : written[c] + chan'[c] <= TopicCount
      <4>1. written[index] + chan'[index] <= TopicCount
        BY <1>a, <2>t, <3>1, <3>4, <3>5
      <4> QED
        BY <2>i, <3>5, <4>1 DEF SetupInv
    <3>7. SetupInv'
      BY <2>i, <3>1, <3>4, <3>5, <3>6 DEF SetupInv
    <3>8. RuntimeInv'
      BY <2>i, <3>1 DEF RuntimeInv
    <3> QED
      BY <3>3, <3>7, <3>8 DEF StartupInv
  <2>3. CASE SubscribeFails
    <3>1. /\ runtime = "clients" /\ index \in Clients
          /\ chan' = [chan EXCEPT ![index] = 0] /\ queuedNow' = 0 /\ index' = index + 1
          /\ UNCHANGED <<bad, main, stopSent, runtime, subscribed, announced, ready, loop, written>>
      BY <2>3 DEF SubscribeFails
    <3>2. /\ index + 1 \in 1..(ClientCount + 1) /\ 0 \in 0..TopicCount /\ 0 \in 0..ReqCap
      BY <1>a, <2>t, <3>1
    <3>3. TypeOK'
      BY <2>i, <3>1, <3>2 DEF TypeOK
    <3>4. chan'[index] = 0 /\ \A c \in Clients \ {index} : chan'[c] = chan[c]
      BY <2>t, <3>1
    <3>5. SetupInv'
      <4>1. \A c \in Clients : c >= index + 1 => loop[c] = "absent"
        BY <1>a, <2>i, <2>t DEF SetupInv
      <4>2. \A c \in Clients : loop[c] = "absent" => written[c] = 0 /\ chan'[c] = 0
        BY <2>i, <3>4 DEF SetupInv
      <4>3. \A c \in Clients : written[c] + chan'[c] <= TopicCount
        BY <2>i, <2>t, <3>4 DEF SetupInv
      <4>4. subscribed < index + 1
        BY <2>i, <2>t DEF SetupInv
      <4> QED
        BY <2>i, <3>1, <3>4, <4>1, <4>2, <4>3, <4>4 DEF SetupInv
    <3>6. RuntimeInv'
      BY <2>i, <3>1 DEF RuntimeInv
    <3> QED
      BY <3>3, <3>5, <3>6 DEF StartupInv
  <2>4. CASE SpawnLoop
    <3>1. /\ runtime = "clients" /\ index \in Clients /\ announced' = announced \cup {index}
          /\ subscribed' = subscribed + 1 /\ loop' = [loop EXCEPT ![index] = "polling"]
          /\ queuedNow' = 0 /\ index' = index + 1
          /\ UNCHANGED <<bad, main, stopSent, runtime, ready, chan, written>>
      BY <2>4 DEF SpawnLoop
    <3>2. /\ index + 1 \in 1..(ClientCount + 1) /\ 0 \in 0..TopicCount
          /\ subscribed + 1 \in 0..ClientCount
      BY <1>a, <2>i, <2>t, <3>1 DEF SetupInv
    <3>3. TypeOK'
      BY <2>i, <3>1, <3>2 DEF TypeOK
    <3>4. loop'[index] = "polling" /\ \A c \in Clients \ {index} : loop'[c] = loop[c]
      BY <2>t, <3>1
    <3>5. SetupInv'
      <4>1. \A c \in Clients : c >= index + 1 => loop'[c] = "absent"
        BY <1>a, <2>i, <2>t, <3>4 DEF SetupInv
      <4>2. \A c \in Clients : loop'[c] = "absent" => written[c] = 0 /\ chan[c] = 0
        BY <2>i, <3>4 DEF SetupInv
      <4>3. subscribed + 1 < index + 1
        BY <2>i, <2>t DEF SetupInv
      <4> QED
        BY <2>i, <3>1, <3>4, <4>1, <4>2, <4>3 DEF SetupInv
    <3>6. RuntimeInv'
      BY <2>i, <3>1 DEF RuntimeInv
    <3> QED
      BY <3>3, <3>5, <3>6 DEF StartupInv
  <2>5. CASE ReportReady \/ SeeStop \/ RuntimeEnds
    <3>1. TypeOK'
      BY <2>i, <2>5 DEF ReportReady, SeeStop, RuntimeEnds, TypeOK
    <3>2. SetupInv'
      BY <2>i, <2>5 DEF ReportReady, SeeStop, RuntimeEnds, SetupInv
    <3>3. CASE ReportReady
      <4>1. /\ runtime = "clients" /\ index = ClientCount + 1 /\ runtime' = "serving"
            /\ UNCHANGED <<index, queuedNow, loop, main>>
        BY <1>a, <2>t, <3>3 DEF ReportReady
      <4>2. queuedNow = 0
        BY <2>i, <3>3 DEF ReportReady, RuntimeInv
      <4> QED
        BY <2>i, <3>1, <3>2, <4>1, <4>2 DEF StartupInv, RuntimeInv
    <3>4. CASE SeeStop \/ RuntimeEnds
      BY <2>i, <3>1, <3>2, <3>4 DEF StartupInv, SeeStop, RuntimeEnds, RuntimeInv
    <3> QED
      BY <2>5, <3>3, <3>4
  <2>6. ASSUME NEW c \in Clients, WriteSubscribe(c)  PROVE StartupInv'
    <3>1. /\ loop[c] = "polling" /\ chan[c] > 0
          /\ chan' = [chan EXCEPT ![c] = @ - 1] /\ written' = [written EXCEPT ![c] = @ + 1]
          /\ UNCHANGED <<bad, main, stopSent, runtimeVars, loop>>
      BY <2>6 DEF WriteSubscribe
    <3>2. /\ chan'[c] = chan[c] - 1 /\ written'[c] = written[c] + 1
          /\ \A d \in Clients \ {c} : chan'[d] = chan[d] /\ written'[d] = written[d]
      BY <2>t, <3>1
    <3>3. written[c] + chan[c] <= TopicCount
      BY <2>i DEF SetupInv
    <3>4. /\ chan[c] - 1 \in 0..ReqCap /\ written[c] + 1 \in 0..TopicCount
          /\ (written[c] + 1) + (chan[c] - 1) <= TopicCount
      BY <1>a, <2>t, <3>1, <3>3
    <3>5. TypeOK'
      BY <2>i, <3>1, <3>4 DEF TypeOK
    <3>6. SetupInv'
      <4>1. \A d \in Clients : written'[d] + chan'[d] <= TopicCount
        BY <2>i, <3>2, <3>4 DEF SetupInv
      <4> QED
        BY <2>i, <3>1, <3>2, <4>1 DEF SetupInv
    <3>7. RuntimeInv'
      BY <2>i, <3>1 DEF RuntimeInv
    <3> QED
      BY <3>5, <3>6, <3>7 DEF StartupInv
  <2>7. ASSUME NEW c \in Clients, EndLoop(c)  PROVE StartupInv'
    <3>1. /\ loop[c] = "polling" /\ loop' = [loop EXCEPT ![c] = "ended"]
          /\ chan' = [chan EXCEPT ![c] = 0]
          /\ UNCHANGED <<bad, main, stopSent, runtimeVars, written>>
      BY <2>7 DEF EndLoop
    <3>2. /\ chan'[c] = 0 /\ loop'[c] = "ended"
          /\ \A d \in Clients \ {c} : chan'[d] = chan[d] /\ loop'[d] = loop[d]
      BY <2>t, <3>1
    <3>3. 0 \in 0..ReqCap
      BY <1>a
    <3>4. TypeOK'
      BY <2>i, <3>1, <3>3 DEF TypeOK
    <3>5. SetupInv'
      <4>1. ~(c >= index)
        BY <2>i, <3>1 DEF SetupInv
      <4>2. \A d \in Clients : written[d] + chan'[d] <= TopicCount
        BY <2>i, <2>t, <3>2 DEF SetupInv
      <4> QED
        BY <2>i, <3>1, <3>2, <4>1, <4>2 DEF SetupInv
    <3>6. RuntimeInv'
      BY <2>i, <3>1, <3>2 DEF RuntimeInv
    <3> QED
      BY <3>4, <3>5, <3>6 DEF StartupInv
  <2>8. CASE ReadyOk \/ ReadyErr \/ ReadyTimeout \/ Stop \/ Join
    <3>1. /\ UNCHANGED <<bad, runtimeVars, loopVars>>
          /\ main' \in {"failed", "stopped"} => runtime = "ended"
          /\ main' \in {"timedOut", "refused", "started", "stopping", "failed", "stopped"}
          /\ stopSent' \in BOOLEAN
      BY <2>i, <2>8 DEF ReadyOk, ReadyErr, ReadyTimeout, Stop, Join, TypeOK
    <3>2. TypeOK'
      BY <2>i, <3>1 DEF TypeOK
    <3>3. SetupInv' /\ RuntimeInv'
      BY <2>i, <3>1 DEF SetupInv, RuntimeInv
    <3> QED
      BY <3>2, <3>3 DEF StartupInv
  <2>9. CASE UNCHANGED vars
    BY <2>i, <2>9 DEF vars, StartupInv, TypeOK, SetupInv, RuntimeInv
  <2> QED
    BY ONLY <1>2, <2>1, <2>2, <2>3, <2>4, <2>5, <2>6, <2>7, <2>8, <2>9
       DEF Next, Runtime, LoopError, LoopStop, Finished
<1> QED
  BY <1>1, <1>2, PTL DEF Spec

\* Every variable keeps its type: no request channel overflows, and no event loop
\* writes more SUBSCRIBEs than there are rules.
THEOREM TypeCorrect == Spec => []TypeOK
<1>1. StartupInv => TypeOK
  BY DEF StartupInv
<1> QED
  BY <1>1, StartupInvariant, PTL

\* Neither a failed start nor a finished stop leaves an event loop or a request
\* behind, however the timeout races with the runtime thread, for any number of
\* clients and rules.
THEOREM NothingIsLeftBehind == Spec => []NothingLeftBehind
<1>1. StartupInv => NothingLeftBehind
  BY DEF StartupInv, TypeOK, SetupInv, RuntimeInv, NothingLeftBehind
<1> QED
  BY <1>1, StartupInvariant, PTL
=============================================================================
