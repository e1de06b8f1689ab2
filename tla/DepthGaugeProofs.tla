-------------------------- MODULE DepthGaugeProofs --------------------------
(***************************************************************************)
(* Theorems about DepthGauge for any number of event loops, any queue      *)
(* capacity and any width of the counter that fits them: the counter's     *)
(* exact value in every interleaving, and what follows from it.            *)
(***************************************************************************)
EXTENDS DepthGauge, FiniteSetTheorems, TLAPS

\* Every variable keeps its type and the queue its bound, by induction on the steps
\* of the handlers and of the worker.
THEOREM TypeCorrect == Spec => []TypeOK
<1>0. /\ QueueCap \in Nat \ {0} /\ DepthMod \in Nat /\ DepthMod > 2
  <2>1. Cardinality(Handlers) \in Nat
    BY DepthGaugeAssumption, FS_CardinalityType
  <2> QED
    BY <2>1, DepthGaugeAssumption
<1> USE <1>0 DEF Depths
<1>1. Init => TypeOK
  BY DEF Init, TypeOK
<1>2. ASSUME TypeOK, [Next]_vars  PROVE TypeOK'
  <2> USE <1>2 DEF TypeOK
  <2>1. ASSUME NEW h \in Handlers, Send(h)  PROVE TypeOK'
    BY <2>1 DEF Send
  <2>2. ASSUME NEW h \in Handlers, CountEnqueued(h)  PROVE TypeOK'
    BY <2>2 DEF CountEnqueued, Plus1
  <2>3. ASSUME NEW h \in Handlers, PublishEnqueued(h)  PROVE TypeOK'
    BY <2>3 DEF PublishEnqueued
  <2>4. CASE Recv
    BY <2>4 DEF Recv
  <2>5. CASE CountDequeued
    BY <2>5 DEF CountDequeued, Minus1
  <2>6. CASE PublishDequeued
    BY <2>6 DEF PublishDequeued
  <2>7. CASE UNCHANGED vars
    BY <2>7 DEF vars
  <2> QED
    BY <1>2, <2>1, <2>2, <2>3, <2>4, <2>5, <2>6, <2>7 DEF Next
<1> QED
  BY <1>1, <1>2, PTL DEF Spec

-----------------------------------------------------------------------------
(***************************************************************************)
(* The balance of a state, which DepthBalance folds into an unsigned       *)
(* counter.  In a checked build it cannot go below zero while the worker   *)
(* lives, since the underflow ends the worker.                             *)
(***************************************************************************)
Balance == queued + StillCounted - Cardinality(Uncounted)

BalanceInv ==
    /\ depth = IF Balance >= 0 THEN Balance ELSE DepthMod + Balance
    /\ checked /\ wpc # "panicked" => Balance >= 0
    /\ WorkerPanicsFirst

\* The uncounted handlers are a finite set of at most all the handlers.
LEMMA UncountedBound ==
    /\ Cardinality(Handlers) \in Nat
    /\ IsFiniteSet(Uncounted)
    /\ Cardinality(Uncounted) \in Nat /\ Cardinality(Uncounted) <= Cardinality(Handlers)
  BY DepthGaugeAssumption, FS_CardinalityType, FS_Subset DEF Uncounted

\* Balance stays between the number of handlers below zero and one more than the
\* capacity, so that the two branches of DepthBalance cannot meet.
LEMMA BalanceBound ==
    ASSUME TypeOK
    PROVE  /\ queued \in Nat /\ StillCounted \in {0, 1} /\ Balance \in Int
           /\ 0 - Cardinality(Handlers) <= Balance /\ Balance <= QueueCap + 1
           /\ Balance < DepthMod - 1 /\ 0 < DepthMod + Balance
<1>1. queued \in Nat /\ queued <= QueueCap /\ QueueCap \in Nat
  BY DepthGaugeAssumption DEF TypeOK
<1>2. StillCounted \in {0, 1}
  BY DEF StillCounted
<1>3. DepthMod \in Nat /\ QueueCap + Cardinality(Handlers) + 1 < DepthMod
  BY DepthGaugeAssumption
<1>4. /\ Cardinality(Handlers) \in Nat /\ Cardinality(Uncounted) \in Nat
      /\ Cardinality(Uncounted) <= Cardinality(Handlers)
  BY UncountedBound
<1>5. Balance = queued + StillCounted - Cardinality(Uncounted)
  BY DEF Balance
<1> HIDE DEF Balance, StillCounted, Uncounted
<1>6. /\ Balance \in Int
      /\ 0 - Cardinality(Handlers) <= Balance /\ Balance <= QueueCap + 1
  BY ONLY <1>1, <1>2, <1>4, <1>5
<1>7. Cardinality(Handlers) >= 1
  BY DepthGaugeAssumption, FS_EmptySet, FS_CardinalityType
<1> QED
  BY ONLY <1>1, <1>2, <1>3, <1>4, <1>6, <1>7

\* How the steps move the balance: only the two updates of the counter do.
LEMMA BalanceSteps ==
    ASSUME TypeOK, [Next]_vars
    PROVE  \/ /\ Balance' = Balance /\ depth' = depth
              /\ wpc' = "panicked" <=> wpc = "panicked"
              /\ \A h \in Handlers : hpc'[h] = "panicked" <=> hpc[h] = "panicked"
           \/ /\ Balance' = Balance + 1 /\ depth' = Plus1(depth) /\ wpc' = wpc
              /\ \A h \in Handlers : hpc'[h] = "panicked" =>
                    hpc[h] = "panicked" \/ (checked /\ depth = DepthMod - 1)
           \/ /\ Balance' = Balance - 1 /\ depth' = Minus1(depth) /\ wpc = "taken" /\ hpc' = hpc
              /\ wpc' = IF checked /\ depth = 0 THEN "panicked" ELSE "counted"
<1>t. /\ queued \in Nat /\ hpc \in [Handlers -> {"idle", "sent", "counted", "panicked"}]
      /\ IsFiniteSet(Uncounted) /\ Cardinality(Uncounted) \in Nat
  BY UncountedBound DEF TypeOK
<1>1. ASSUME NEW h \in Handlers, Send(h)
      PROVE  /\ Balance' = Balance /\ depth' = depth
             /\ wpc' = "panicked" <=> wpc = "panicked"
             /\ \A k \in Handlers : hpc'[k] = "panicked" <=> hpc[k] = "panicked"
  <2>1. Uncounted' = Uncounted \cup {h} /\ h \notin Uncounted
    BY <1>t, <1>1 DEF Send, Uncounted
  <2>2. Cardinality(Uncounted') = Cardinality(Uncounted) + 1
    BY <1>t, <2>1, FS_AddElement
  <2>3. queued' = queued + 1 /\ StillCounted' = StillCounted /\ StillCounted \in {0, 1}
    BY <1>1 DEF Send, StillCounted
  <2>4. Balance' = Balance
    BY <1>t, <2>2, <2>3 DEF Balance
  <2> QED
    BY <1>t, <1>1, <2>4 DEF Send
<1>2. ASSUME NEW h \in Handlers, CountEnqueued(h)
      PROVE  /\ Balance' = Balance + 1 /\ depth' = Plus1(depth) /\ wpc' = wpc
             /\ \A k \in Handlers : hpc'[k] = "panicked" =>
                    hpc[k] = "panicked" \/ (checked /\ depth = DepthMod - 1)
  <2>1. Uncounted' = Uncounted \ {h} /\ h \in Uncounted
    BY <1>t, <1>2 DEF CountEnqueued, Uncounted
  <2>2. Cardinality(Uncounted') = Cardinality(Uncounted) - 1
    BY <1>t, <2>1, FS_RemoveElement
  <2>3. queued' = queued /\ StillCounted' = StillCounted /\ StillCounted \in {0, 1}
    BY <1>2 DEF CountEnqueued, StillCounted
  <2>4. Balance' = Balance + 1
    BY <1>t, <2>2, <2>3 DEF Balance
  <2> QED
    BY <1>t, <1>2, <2>4 DEF CountEnqueued
<1>3. ASSUME NEW h \in Handlers, PublishEnqueued(h)
      PROVE  /\ Balance' = Balance /\ depth' = depth
             /\ wpc' = "panicked" <=> wpc = "panicked"
             /\ \A k \in Handlers : hpc'[k] = "panicked" <=> hpc[k] = "panicked"
  <2>1. Uncounted' = Uncounted /\ queued' = queued /\ StillCounted' = StillCounted
    BY <1>t, <1>3 DEF PublishEnqueued, Uncounted, StillCounted
  <2>2. Balance' = Balance
    BY <2>1 DEF Balance
  <2> QED
    BY <1>t, <1>3, <2>2 DEF PublishEnqueued
<1>4. CASE Recv
  <2>1. /\ Uncounted' = Uncounted /\ queued' = queued - 1
        /\ StillCounted = 0 /\ StillCounted' = 1
    BY <1>4 DEF Recv, Uncounted, StillCounted
  <2>2. Balance' = Balance
    BY <1>t, <2>1 DEF Balance
  <2> QED
    BY <1>4, <2>2 DEF Recv
<1>5. CASE CountDequeued
  <2>1. /\ Uncounted' = Uncounted /\ queued' = queued
        /\ StillCounted = 1 /\ StillCounted' = 0
    BY <1>5 DEF CountDequeued, Uncounted, StillCounted
  <2>2. Balance' = Balance - 1
    BY <1>t, <2>1 DEF Balance
  <2> QED
    BY <1>5, <2>2 DEF CountDequeued
<1>6. CASE PublishDequeued \/ UNCHANGED vars
  <2>1. Uncounted' = Uncounted /\ queued' = queued /\ StillCounted' = StillCounted
    BY <1>6 DEF PublishDequeued, vars, Uncounted, StillCounted
  <2>2. Balance' = Balance
    BY <2>1 DEF Balance
  <2> QED
    BY <1>6, <2>2 DEF PublishDequeued, vars
<1> QED
  BY <1>1, <1>2, <1>3, <1>4, <1>5, <1>6 DEF Next

\* The counter is the balance in every reachable state.
LEMMA BalanceInvariant == Spec => []BalanceInv
<1>1. Init => BalanceInv
  <2> SUFFICES ASSUME Init  PROVE BalanceInv
    OBVIOUS
  <2>1. Uncounted = {} /\ StillCounted = 0 /\ queued = 0
    BY DEF Init, Uncounted, StillCounted
  <2>2. Balance = 0
    BY <2>1, FS_EmptySet DEF Balance
  <2> QED
    BY <2>2 DEF Init, BalanceInv, WorkerPanicsFirst
<1>2. TypeOK /\ TypeOK' /\ BalanceInv /\ [Next]_vars => BalanceInv'
  <2> SUFFICES ASSUME TypeOK, TypeOK', BalanceInv, [Next]_vars  PROVE BalanceInv'
    OBVIOUS
  <2>1. Balance \in Int /\ Balance < DepthMod - 1 /\ 0 < DepthMod + Balance /\ DepthMod \in Nat
    BY BalanceBound, DepthGaugeAssumption
  <2>2. depth = IF Balance >= 0 THEN Balance ELSE DepthMod + Balance
    BY DEF BalanceInv
  <2>3. checked' = checked
    BY DEF Next, Send, CountEnqueued, PublishEnqueued, Recv, CountDequeued, PublishDequeued, vars
  <2>4. CASE /\ Balance' = Balance /\ depth' = depth
             /\ wpc' = "panicked" <=> wpc = "panicked"
             /\ \A h \in Handlers : hpc'[h] = "panicked" <=> hpc[h] = "panicked"
    BY <2>3, <2>4 DEF BalanceInv, WorkerPanicsFirst
  <2>5. CASE /\ Balance' = Balance + 1 /\ depth' = Plus1(depth) /\ wpc' = wpc
             /\ \A h \in Handlers : hpc'[h] = "panicked" =>
                    hpc[h] = "panicked" \/ (checked /\ depth = DepthMod - 1)
    <3>1. depth' = IF Balance' >= 0 THEN Balance' ELSE DepthMod + Balance'
      BY <2>1, <2>2, <2>5 DEF Plus1
    <3>2. checked /\ wpc # "panicked" => Balance >= 0 /\ Balance' >= 0
      BY <2>1, <2>5 DEF BalanceInv
    <3>3. WorkerPanicsFirst'
      <4>1. checked /\ depth = DepthMod - 1 => wpc = "panicked"
        BY <2>1, <2>2, <3>2
      <4> QED
        BY <2>5, <4>1 DEF BalanceInv, WorkerPanicsFirst
    <3> QED
      BY <2>3, <2>5, <3>1, <3>2, <3>3 DEF BalanceInv
  <2>6. CASE /\ Balance' = Balance - 1 /\ depth' = Minus1(depth) /\ wpc = "taken" /\ hpc' = hpc
             /\ wpc' = IF checked /\ depth = 0 THEN "panicked" ELSE "counted"
    <3>1. depth' = IF Balance' >= 0 THEN Balance' ELSE DepthMod + Balance'
      BY <2>1, <2>2, <2>6 DEF Minus1
    <3>2. checked' /\ wpc' # "panicked" => Balance' >= 0
      <4>1. checked /\ depth # 0 => Balance > 0
        BY <2>1, <2>2, <2>6 DEF BalanceInv
      <4> QED
        BY <2>1, <2>3, <2>6, <4>1
    <3>3. WorkerPanicsFirst'
      BY <2>6 DEF BalanceInv, WorkerPanicsFirst
    <3> QED
      BY <3>1, <3>2, <3>3 DEF BalanceInv
  <2> QED
    BY <2>4, <2>5, <2>6, BalanceSteps
<1> QED
  BY <1>1, <1>2, TypeCorrect, PTL DEF Spec

\* The counter is the length of the queue corrected by the updates under way, as an
\* unsigned number, in every interleaving of the handlers and the worker.
THEOREM DepthIsBalance == Spec => []DepthBalance
<1>1. BalanceInv => DepthBalance
  BY DEF BalanceInv, DepthBalance, Balance
<1> QED
  BY <1>1, BalanceInvariant, PTL

\* No drift: with no update under way the counter is the length of the queue.
THEOREM DepthHeals == Spec => []DepthExactWhenQuiet
<1>1. TypeOK /\ BalanceInv => DepthExactWhenQuiet
  <2> SUFFICES ASSUME TypeOK, BalanceInv, Uncounted = {}, wpc # "taken"
               PROVE  depth = queued
    BY DEF DepthExactWhenQuiet
  <2>1. queued \in Nat /\ StillCounted = 0 /\ Cardinality(Uncounted) = 0
    BY BalanceBound, FS_EmptySet DEF StillCounted
  <2> QED
    BY <2>1 DEF BalanceInv, Balance
<1> QED
  BY <1>1, TypeCorrect, BalanceInvariant, PTL

\* In a checked build no event loop panics on the counter before the worker has.
THEOREM WorkerIsFirstToPanic == Spec => []WorkerPanicsFirst
  BY BalanceInvariant, PTL DEF BalanceInv
=============================================================================
