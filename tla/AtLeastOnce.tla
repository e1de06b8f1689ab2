---------------------------- MODULE AtLeastOnce ----------------------------
(***************************************************************************)
(* What the process promises the broker: a message may be settled (taken   *)
(* off the broker for good) only after it has been evaluated, and only a   *)
(* message the broker has offered is evaluated.  Evaluating a message more *)
(* than once is allowed; losing one that is not settled is not the         *)
(* process's doing, since the broker still has it.                         *)
(***************************************************************************)
CONSTANTS Messages,     \* everything that can be published
          Settleable    \* those published with a delivery guarantee

VARIABLES offered,      \* messages the broker has sent
          evaluated,    \* messages the rules have been applied to
          settled       \* messages the broker has released

vars == <<offered, evaluated, settled>>

Init == offered = {} /\ evaluated = {} /\ settled = {}

Offer(m) ==
    /\ m \notin offered
    /\ offered' = offered \cup {m}
    /\ UNCHANGED <<evaluated, settled>>

Evaluate(m) ==
    /\ m \in offered
    /\ evaluated' = evaluated \cup {m}
    /\ UNCHANGED <<offered, settled>>

Settle(m) ==
    /\ m \in evaluated \cap Settleable
    /\ settled' = settled \cup {m}
    /\ UNCHANGED <<offered, evaluated>>

Next == \E m \in Messages : Offer(m) \/ Evaluate(m) \/ Settle(m)

Spec == Init /\ [][Next]_vars
=============================================================================
