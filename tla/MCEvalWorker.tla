---------------------------- MODULE MCEvalWorker ----------------------------
(***************************************************************************)
(* An instance of EvalWorker for TLC: two rules that share a Kafka sink,   *)
(* one with a plain sink besides, the other with a second Kafka sink; no   *)
(* rule uses the fourth sink.                                              *)
(***************************************************************************)
EXTENDS EvalWorker

MCDestinations == [r \in 0..1 |-> IF r = 0 THEN <<"tally", "lake">>
                                     ELSE <<"audit", "lake">>]
MCKind == [d \in {"lake", "tally", "audit", "spare"} |-> IF d = "tally" THEN "noop" ELSE "kafka"]

\* Latencies and requests to the endpoint neither read nor change anything the
\* sinks and the shutdown do, and the other way round.  TLC follows a behaviour
\* that has one of them until its first message has been evaluated, and one that
\* has none to the end.
Measured == scrapes > 0 \/ truth.count > 0
Scope == Measured => phase = "running" /\ arrived <= 1 /\ acked = {} /\ ~panicked
=============================================================================
