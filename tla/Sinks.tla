------------------------------- MODULE Sinks -------------------------------
(***************************************************************************)
(* The dispatcher and its sinks (oss/sink.rs).  A result goes to every     *)
(* destination of its rule: a counter, the log, or the queue of a Kafka    *)
(* producer, which librdkafka empties in threads of its own.  Dropping the *)
(* dispatcher drops one sink after the other, and a Kafka sink flushes its *)
(* producer for up to five seconds.                                        *)
(***************************************************************************)
EXTENDS Naturals, Sequences, FiniteSets

CONSTANTS MaxMsg,       \* bound: messages evaluated
          Destinations, \* metadata_by_rule_index: the destinations of each rule
          Kind,         \* per destination name, "noop", "log" or "kafka"
          ProducerCap   \* queue.buffering.max.messages of a Kafka producer

ASSUME SinksAssumption ==
    /\ MaxMsg \in Nat
    /\ \A r \in DOMAIN Destinations : Destinations[r] \in Seq(DOMAIN Kind)
    /\ \A d \in DOMAIN Kind : Kind[d] \in {"noop", "log", "kafka"}
    /\ ProducerCap \in Nat

VARIABLES
    configured,  \* the names the configuration defines a sink for, until it is used
    sinks,       \* sinks_by_destination: those built and not yet dropped
    fate         \* per record, what has become of it

sinkVars == <<configured, sinks, fate>>

\* A result of a message on its way to one of the destinations of its rule.
Records == UNION {[msg : 1..MaxMsg, rule : {r}, pos : DOMAIN Destinations[r]] :
                      r \in DOMAIN Destinations}

Destination(record) == Destinations[record.rule][record.pos]

\* used_destinations
Used == UNION {{Destinations[r][i] : i \in DOMAIN Destinations[r]} :
                   r \in DOMAIN Destinations}

Queued(d) == {record \in Records : fate[record] = "queued" /\ Destination(record) = d}

SinksInit ==
    /\ configured \in SUBSET DOMAIN Kind
    /\ sinks = {}
    /\ fate = [record \in Records |-> "unsent"]

-----------------------------------------------------------------------------
\* Faulty variant of BuildSinks: unused sinks are built as well.
BuildAllSinks ==
    /\ Used \subseteq configured
    /\ sinks' = configured
    /\ configured' = {}
    /\ UNCHANGED fate

\* Dispatcher::new, which takes the configuration of the sinks: every destination
\* has one; unused ones are skipped.
BuildSinks ==
    /\ Used \subseteq configured
    /\ sinks' = Used
    /\ configured' = {}
    /\ UNCHANGED fate

\* What KafkaSink::send gets from the producer: room, a full queue, or another error.
Produced(d) ==
    {"refused", IF Cardinality(Queued(d)) < ProducerCap THEN "queued" ELSE "full"}

\* The outcomes of sending to a destination; one without a sink is only logged.
Sent(d) == CASE d \notin sinks -> {"unsupported"}
             [] d \in sinks /\ Kind[d] = "noop" -> {"counted"}
             [] d \in sinks /\ Kind[d] = "log" -> {"logged"}
             [] d \in sinks /\ Kind[d] = "kafka" -> Produced(d)

\* One turn of the loop in dispatch.
Send(record) ==
    /\ \E f \in Sent(Destination(record)) : fate' = [fate EXCEPT ![record] = f]
    /\ UNCHANGED <<configured, sinks>>

\* External: the broker has taken a record, or the producer gives up on it.
Deliver(record) ==
    /\ fate[record] = "queued"
    /\ \E f \in {"delivered", "failed"} : fate' = [fate EXCEPT ![record] = f]
    /\ UNCHANGED <<configured, sinks>>

\* A sink is dropped: a Kafka sink when its producer's queue is empty, or after
\* five seconds, when what is left is purged with the producer.
DropSink(d) ==
    /\ d \in sinks
    /\ Queued(d) = {}
    /\ sinks' = sinks \ {d}
    /\ UNCHANGED <<configured, fate>>

FlushTimeout(d) ==
    /\ d \in sinks
    /\ Queued(d) # {}
    /\ sinks' = sinks \ {d}
    /\ fate' = [record \in Records |-> IF record \in Queued(d) THEN "purged"
                                       ELSE fate[record]]
    /\ UNCHANGED configured

Fates == {"unsent", "unsupported", "counted", "logged", "queued", "full", "refused",
          "delivered", "failed", "purged"}

SinksTypeOK ==
    /\ configured \subseteq DOMAIN Kind
    /\ sinks \subseteq Used
    /\ fate \in [Records -> Fates]
=============================================================================
