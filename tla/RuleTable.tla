----------------------------- MODULE RuleTable -----------------------------
(***************************************************************************)
(* What RuleEngine promises its caller: a table of live rules, each under  *)
(* an index that is never reused, and evaluation of a message by exactly   *)
(* the live rules whose topic filter matches its topic.  There is no trie, *)
(* no cache and no order here.                                             *)
(***************************************************************************)
EXTENDS Naturals, Sequences

CONSTANTS Topics,    \* topics as sequences of levels
          Filters,   \* topic filters as sequences of levels
          NoAnswer   \* the call just made was not evaluate

VARIABLES size,      \* indexes 1..size have been given out
          table,     \* the filters of the live rules, by index
          answer     \* what the call just made returned

vars == <<size, table, answer>>

\* rule.rs match_topic: level by level, "+" stands for any level, "#" for any
\* number of them; nothing after a "#" is looked at.
MatchTopic(filter, topic) ==
    LET Agree(n) == \A i \in 1..n : filter[i] \in {"+", topic[i]} /\ filter[i] # "#"
    IN  \/ Len(filter) = Len(topic) /\ Agree(Len(topic))
        \/ \E h \in DOMAIN filter : /\ filter[h] = "#"
                                    /\ h - 1 <= Len(topic)
                                    /\ Agree(h - 1)

Matching(topic) == {i \in DOMAIN table : MatchTopic(table[i], topic)}

Init == size = 0 /\ table = [i \in {} |-> {}] /\ answer = NoAnswer

Add(filter) ==
    /\ size' = size + 1
    /\ table' = [i \in DOMAIN table \cup {size + 1} |->
                    IF i = size + 1 THEN filter ELSE table[i]]
    /\ answer' = NoAnswer

Remove(index) ==
    /\ table' = [i \in DOMAIN table \ {index} |-> table[i]]
    /\ answer' = NoAnswer
    /\ UNCHANGED size

Evaluate(topic) ==
    /\ answer' = [topic |-> topic, rules |-> Matching(topic)]
    /\ UNCHANGED <<size, table>>

Next ==
    \/ \E filter \in Filters : Add(filter)
    \/ \E index \in DOMAIN table : Remove(index)
    \/ \E topic \in Topics : Evaluate(topic)

Spec == Init /\ [][Next]_vars
=============================================================================
