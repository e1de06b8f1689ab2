----------------------------- MODULE RuleEngine -----------------------------
(***************************************************************************)
(* The rule table of tenon-core (runtime.rs RuleEngine): the vector of     *)
(* compiled rules, the map from rule ids to indexes, the topic trie and    *)
(* the topic-match cache with its random eviction.                         *)
(*                                                                         *)
(* A trie node is the path of levels that leads to it from the root, so    *)
(* the trie is a function from paths to the rule indexes kept there.  What *)
(* a matched rule computes is left out: a rule that is evaluated yields    *)
(* its index.  Indexes count from 1.                                       *)
(***************************************************************************)
EXTENDS Naturals, Sequences, FiniteSets

CONSTANTS Expressions,   \* rule expressions; the rule id is a hash of it
          FilterOf,      \* the topic filter in each expression, as levels
          Topics,        \* topics of messages, as levels
          CacheCap,      \* topic_cache_capacity
          MaxRules,      \* bound: rules ever added
          NoRule,        \* an empty slot of the vector
          NoAnswer       \* the call just made was not evaluate

ASSUME RuleEngineAssumption ==
    /\ FilterOf \in [Expressions -> Seq(STRING)]
    /\ Topics \subseteq Seq(STRING)
    /\ CacheCap \in Nat
    /\ MaxRules \in Nat
    /\ NoRule \notin Expressions

VARIABLES rules,     \* Vec<Option<CompiledRule>>: an expression or NoRule
          idMap,     \* rule_index_by_id
          trie,      \* matcher: from the path of a node to its rule_indexes
          entries,   \* the cache: from topic to the matched indexes
          keys,      \* the cache: its topics, for random eviction
          filters,   \* history: the filter of every rule ever added
          answer     \* what the call just made returned

vars == <<rules, idMap, trie, entries, keys, filters, answer>>

Prefixes(s) == {SubSeq(s, 1, n) : n \in 0..Len(s)}
IsPrefixOf(p, s) == p \in Prefixes(s)
Live == {i \in DOMAIN rules : rules[i] # NoRule}
Nothing == [x \in {} |-> {}]

\* rules, trie and cache of a new engine.
Init ==
    /\ rules = <<>>
    /\ idMap = Nothing
    /\ trie = [p \in {<<>>} |-> {}]
    /\ entries = Nothing
    /\ keys = <<>>
    /\ filters = <<>>
    /\ answer = NoAnswer

-----------------------------------------------------------------------------
\* TopicTrie::insert breaks at the first "#".
PathOf(filter) ==
    CHOOSE p \in Prefixes(filter) :
        /\ \A i \in 1..(Len(p) - 1) : p[i] # "#"
        /\ p = filter \/ (p # <<>> /\ p[Len(p)] = "#")

\* Faulty variant of Inserted: the index is taken after the push.
InsertedOffByOne(filter, index) ==
    LET path == PathOf(filter)
        At(p) == IF p \in DOMAIN trie THEN trie[p] ELSE {}
    IN  [p \in DOMAIN trie \cup Prefixes(path) |->
            IF p = path THEN At(p) \cup {index + 1} ELSE At(p)]

\* TopicTrie::insert: missing nodes on the path are created.
Inserted(filter, index) ==
    LET path == PathOf(filter)
        At(p) == IF p \in DOMAIN trie THEN trie[p] ELSE {}
    IN  [p \in DOMAIN trie \cup Prefixes(path) |->
            IF p = path THEN At(p) \cup {index} ELSE At(p)]

\* Faulty variants of Removed: nothing is unlinked; a node is unlinked without a
\* look at its other children.
RemovedUnpruned(filter, index) ==
    IF filter \in DOMAIN trie THEN [trie EXCEPT ![filter] = @ \ {index}] ELSE trie

RemovedGreedily(filter, index) ==
    LET cleared == [p \in DOMAIN trie |-> trie[p] \ {index}]
        Unlinked == {q \in Prefixes(filter) \ {<<>>} : q \in DOMAIN trie /\ cleared[q] = {}}
    IN  [p \in {r \in DOMAIN trie : \A q \in Unlinked : ~IsPrefixOf(q, r)} |-> cleared[p]]

\* TopicTrie::remove_from_node walks all the levels of the filter, past a "#" too.
\* When the walk ends at a node, the index is taken out of it and the nodes on
\* the way back are unlinked as long as they have become empty.
Removed(filter, index) ==
    IF Prefixes(filter) \subseteq DOMAIN trie
    THEN LET cleared == [trie EXCEPT ![filter] = @ \ {index}]
             Unlinked == {q \in Prefixes(filter) \ {<<>>} :
                            \A p \in DOMAIN trie :
                                IsPrefixOf(q, p) => IsPrefixOf(p, filter) /\ cleared[p] = {}}
         IN  [p \in DOMAIN trie \ Unlinked |-> cleared[p]]
    ELSE trie

\* TopicTrie::match_node follows the literal child and the "+" child of every level;
\* a "#" child of a node on the way matches whatever is left.
Reached(path, topic) ==
    /\ Len(path) <= Len(topic)
    /\ \A i \in DOMAIN path : path[i] # "#" /\ path[i] \in {"+", topic[i]}

match_topic_indexes(topic) ==
    UNION {trie[p] : p \in {q \in DOMAIN trie :
        \/ Reached(q, topic) /\ Len(q) = Len(topic)
        \/ /\ q # <<>> /\ q[Len(q)] = "#"
           /\ Reached(SubSeq(q, 1, Len(q) - 1), topic)}}

-----------------------------------------------------------------------------
\* Faulty variant of ClearCache: the cache survives a change of the rules.
KeepCache == UNCHANGED <<entries, keys>>

\* TopicMatchCache::clear.
ClearCache == entries' = Nothing /\ keys' = <<>>

\* Faulty variant of SwapRemove: the last key is removed instead.
PopLast(s, i) == [j \in 1..(Len(s) - 1) |-> s[j]]

\* Vec::swap_remove: the last key takes the place of the evicted one.
SwapRemove(s, i) == [j \in 1..(Len(s) - 1) |-> IF j = i THEN s[Len(s)] ELSE s[j]]

\* The cache with one more topic.
With(e, topic, matched) ==
    [t \in DOMAIN e \cup {topic} |-> IF t = topic THEN matched ELSE e[t]]

\* TopicMatchCache::insert for a topic that is not cached; the victim is random.
InsertInCache(topic, matched) ==
    \/ /\ CacheCap = 0
       /\ UNCHANGED <<entries, keys>>
    \/ /\ CacheCap > 0
       /\ Cardinality(DOMAIN entries) < CacheCap
       /\ entries' = With(entries, topic, matched)
       /\ keys' = Append(keys, topic)
    \/ /\ CacheCap > 0
       /\ Cardinality(DOMAIN entries) >= CacheCap
       /\ \E i \in DOMAIN keys :
             /\ entries' = With([t \in DOMAIN entries \ {keys[i]} |-> entries[t]],
                                topic, matched)
             /\ keys' = Append(SwapRemove(keys, i), topic)

-----------------------------------------------------------------------------
\* add_rule of an expression that compiles; a rejected one changes nothing.  The id
\* is a hash of the expression alone: adding one twice redirects the id.
AddRule(expr) ==
    /\ Len(rules) < MaxRules
    /\ LET index == Len(rules) + 1
       IN  /\ idMap' = [e \in DOMAIN idMap \cup {expr} |->
                            IF e = expr THEN index ELSE idMap[e]]
           /\ trie' = Inserted(FilterOf[expr], index)
    /\ rules' = Append(rules, expr)
    /\ filters' = Append(filters, FilterOf[expr])
    /\ ClearCache
    /\ answer' = NoAnswer

\* Faulty variant of ForgetId: the id outlives the rule.
KeepId(id) == UNCHANGED idMap

\* remove_rule takes the id out of the map.
ForgetId(id) == idMap' = [e \in DOMAIN idMap \ {id} |-> idMap[e]]

\* remove_rule of a known id; an unknown one returns false and changes nothing.
RemoveRule(id) ==
    /\ id \in DOMAIN idMap
    /\ LET index == idMap[id]
       IN  /\ trie' = IF rules[index] # NoRule
                      THEN Removed(FilterOf[rules[index]], index)
                      ELSE trie
           /\ rules' = [rules EXCEPT ![index] = NoRule]
    /\ ForgetId(id)
    /\ ClearCache
    /\ answer' = NoAnswer
    /\ UNCHANGED filters

\* Faulty variant of Evaluated: an empty slot is not skipped.
EvaluatedAll(matched) == matched

\* evaluate_single_rule: a matched index whose slot is empty yields nothing.
Evaluated(matched) == matched \cap Live

\* evaluate: the matched indexes come from the cache or else from the trie.
Evaluate(topic) ==
    LET matched == IF topic \in DOMAIN entries
                   THEN entries[topic]
                   ELSE match_topic_indexes(topic)
    IN  /\ answer' = [topic |-> topic, rules |-> Evaluated(matched)]
        /\ IF topic \in DOMAIN entries
           THEN UNCHANGED <<entries, keys>>
           ELSE InsertInCache(topic, matched)
        /\ UNCHANGED <<rules, idMap, trie, filters>>

Next ==
    \/ \E expr \in Expressions : AddRule(expr) \/ RemoveRule(expr)
    \/ \E topic \in Topics : Evaluate(topic)

Spec == Init /\ [][Next]_vars

-----------------------------------------------------------------------------
Values(s) == {s[i] : i \in DOMAIN s}

\* Every variable keeps its type.
TypeOK ==
    /\ rules \in Seq(Expressions \cup {NoRule})
    /\ Len(rules) <= MaxRules
    /\ DOMAIN idMap \subseteq Expressions
    /\ \A e \in DOMAIN idMap : idMap[e] \in DOMAIN rules
    /\ <<>> \in DOMAIN trie
    /\ \A p \in DOMAIN trie : trie[p] \subseteq DOMAIN rules
    /\ DOMAIN entries \subseteq Topics
    /\ keys \in Seq(Topics)
    /\ filters \in Seq(Values(FilterOf)) /\ Len(filters) = Len(rules)

\* No stale match: whatever was added, removed, cached and evicted in between, a
\* cached topic holds what the trie would answer now.
CacheCoherent == \A t \in DOMAIN entries : entries[t] = match_topic_indexes(t)

\* The two halves of the cache describe the same topics, each once, within the
\* capacity: an eviction that forgot one half would leak or evict the wrong topic.
CacheKeysAgree ==
    /\ Values(keys) = DOMAIN entries
    /\ \A i, j \in DOMAIN keys : keys[i] = keys[j] => i = j
    /\ Len(keys) <= CacheCap

\* Incremental removal leaves no dead branch: below every node but the root some
\* rule index is kept.
TriePruned ==
    \A p \in DOMAIN trie \ {<<>>} :
        \E q \in DOMAIN trie : IsPrefixOf(p, q) /\ trie[q] # {}

\* Removal unlinks no more than it may: every live rule is found at its own path, and
\* an index is kept at one node only.
TrieKeepsLive ==
    /\ \A i \in Live : PathOf(filters[i]) \in DOMAIN trie /\ i \in trie[PathOf(filters[i])]
    /\ \A p \in DOMAIN trie : \A i \in trie[p] : p = PathOf(filters[i])

\* An id leads to a live rule with that expression, however often the expression was
\* added and removed before.
IdMapIsLive == \A e \in DOMAIN idMap : rules[idMap[e]] = e

\* remove_rule takes the rule out: an expression whose id is gone has no live rule.
\* (The test trie_removes_rules_incrementally expects no result after remove_rule.)
RemovedMeansGone == \A e \in Expressions \ DOMAIN idMap : \A i \in Live : rules[i] # e

-----------------------------------------------------------------------------
\* The engine implements the table of rules: trie, cache and eviction are invisible.
Table == INSTANCE RuleTable WITH
    Filters <- Values(FilterOf),
    size <- Len(rules),
    table <- [i \in Live |-> FilterOf[rules[i]]]

\* Refinement: evaluate answers with exactly the live rules that match the topic
\* according to match_topic, and a rule keeps its index for ever.
ImplementsRuleTable == Table!Spec
=============================================================================
