-------------------------- MODULE RuleEngineProofs --------------------------
(***************************************************************************)
(* Theorems about RuleEngine for any expressions, filters and topics and   *)
(* any cache capacity: its types, the coherence of the topic-match cache,  *)
(* the agreement of the cache's two halves and the id map; and about its   *)
(* topic trie: a removal prunes what it may and no more, a trie walk finds *)
(* the rules that match_topic names, and the engine implements the table   *)
(* of rules of RuleTable.                                                  *)
(***************************************************************************)
EXTENDS RuleEngine, FiniteSetTheorems, SequenceTheorems, WellFoundedInduction, TLAPS

\* The trie after an insertion and after a removal: the root stays, and the indexes
\* kept are those that were there and, after an insertion, the new one.
LEMMA InsertedTypes ==
    ASSUME NEW filter \in Seq(STRING), NEW index, NEW S,
           <<>> \in DOMAIN trie, \A p \in DOMAIN trie : trie[p] \subseteq S
    PROVE  /\ <<>> \in DOMAIN Inserted(filter, index)
           /\ \A p \in DOMAIN Inserted(filter, index) :
                 Inserted(filter, index)[p] \subseteq S \cup {index}
  BY DEF Inserted

\* Removal keeps the root and adds no index anywhere.
LEMMA RemovedTypes ==
    ASSUME NEW filter, NEW index, NEW S,
           <<>> \in DOMAIN trie, \A p \in DOMAIN trie : trie[p] \subseteq S
    PROVE  /\ <<>> \in DOMAIN Removed(filter, index)
           /\ \A p \in DOMAIN Removed(filter, index) : Removed(filter, index)[p] \subseteq S
<1> DEFINE cleared == [trie EXCEPT ![filter] = @ \ {index}]
           Unlinked == {q \in Prefixes(filter) \ {<<>>} :
                          \A p \in DOMAIN trie :
                              IsPrefixOf(q, p) => IsPrefixOf(p, filter) /\ cleared[p] = {}}
<1>1. CASE Prefixes(filter) \subseteq DOMAIN trie
  <2>1. Removed(filter, index) = [p \in DOMAIN trie \ Unlinked |-> cleared[p]]
    BY <1>1 DEF Removed
  <2>2. \A p \in DOMAIN trie : cleared[p] \subseteq S
    OBVIOUS
  <2>3. <<>> \notin Unlinked
    OBVIOUS
  <2> HIDE DEF cleared, Unlinked
  <2> QED
    BY <2>1, <2>2, <2>3
<1>2. CASE ~(Prefixes(filter) \subseteq DOMAIN trie)
  BY <1>2 DEF Removed
<1> QED
  BY <1>1, <1>2

\* SwapRemove takes exactly one key out of a vector of distinct keys.
LEMMA SwapRemoveKeys ==
    ASSUME NEW S, NEW s \in Seq(S), NEW i \in DOMAIN s,
           \A j, k \in DOMAIN s : s[j] = s[k] => j = k
    PROVE  /\ SwapRemove(s, i) \in Seq(S)
           /\ Len(SwapRemove(s, i)) = Len(s) - 1
           /\ Values(SwapRemove(s, i)) = Values(s) \ {s[i]}
           /\ \A j, k \in DOMAIN SwapRemove(s, i) :
                 SwapRemove(s, i)[j] = SwapRemove(s, i)[k] => j = k
<1> DEFINE r == SwapRemove(s, i)
           n == Len(s)
<1>1. n \in Nat /\ n > 0 /\ i \in 1..n /\ DOMAIN s = 1..n /\ n \in DOMAIN s
      /\ \A j \in 1..n : s[j] \in S
  OBVIOUS
<1>2. /\ DOMAIN r = 1..(n - 1)
      /\ \A j \in 1..(n - 1) : r[j] = IF j = i THEN s[n] ELSE s[j]
  BY DEF SwapRemove
<1> HIDE DEF r, n
<1>3. \A j \in 1..(n - 1) : r[j] \in S
  BY <1>1, <1>2
<1>4. r \in Seq(S) /\ Len(r) = n - 1
  <2>1. r = [j \in 1..(n - 1) |-> r[j]]
    BY DEF SwapRemove, r, n
  <2>2. n - 1 \in Nat
    BY <1>1
  <2> QED
    BY <1>3, <2>1, <2>2, IsASeq
<1>5. \A j \in 1..(n - 1) : r[j] # s[i]
  BY <1>1, <1>2
<1>6. \A j, k \in 1..(n - 1) : r[j] = r[k] => j = k
  BY <1>1, <1>2
<1>7. Values(r) \subseteq Values(s) \ {s[i]}
  <2> SUFFICES ASSUME NEW j \in 1..(n - 1)  PROVE r[j] \in Values(s) /\ r[j] # s[i]
    BY <1>2 DEF Values
  <2>1. r[j] \in {s[n], s[j]} /\ j \in DOMAIN s
    BY <1>1, <1>2
  <2> QED
    BY <1>1, <1>5, <2>1 DEF Values
<1>8. Values(s) \ {s[i]} \subseteq Values(r)
  <2> SUFFICES ASSUME NEW j \in 1..n, j # i  PROVE \E k \in 1..(n - 1) : r[k] = s[j]
    BY <1>1, <1>2 DEF Values
  <2>1. CASE j = n
    BY <1>1, <1>2, <2>1
  <2>2. CASE j # n
    BY <1>1, <1>2, <2>2
  <2> QED
    BY <2>1, <2>2
<1> QED
  BY <1>2, <1>4, <1>6, <1>7, <1>8 DEF r, n

\* A vector of distinct keys is as long as the set of its keys is large.
LEMMA DistinctKeys ==
    ASSUME NEW S, NEW s \in Seq(S), \A j, k \in DOMAIN s : s[j] = s[k] => j = k
    PROVE  Cardinality(Values(s)) = Len(s)
<1>1. s \in Bijection(1..Len(s), Values(s))
  BY DEF Bijection, Injection, Surjection, IsInjective, Values
<1>2. ExistsBijection(1..Len(s), Values(s))
  BY <1>1 DEF ExistsBijection
<1> QED
  BY <1>2, FS_CountingElements

\* One more key at the end of a vector that does not hold it.
LEMMA AppendKey ==
    ASSUME NEW S, NEW s \in Seq(S), NEW e \in S, e \notin Values(s),
           \A j, k \in DOMAIN s : s[j] = s[k] => j = k
    PROVE  /\ Append(s, e) \in Seq(S) /\ Len(Append(s, e)) = Len(s) + 1
           /\ Values(Append(s, e)) = Values(s) \cup {e}
           /\ \A j, k \in DOMAIN Append(s, e) : Append(s, e)[j] = Append(s, e)[k] => j = k
<1> DEFINE a == Append(s, e)
           n == Len(s)
<1>1. /\ n \in Nat /\ DOMAIN s = 1..n /\ DOMAIN a = 1..(n + 1) /\ Len(a) = n + 1 /\ a \in Seq(S)
      /\ a[n + 1] = e /\ \A j \in 1..n : a[j] = s[j]
  OBVIOUS
<1> HIDE DEF a, n
<1>2. \A j \in 1..n : a[j] # e
  BY <1>1 DEF Values
<1>3. \A j \in 1..(n + 1) : j \in 1..n \/ j = n + 1
  BY <1>1
<1>4. \A j, k \in DOMAIN a : a[j] = a[k] => j = k
  BY <1>1, <1>2, <1>3
<1>5. Values(a) = Values(s) \cup {e}
  <2>1. n + 1 \in DOMAIN a /\ \A j \in DOMAIN s : j \in DOMAIN a
    BY <1>1
  <2> QED
    BY <1>1, <1>3, <2>1 DEF Values
<1> QED
  BY <1>1, <1>4, <1>5 DEF a, n

-----------------------------------------------------------------------------
(***************************************************************************)
(* The cache.  Its two halves agree whatever evict, insert and clear do,   *)
(* and they never hold more than the capacity.                             *)
(***************************************************************************)
CacheInv == CacheKeysAgree /\ DOMAIN entries \subseteq Topics /\ keys \in Seq(Topics)

\* Clearing the cache keeps its halves in agreement.
LEMMA ClearKeepsCache == ClearCache => CacheInv'
  BY RuleEngineAssumption DEF ClearCache, Nothing, CacheInv, CacheKeysAgree, Values

\* So does an insertion, which adds the new topic at most and changes no entry it keeps.
LEMMA InsertKeepsCache ==
    ASSUME CacheInv, NEW topic \in Topics, topic \notin DOMAIN entries, NEW matched,
           InsertInCache(topic, matched)
    PROVE  /\ CacheInv'
           /\ \A t \in DOMAIN entries' :
                 \/ entries'[t] = matched /\ t = topic
                 \/ t \in DOMAIN entries /\ entries'[t] = entries[t]
<1> USE DEF CacheInv, CacheKeysAgree
<1>1. CASE UNCHANGED <<entries, keys>>
  BY <1>1 DEF Values
<1>2. CASE /\ Cardinality(DOMAIN entries) < CacheCap
           /\ entries' = With(entries, topic, matched)
           /\ keys' = Append(keys, topic)
  <2>1. Len(keys) + 1 <= CacheCap
    BY <1>2, DistinctKeys, RuleEngineAssumption
  <2>2. DOMAIN entries' = Values(keys) \cup {topic}
    BY <1>2 DEF With
  <2>3. /\ keys' \in Seq(Topics) /\ Len(keys') = Len(keys) + 1
        /\ Values(keys') = Values(keys) \cup {topic}
        /\ \A j, k \in DOMAIN keys' : keys'[j] = keys'[k] => j = k
    <3>1. /\ keys \in Seq(Topics) /\ topic \notin Values(keys)
          /\ \A j, k \in DOMAIN keys : keys[j] = keys[k] => j = k
      OBVIOUS
    <3>2. /\ Append(keys, topic) \in Seq(Topics) /\ Len(Append(keys, topic)) = Len(keys) + 1
          /\ Values(Append(keys, topic)) = Values(keys) \cup {topic}
          /\ \A j, k \in DOMAIN Append(keys, topic) :
                Append(keys, topic)[j] = Append(keys, topic)[k] => j = k
      BY ONLY <3>1, topic \in Topics, AppendKey
    <3>3. keys' = Append(keys, topic)
      BY <1>2
    <3> QED
      BY ONLY <3>2, <3>3
  <2>4. \A t \in DOMAIN entries' :
           \/ entries'[t] = matched /\ t = topic
           \/ t \in DOMAIN entries /\ entries'[t] = entries[t]
    BY <1>2 DEF With
  <2>5. CacheInv'
    <3>1. Values(keys') = DOMAIN entries' /\ DOMAIN entries' \subseteq Topics
      BY <2>2, <2>3
    <3>2. Len(keys') <= CacheCap
      BY <2>1, <2>3
    <3> QED
      BY ONLY <2>3, <3>1, <3>2 DEF CacheInv, CacheKeysAgree, Values
  <2> QED
    BY <2>4, <2>5
<1>3. CASE \E i \in DOMAIN keys :
              /\ entries' = With([t \in DOMAIN entries \ {keys[i]} |-> entries[t]], topic, matched)
              /\ keys' = Append(SwapRemove(keys, i), topic)
  <2>1. PICK i \in DOMAIN keys :
              /\ entries' = With([t \in DOMAIN entries \ {keys[i]} |-> entries[t]], topic, matched)
              /\ keys' = Append(SwapRemove(keys, i), topic)
    BY <1>3
  <2> DEFINE s == SwapRemove(keys, i)
  <2>2. /\ s \in Seq(Topics) /\ Len(s) = Len(keys) - 1 /\ Values(s) = Values(keys) \ {keys[i]}
        /\ \A j, k \in DOMAIN s : s[j] = s[k] => j = k
    BY SwapRemoveKeys
  <2>3. topic \notin Values(s) /\ keys' = Append(s, topic)
    BY <2>1, <2>2
  <2>4. DOMAIN entries' = Values(s) \cup {topic}
    BY <2>1, <2>2 DEF With
  <2> HIDE DEF s
  <2>5. /\ keys' \in Seq(Topics) /\ Len(keys') = Len(s) + 1
        /\ Values(keys') = Values(s) \cup {topic}
        /\ \A j, k \in DOMAIN keys' : keys'[j] = keys'[k] => j = k
    <3>1. /\ Append(s, topic) \in Seq(Topics) /\ Len(Append(s, topic)) = Len(s) + 1
          /\ Values(Append(s, topic)) = Values(s) \cup {topic}
          /\ \A j, k \in DOMAIN Append(s, topic) :
                Append(s, topic)[j] = Append(s, topic)[k] => j = k
      BY ONLY <2>2, topic \notin Values(s), topic \in Topics, AppendKey
    <3> QED
      BY <2>3, <3>1
  <2>6. Len(keys') <= CacheCap
    BY <2>2, <2>5
  <2>7. \A t \in DOMAIN entries' :
           \/ entries'[t] = matched /\ t = topic
           \/ t \in DOMAIN entries /\ entries'[t] = entries[t]
    <3> DEFINE kept == [t \in DOMAIN entries \ {keys[i]} |-> entries[t]]
    <3>1. entries' = With(kept, topic, matched)
      BY <2>1
    <3>2. \A t \in DOMAIN kept : t \in DOMAIN entries /\ kept[t] = entries[t]
      OBVIOUS
    <3> HIDE DEF kept
    <3> QED
      BY ONLY <3>1, <3>2 DEF With
  <2>8. CacheInv'
    <3>1. Values(keys') = DOMAIN entries' /\ DOMAIN entries' \subseteq Topics
      BY <2>2, <2>4, <2>5
    <3> QED
      BY ONLY <2>5, <2>6, <3>1 DEF CacheInv, CacheKeysAgree, Values
  <2> QED
    BY <2>7, <2>8
<1> QED
  BY <1>1, <1>2, <1>3 DEF InsertInCache

\* Hence they agree in every reachable state.
LEMMA CacheInvariant == Spec => []CacheInv
<1>1. Init => CacheInv
  BY RuleEngineAssumption DEF Init, Nothing, CacheInv, CacheKeysAgree, Values
<1>2. CacheInv /\ [Next]_vars => CacheInv'
  <2> SUFFICES ASSUME CacheInv, [Next]_vars  PROVE CacheInv'
    OBVIOUS
  <2>1. ASSUME NEW expr \in Expressions, AddRule(expr) \/ RemoveRule(expr)  PROVE CacheInv'
    BY <2>1, ClearKeepsCache DEF AddRule, RemoveRule
  <2>2. ASSUME NEW topic \in Topics, Evaluate(topic)  PROVE CacheInv'
    <3>1. CASE topic \in DOMAIN entries
      <4>1. UNCHANGED <<entries, keys>>
        BY <2>2, <3>1 DEF Evaluate
      <4> QED
        BY <4>1 DEF CacheInv, CacheKeysAgree, Values
    <3>2. CASE topic \notin DOMAIN entries
      BY <2>2, <3>2, InsertKeepsCache DEF Evaluate
    <3> QED
      BY <3>1, <3>2
  <2>3. CASE UNCHANGED vars
    BY <2>3 DEF vars, CacheInv, CacheKeysAgree, Values
  <2> QED
    BY <2>1, <2>2, <2>3 DEF Next
<1> QED
  BY <1>1, <1>2, PTL DEF Spec

\* The map and the key vector of the cache hold the same topics, each once, and no
\* more of them than topic_cache_capacity.
THEOREM CacheHalvesAgree == Spec => []CacheKeysAgree
  BY CacheInvariant, PTL DEF CacheInv

\* No stale match: a cached topic holds what the trie answers now, because every
\* change of the rules clears the cache and an insertion stores the trie's answer.
THEOREM NoStaleMatch == Spec => []CacheCoherent
<1>1. Init => CacheCoherent
  BY DEF Init, Nothing, CacheCoherent
<1>2. CacheInv /\ CacheCoherent /\ [Next]_vars => CacheCoherent'
  <2> SUFFICES ASSUME CacheInv, CacheCoherent, [Next]_vars  PROVE CacheCoherent'
    OBVIOUS
  <2>1. ASSUME NEW expr \in Expressions, AddRule(expr) \/ RemoveRule(expr)
        PROVE  CacheCoherent'
    BY <2>1 DEF AddRule, RemoveRule, ClearCache, Nothing, CacheCoherent
  <2>2. ASSUME NEW topic \in Topics, Evaluate(topic)  PROVE CacheCoherent'
    <3>1. trie' = trie
      BY <2>2 DEF Evaluate
    <3>2. \A t : match_topic_indexes(t)' = match_topic_indexes(t)
      BY <3>1 DEF match_topic_indexes
    <3>3. CASE topic \in DOMAIN entries
      BY <2>2, <3>2, <3>3 DEF Evaluate, CacheCoherent
    <3>4. CASE topic \notin DOMAIN entries
      <4>1. InsertInCache(topic, match_topic_indexes(topic))
        BY <2>2, <3>4 DEF Evaluate
      <4>2. \A t \in DOMAIN entries' :
               \/ entries'[t] = match_topic_indexes(topic) /\ t = topic
               \/ t \in DOMAIN entries /\ entries'[t] = entries[t]
        BY <3>4, <4>1, InsertKeepsCache
      <4> QED
        BY <3>2, <4>2 DEF CacheCoherent
    <3> QED
      BY <3>3, <3>4
  <2>3. CASE UNCHANGED vars
    BY <2>3 DEF vars, CacheCoherent, match_topic_indexes
  <2> QED
    BY <2>1, <2>2, <2>3 DEF Next
<1> QED
  BY <1>1, <1>2, CacheInvariant, PTL DEF Spec

-----------------------------------------------------------------------------
\* Every variable keeps its type: the vector of rules only grows at its end, and the
\* trie and the id map only name indexes of that vector.
THEOREM TypeCorrect == Spec => []TypeOK
<1>1. Init => TypeOK
  BY RuleEngineAssumption DEF Init, TypeOK, Nothing
<1>2. TypeOK /\ CacheInv' /\ [Next]_vars => TypeOK'
  <2> SUFFICES ASSUME TypeOK, CacheInv', [Next]_vars  PROVE TypeOK'
    OBVIOUS
  <2>t. /\ rules \in Seq(Expressions \cup {NoRule}) /\ Len(rules) \in Nat /\ Len(rules) <= MaxRules
        /\ DOMAIN idMap \subseteq Expressions /\ \A e \in DOMAIN idMap : idMap[e] \in DOMAIN rules
        /\ <<>> \in DOMAIN trie /\ \A p \in DOMAIN trie : trie[p] \subseteq DOMAIN rules
        /\ filters \in Seq(Values(FilterOf)) /\ Len(filters) = Len(rules)
    BY DEF TypeOK
  <2>c. DOMAIN entries' \subseteq Topics /\ keys' \in Seq(Topics)
    BY DEF CacheInv
  <2>1. ASSUME NEW expr \in Expressions, AddRule(expr)  PROVE TypeOK'
    <3> DEFINE index == Len(rules) + 1
    <3>1. FilterOf[expr] \in Seq(STRING) /\ FilterOf[expr] \in Values(FilterOf)
      BY RuleEngineAssumption DEF Values
    <3>2. /\ Len(rules) < MaxRules /\ rules' = Append(rules, expr)
          /\ filters' = Append(filters, FilterOf[expr])
          /\ trie' = Inserted(FilterOf[expr], index)
          /\ idMap' = [e \in DOMAIN idMap \cup {expr} |-> IF e = expr THEN index ELSE idMap[e]]
      BY <2>1 DEF AddRule
    <3>3. /\ rules' \in Seq(Expressions \cup {NoRule}) /\ Len(rules') = index
          /\ index <= MaxRules
          /\ DOMAIN rules' = DOMAIN rules \cup {index}
      BY <2>t, <3>2, RuleEngineAssumption
    <3>4. filters' \in Seq(Values(FilterOf)) /\ Len(filters') = Len(rules')
      <4>1. filters \in Seq(Values(FilterOf)) /\ Len(filters) = Len(rules)
        BY <2>t
      <4> QED
        BY <3>1, <3>2, <3>3, <4>1
    <3> HIDE DEF index
    <3>5. DOMAIN idMap' \subseteq Expressions /\ \A e \in DOMAIN idMap' : idMap'[e] \in DOMAIN rules'
      BY <2>t, <3>2, <3>3
    <3>6. <<>> \in DOMAIN trie' /\ \A p \in DOMAIN trie' : trie'[p] \subseteq DOMAIN rules'
      BY <2>t, <3>1, <3>2, <3>3, InsertedTypes
    <3> QED
      BY <2>c, <3>3, <3>4, <3>5, <3>6 DEF TypeOK
  <2>2. ASSUME NEW id \in Expressions, RemoveRule(id)  PROVE TypeOK'
    <3> DEFINE index == idMap[id]
    <3>1. /\ index \in DOMAIN rules /\ rules' = [rules EXCEPT ![index] = NoRule]
          /\ filters' = filters
          /\ idMap' = [e \in DOMAIN idMap \ {id} |-> idMap[e]]
          /\ trie' = trie \/ trie' = Removed(FilterOf[rules[index]], index)
      BY <2>t, <2>2 DEF RemoveRule, ForgetId
    <3> HIDE DEF index
    <3>2. rules' \in Seq(Expressions \cup {NoRule}) /\ Len(rules') = Len(rules) /\ DOMAIN rules' = DOMAIN rules
      BY <2>t, <3>1
    <3>3. DOMAIN idMap' \subseteq Expressions /\ \A e \in DOMAIN idMap' : idMap'[e] \in DOMAIN rules'
      BY <2>t, <3>1, <3>2
    <3>4. <<>> \in DOMAIN trie' /\ \A p \in DOMAIN trie' : trie'[p] \subseteq DOMAIN rules'
      BY <2>t, <3>1, <3>2, RemovedTypes
    <3> QED
      BY <2>c, <2>t, <3>1, <3>2, <3>3, <3>4 DEF TypeOK
  <2>3. ASSUME NEW topic \in Topics, Evaluate(topic)  PROVE TypeOK'
    BY <2>c, <2>t, <2>3 DEF Evaluate, TypeOK
  <2>4. CASE UNCHANGED vars
    BY <2>4 DEF vars, TypeOK
  <2> QED
    BY <2>1, <2>2, <2>3, <2>4 DEF Next
<1> QED
  BY <1>1, <1>2, CacheInvariant, PTL DEF Spec

\* remove_rule cannot miss: an id of the map leads to a live slot that holds the
\* expression the id was computed from, after any history of additions and removals.
THEOREM IdsAreLive == Spec => []IdMapIsLive
<1>1. Init => IdMapIsLive
  BY DEF Init, IdMapIsLive, Nothing
<1>2. TypeOK /\ IdMapIsLive /\ [Next]_vars => IdMapIsLive'
  <2> SUFFICES ASSUME TypeOK, IdMapIsLive, [Next]_vars  PROVE IdMapIsLive'
    OBVIOUS
  <2>t. /\ rules \in Seq(Expressions \cup {NoRule})
        /\ DOMAIN idMap \subseteq Expressions /\ \A e \in DOMAIN idMap : idMap[e] \in DOMAIN rules
    BY DEF TypeOK
  <2>1. ASSUME NEW expr \in Expressions, AddRule(expr)  PROVE IdMapIsLive'
    <3>1. /\ rules' = Append(rules, expr)
          /\ idMap' = [e \in DOMAIN idMap \cup {expr} |-> IF e = expr THEN Len(rules) + 1 ELSE idMap[e]]
      BY <2>1 DEF AddRule
    <3>2. rules'[Len(rules) + 1] = expr /\ \A i \in DOMAIN rules : rules'[i] = rules[i]
      BY <2>t, <3>1
    <3> QED
      BY <2>t, <3>1, <3>2 DEF IdMapIsLive
  <2>2. ASSUME NEW id \in Expressions, RemoveRule(id)  PROVE IdMapIsLive'
    <3>1. /\ id \in DOMAIN idMap /\ rules' = [rules EXCEPT ![idMap[id]] = NoRule]
          /\ idMap' = [e \in DOMAIN idMap \ {id} |-> idMap[e]]
      BY <2>2 DEF RemoveRule, ForgetId
    <3>2. \A e \in DOMAIN idMap' : idMap[e] # idMap[id]
      BY <3>1 DEF IdMapIsLive
    <3> QED
      BY <2>t, <3>1, <3>2 DEF IdMapIsLive
  <2>3. CASE (\E topic \in Topics : Evaluate(topic)) \/ UNCHANGED vars
    BY <2>3 DEF Evaluate, vars, IdMapIsLive
  <2> QED
    BY <2>1, <2>2, <2>3 DEF Next
<1> QED
  BY <1>1, <1>2, TypeCorrect, PTL DEF Spec

-----------------------------------------------------------------------------
\* A set of natural numbers that is not empty has a least element.
LEMMA LeastElement ==
    ASSUME NEW T \in SUBSET Nat, T # {}
    PROVE  \E m \in T : \A k \in T : m <= k
<1>1. PICK m \in T : \A k \in T : ~(<<k, m>> \in OpToRel(<, Nat))
  BY NatLessThanWellFounded, WFMin
<1>2. \A k \in T : ~(k < m)
  BY <1>1 DEF OpToRel
<1> QED
  BY <1>2

-----------------------------------------------------------------------------
(***************************************************************************)
(* Nodes of the trie are paths from the root, so a node is below another   *)
(* one when the other's path is a prefix of its own.                       *)
(***************************************************************************)

\* A prefix is shorter and agrees level by level.
LEMMA PrefixMeans ==
    ASSUME NEW S, NEW s \in Seq(S), NEW p \in Prefixes(s)
    PROVE  /\ p \in Seq(S) /\ Len(p) <= Len(s)
           /\ \A i \in 1..Len(p) : p[i] = s[i]
<1>1. PICK n \in 0..Len(s) : p = SubSeq(s, 1, n)
  BY DEF Prefixes
<1>2. n \in Int /\ \A i \in 1..n : s[i] \in S
  OBVIOUS
<1>3. /\ SubSeq(s, 1, n) \in Seq(S)
      /\ Len(SubSeq(s, 1, n)) = IF 1 <= n THEN n - 1 + 1 ELSE 0
      /\ \A i \in 1..(n - 1 + 1) : SubSeq(s, 1, n)[i] = s[1 + i - 1]
  BY ONLY <1>2, 1 \in Int, SubSeqProperties
<1>4. Len(p) = n /\ p \in Seq(S)
  BY <1>1, <1>3
<1>5. \A i \in 1..n : p[i] = s[i]
  BY <1>1, <1>3
<1> QED
  BY <1>4, <1>5

\* A shorter sequence that agrees level by level is a prefix.
LEMMA PrefixFrom ==
    ASSUME NEW S, NEW s \in Seq(S), NEW p \in Seq(S), Len(p) <= Len(s),
           \A i \in 1..Len(p) : p[i] = s[i]
    PROVE  p \in Prefixes(s)
<1>1. Len(p) \in 0..Len(s) /\ SubSeq(s, 1, Len(p)) \in Prefixes(s)
  BY DEF Prefixes
<1>2. /\ SubSeq(s, 1, Len(p)) \in Seq(S) /\ Len(SubSeq(s, 1, Len(p))) <= Len(s)
      /\ \A i \in 1..Len(SubSeq(s, 1, Len(p))) : SubSeq(s, 1, Len(p))[i] = s[i]
  BY <1>1, PrefixMeans
<1>3. Len(SubSeq(s, 1, Len(p))) = Len(p)
  BY <1>1
<1>4. p = SubSeq(s, 1, Len(p))
  BY <1>2, <1>3, SeqEqual
<1> QED
  BY <1>1, <1>4

\* The root is a prefix of every path, and every path one of itself.
LEMMA PrefixEnds ==
    ASSUME NEW S, NEW s \in Seq(S)
    PROVE  <<>> \in Prefixes(s) /\ s \in Prefixes(s)
<1>1. <<>> \in Seq(S) /\ Len(<<>>) = 0 /\ Len(s) \in Nat
  OBVIOUS
<1>2. Len(<<>>) <= Len(s) /\ \A i \in 1..Len(<<>>) : <<>>[i] = s[i]
  BY <1>1
<1>3. <<>> \in Prefixes(s)
  BY <1>1, <1>2, PrefixFrom
<1>4. s \in Prefixes(s)
  BY <1>1, PrefixFrom
<1> QED
  BY <1>3, <1>4

\* A node above a node that is above a third one is above the third one.
LEMMA PrefixChain ==
    ASSUME NEW S, NEW s \in Seq(S), NEW q \in Prefixes(s), NEW p \in Prefixes(q)
    PROVE  p \in Prefixes(s)
<1>1. /\ q \in Seq(S) /\ Len(q) <= Len(s) /\ \A i \in 1..Len(q) : q[i] = s[i]
  BY PrefixMeans
<1>2. /\ p \in Seq(S) /\ Len(p) <= Len(q) /\ \A i \in 1..Len(p) : p[i] = q[i]
  BY <1>1, PrefixMeans
<1>3. Len(p) <= Len(s) /\ \A i \in 1..Len(p) : p[i] = s[i]
  BY <1>1, <1>2
<1> QED
  BY <1>2, <1>3, PrefixFrom

\* Only the root is above the root.
LEMMA NothingAboveRoot ==
    ASSUME NEW p \in Prefixes(<<>>)
    PROVE  p = <<>>
<1>1. <<>> \in Seq(STRING) /\ Len(<<>>) = 0
  OBVIOUS
<1>2. p \in Seq(STRING) /\ Len(p) <= 0
  BY <1>1, PrefixMeans
<1> QED
  BY <1>2

-----------------------------------------------------------------------------
(***************************************************************************)
(* The path that insert makes for a filter: it ends at the first "#".      *)
(***************************************************************************)
IsPathOf(p, filter) ==
    /\ p \in Prefixes(filter)
    /\ \A i \in 1..(Len(p) - 1) : p[i] # "#"
    /\ p = filter \/ (p # <<>> /\ p[Len(p)] = "#")

\* Every filter has such a path.
LEMMA PathExists ==
    ASSUME NEW filter \in Seq(STRING)
    PROVE  \E p : IsPathOf(p, filter)
<1> DEFINE H == {i \in DOMAIN filter : filter[i] = "#"}
<1>1. CASE H = {}
  <2>1. filter \in Prefixes(filter)
    BY PrefixEnds
  <2>2. \A i \in 1..(Len(filter) - 1) : filter[i] # "#"
    <3>1. \A i \in 1..(Len(filter) - 1) : i \in DOMAIN filter
      OBVIOUS
    <3> QED
      BY <1>1, <3>1
  <2> QED
    BY <2>1, <2>2 DEF IsPathOf
<1>2. CASE H # {}
  <2>1. H \in SUBSET Nat
    OBVIOUS
  <2>2. PICK h \in H : \A k \in H : h <= k
    BY ONLY <1>2, <2>1, LeastElement
  <2>3. h \in 1..Len(filter) /\ filter[h] = "#"
    OBVIOUS
  <2> DEFINE p == SubSeq(filter, 1, h)
  <2>4. p \in Prefixes(filter) /\ Len(p) = h
    BY <2>3 DEF Prefixes
  <2>5. p \in Seq(STRING) /\ \A i \in 1..Len(p) : p[i] = filter[i]
    BY <2>4, PrefixMeans
  <2>6. \A i \in 1..(h - 1) : filter[i] # "#"
    <3> SUFFICES ASSUME NEW i \in 1..(h - 1), filter[i] = "#"  PROVE FALSE
      OBVIOUS
    <3>1. i \in DOMAIN filter
      BY <2>3
    <3>2. i \in H
      BY <3>1
    <3> QED
      BY <2>2, <2>3, <3>2
  <2> HIDE DEF p, H
  <2>7. p # <<>> /\ p[Len(p)] = "#" /\ \A i \in 1..(Len(p) - 1) : p[i] # "#"
    BY <2>3, <2>4, <2>5, <2>6
  <2> QED
    BY <2>4, <2>7 DEF IsPathOf
<1> QED
  BY <1>1, <1>2

\* And only one, PathOf(filter).
LEMMA PathIsUnique ==
    ASSUME NEW filter \in Seq(STRING), NEW p, NEW q, IsPathOf(p, filter), IsPathOf(q, filter)
    PROVE  p = q
<1>1. /\ p \in Seq(STRING) /\ Len(p) <= Len(filter) /\ \A i \in 1..Len(p) : p[i] = filter[i]
      /\ q \in Seq(STRING) /\ Len(q) <= Len(filter) /\ \A i \in 1..Len(q) : q[i] = filter[i]
  BY PrefixMeans DEF IsPathOf
<1>2. ~(Len(p) < Len(q))
  <2> SUFFICES ASSUME Len(p) < Len(q)  PROVE FALSE
    OBVIOUS
  <2>1. p # filter /\ p # <<>> /\ p[Len(p)] = "#"
    BY <1>1 DEF IsPathOf
  <2>2. Len(p) \in 1..Len(p) /\ Len(p) \in 1..Len(q) /\ Len(p) \in 1..(Len(q) - 1)
    BY <1>1, <2>1
  <2>3. q[Len(p)] = "#"
    BY <1>1, <2>1, <2>2
  <2> QED
    BY <2>2, <2>3 DEF IsPathOf
<1>3. ~(Len(q) < Len(p))
  <2> SUFFICES ASSUME Len(q) < Len(p)  PROVE FALSE
    OBVIOUS
  <2>1. q # filter /\ q # <<>> /\ q[Len(q)] = "#"
    BY <1>1 DEF IsPathOf
  <2>2. Len(q) \in 1..Len(q) /\ Len(q) \in 1..Len(p) /\ Len(q) \in 1..(Len(p) - 1)
    BY <1>1, <2>1
  <2>3. p[Len(q)] = "#"
    BY <1>1, <2>1, <2>2
  <2> QED
    BY <2>2, <2>3 DEF IsPathOf
<1>4. Len(p) = Len(q)
  BY <1>1, <1>2, <1>3
<1> QED
  BY <1>1, <1>4, SeqEqual

\* PathOf picks that path: the filter up to its first "#".
LEMMA PathMeans ==
    ASSUME NEW filter \in Seq(STRING)
    PROVE  /\ IsPathOf(PathOf(filter), filter)
           /\ PathOf(filter) \in Seq(STRING) /\ Len(PathOf(filter)) <= Len(filter)
           /\ \A i \in 1..Len(PathOf(filter)) : PathOf(filter)[i] = filter[i]
<1>1. \E p \in Prefixes(filter) :
        /\ \A i \in 1..(Len(p) - 1) : p[i] # "#"
        /\ p = filter \/ (p # <<>> /\ p[Len(p)] = "#")
  BY PathExists DEF IsPathOf
<1>2. IsPathOf(PathOf(filter), filter)
  BY <1>1 DEF PathOf, IsPathOf
<1> QED
  BY <1>2, PrefixMeans DEF IsPathOf

-----------------------------------------------------------------------------
(***************************************************************************)
(* The trie.  Every node is reached through nodes, and no level of a path  *)
(* but the last is a "#"; below every node a rule is kept; every live rule *)
(* is kept at the end of its path, and the filter it was added with is the *)
(* filter that remove_rule walks.  An index whose removal found no node    *)
(* (its filter goes on after a "#") stays where it is.                     *)
(***************************************************************************)
ShapeInv ==
    \A p \in DOMAIN trie :
        /\ p \in Seq(STRING)
        /\ Prefixes(p) \subseteq DOMAIN trie
        /\ \A i \in 1..(Len(p) - 1) : p[i] # "#"

FilterInv == \A i \in Live : filters[i] = FilterOf[rules[i]]

TrieInv == ShapeInv /\ TriePruned /\ TrieKeepsLive /\ FilterInv

\* An insertion adds the nodes of one path and an index at its end.
LEMMA InsertedNodes ==
    ASSUME NEW filter \in Seq(STRING), NEW index, ShapeInv
    PROVE  /\ DOMAIN Inserted(filter, index) = DOMAIN trie \cup Prefixes(PathOf(filter))
           /\ PathOf(filter) \in DOMAIN Inserted(filter, index)
           /\ index \in Inserted(filter, index)[PathOf(filter)]
           /\ \A p \in DOMAIN trie : trie[p] \subseteq Inserted(filter, index)[p]
           /\ \A p \in DOMAIN Inserted(filter, index) : \A i \in Inserted(filter, index)[p] :
                 \/ i = index /\ p = PathOf(filter)
                 \/ p \in DOMAIN trie /\ i \in trie[p]
<1>1. PathOf(filter) \in Prefixes(PathOf(filter))
  BY PathMeans, PrefixEnds
<1> QED
  BY <1>1 DEF Inserted

\* It leaves the trie in shape and pruned.
LEMMA InsertedShape ==
    ASSUME NEW filter \in Seq(STRING), NEW index, ShapeInv, TriePruned,
           trie' = Inserted(filter, index)
    PROVE  ShapeInv' /\ TriePruned'
<1> DEFINE path == PathOf(filter)
<1>1. /\ path \in Seq(STRING) /\ \A i \in 1..(Len(path) - 1) : path[i] # "#"
  BY PathMeans DEF IsPathOf
<1>2. /\ DOMAIN trie' = DOMAIN trie \cup Prefixes(path)
      /\ path \in DOMAIN trie' /\ index \in trie'[path]
      /\ \A p \in DOMAIN trie : trie[p] \subseteq trie'[p]
  BY InsertedNodes
<1> HIDE DEF path
<1>3. ShapeInv'
  <2>1. ASSUME NEW p \in Prefixes(path)
        PROVE  /\ p \in Seq(STRING) /\ Prefixes(p) \subseteq Prefixes(path)
               /\ \A i \in 1..(Len(p) - 1) : p[i] # "#"
    <3>1. p \in Seq(STRING) /\ Len(p) <= Len(path) /\ \A i \in 1..Len(p) : p[i] = path[i]
      BY <1>1, PrefixMeans
    <3>2. \A i \in 1..(Len(p) - 1) : p[i] # "#"
      BY <1>1, <3>1
    <3>3. Prefixes(p) \subseteq Prefixes(path)
      BY <1>1, PrefixChain
    <3> QED
      BY <3>1, <3>2, <3>3
  <2> QED
    BY <1>2, <2>1 DEF ShapeInv
<1>4. TriePruned'
  <2> SUFFICES ASSUME NEW p \in DOMAIN trie' \ {<<>>}
               PROVE  \E q \in DOMAIN trie' : IsPrefixOf(p, q) /\ trie'[q] # {}
    BY DEF TriePruned
  <2>1. CASE p \in DOMAIN trie
    <3>1. PICK q \in DOMAIN trie : IsPrefixOf(p, q) /\ trie[q] # {}
      BY <2>1 DEF TriePruned
    <3> QED
      BY <1>2, <3>1
  <2>2. CASE p \in Prefixes(path)
    BY <1>2, <2>2 DEF IsPrefixOf
  <2> QED
    BY <1>2, <2>1, <2>2
<1> QED
  BY <1>3, <1>4

\* The nodes that a removal unlinks, when its walk ends at a node.
Cleared(filter, index) == [trie EXCEPT ![filter] = @ \ {index}]

Unlinkable(filter, index) ==
    {q \in Prefixes(filter) \ {<<>>} :
        \A p \in DOMAIN trie :
            IsPrefixOf(q, p) => IsPrefixOf(p, filter) /\ Cleared(filter, index)[p] = {}}

Unlinked(filter, index) ==
    [p \in DOMAIN trie \ Unlinkable(filter, index) |-> Cleared(filter, index)[p]]

\* A removal changes nothing, or it clears one node and unlinks dead ones; an index
\* other than the removed one stays where it is.
LEMMA RemovedNodes ==
    ASSUME NEW filter, NEW index
    PROVE  \/ Removed(filter, index) = trie
           \/ /\ Prefixes(filter) \subseteq DOMAIN trie
              /\ Removed(filter, index) = Unlinked(filter, index)
  BY DEF Removed, Unlinked, Unlinkable, Cleared

\* So removal adds nothing and takes nothing away but the removed index.
LEMMA RemovedKeeps ==
    ASSUME NEW filter \in Seq(STRING), NEW index, ShapeInv
    PROVE  /\ DOMAIN Removed(filter, index) \subseteq DOMAIN trie
           /\ \A p \in DOMAIN Removed(filter, index) : Removed(filter, index)[p] \subseteq trie[p]
           /\ \A p \in DOMAIN trie : \A i \in trie[p] :
                 i # index => p \in DOMAIN Removed(filter, index) /\ i \in Removed(filter, index)[p]
<1>1. CASE Removed(filter, index) = trie
  BY <1>1
<1>2. CASE Removed(filter, index) = Unlinked(filter, index)
  <2>1. \A p \in DOMAIN trie : Cleared(filter, index)[p] \subseteq trie[p]
    BY DEF Cleared
  <2>2. \A p \in DOMAIN trie : \A i \in trie[p] : i # index => i \in Cleared(filter, index)[p]
    BY DEF Cleared
  <2>3. \A p \in DOMAIN trie : \A i \in trie[p] : i # index => p \notin Unlinkable(filter, index)
    <3> SUFFICES ASSUME NEW p \in DOMAIN trie, NEW i \in trie[p], i # index,
                        p \in Unlinkable(filter, index)
                 PROVE  FALSE
      OBVIOUS
    <3>1. IsPrefixOf(p, p)
      BY PrefixEnds DEF ShapeInv, IsPrefixOf
    <3> QED
      BY <2>2, <3>1 DEF Unlinkable
  <2> QED
    BY <1>2, <2>1, <2>2, <2>3 DEF Unlinked
<1> QED
  BY <1>1, <1>2, RemovedNodes

\* A removal leaves the trie in shape and pruned: a node is unlinked with everything
\* below it, and one that has lost its last rule is unlinked with it.
LEMMA RemovedShape ==
    ASSUME NEW filter \in Seq(STRING), NEW index, ShapeInv, TriePruned,
           trie' = Removed(filter, index)
    PROVE  ShapeInv' /\ TriePruned'
<1>1. CASE trie' = trie
  BY <1>1 DEF ShapeInv, TriePruned
<1>2. CASE /\ Prefixes(filter) \subseteq DOMAIN trie
           /\ trie' = Unlinked(filter, index)
  <2> DEFINE cleared == Cleared(filter, index)
             dead == Unlinkable(filter, index)
  <2>1. DOMAIN trie' = DOMAIN trie \ dead /\ \A p \in DOMAIN trie' : trie'[p] = cleared[p]
    BY <1>2 DEF Unlinked
  <2>2. \A p \in DOMAIN trie : p # filter => cleared[p] = trie[p]
    BY DEF Cleared
  <2>3. \A q \in dead : /\ q \in Prefixes(filter) /\ q # <<>>
                        /\ \A p \in DOMAIN trie :
                              IsPrefixOf(q, p) => IsPrefixOf(p, filter) /\ cleared[p] = {}
    BY DEF Unlinkable
  <2>4. \A q \in Prefixes(filter) : q # <<>> /\ q \notin dead =>
           \E p \in DOMAIN trie : IsPrefixOf(q, p) /\ ~(IsPrefixOf(p, filter) /\ cleared[p] = {})
    BY DEF Unlinkable
  <2>5. \A p \in DOMAIN trie : p \in Seq(STRING) /\ IsPrefixOf(p, p)
    BY PrefixEnds DEF ShapeInv, IsPrefixOf
  <2>6. \A s \in DOMAIN trie : \A p, q : IsPrefixOf(q, s) /\ IsPrefixOf(p, q) => IsPrefixOf(p, s)
    BY <2>5, PrefixChain DEF IsPrefixOf
  <2>7. \A q \in DOMAIN trie : cleared[q] # {} => q \in DOMAIN trie' /\ trie'[q] # {}
    BY <2>1, <2>3, <2>5
  <2> HIDE DEF cleared, dead
  <2>8. ShapeInv'
    <3> SUFFICES ASSUME NEW p \in DOMAIN trie', NEW r \in Prefixes(p)
                 PROVE  r \in DOMAIN trie'
      BY <2>1 DEF ShapeInv
    <3>1. p \in DOMAIN trie /\ p \notin dead /\ r \in DOMAIN trie /\ IsPrefixOf(r, p)
      BY <2>1 DEF ShapeInv, IsPrefixOf
    <3>2. ASSUME r \in dead  PROVE FALSE
      <4>1. IsPrefixOf(p, filter)
        BY <2>3, <3>1, <3>2
      <4>2. p # <<>>
        BY <2>3, <3>1, <3>2, NothingAboveRoot DEF IsPrefixOf
      <4>3. PICK s \in DOMAIN trie : IsPrefixOf(p, s) /\ ~(IsPrefixOf(s, filter) /\ cleared[s] = {})
        BY <2>4, <3>1, <4>1, <4>2 DEF IsPrefixOf
      <4>4. IsPrefixOf(r, s)
        BY <2>6, <3>1, <4>3
      <4> QED
        BY <2>3, <3>2, <4>3, <4>4
    <3> QED
      BY <2>1, <3>1, <3>2
  <2>9. TriePruned'
    <3> SUFFICES ASSUME NEW p \in DOMAIN trie' \ {<<>>}
                 PROVE  \E q \in DOMAIN trie : IsPrefixOf(p, q) /\ cleared[q] # {}
      BY <2>7 DEF TriePruned
    <3>1. p \in DOMAIN trie /\ p \notin dead
      BY <2>1
    <3>2. PICK q \in DOMAIN trie : IsPrefixOf(p, q) /\ trie[q] # {}
      BY <3>1 DEF TriePruned
    <3>3. CASE cleared[q] # {}
      BY <3>2, <3>3
    <3>4. CASE cleared[q] = {}
      <4>1. q = filter /\ p \in Prefixes(filter)
        BY <2>2, <3>2, <3>4 DEF IsPrefixOf
      <4>2. PICK s \in DOMAIN trie : IsPrefixOf(p, s) /\ ~(IsPrefixOf(s, filter) /\ cleared[s] = {})
        BY <2>4, <3>1, <4>1
      <4>3. CASE cleared[s] # {}
        BY <4>2, <4>3
      <4>4. CASE ~IsPrefixOf(s, filter)
        <5>1. s # <<>>
          BY <4>4, PrefixEnds DEF IsPrefixOf
        <5>2. PICK r \in DOMAIN trie : IsPrefixOf(s, r) /\ trie[r] # {}
          BY <5>1 DEF TriePruned
        <5>3. r # filter
          BY <4>4, <5>2
        <5> QED
          BY <2>2, <2>6, <4>2, <5>2, <5>3
      <4> QED
        BY <4>2, <4>3, <4>4
    <3> QED
      BY <3>3, <3>4
  <2> QED
    BY <2>8, <2>9
<1> QED
  BY <1>1, <1>2, RemovedNodes

-----------------------------------------------------------------------------
\* What add_rule does to the vector and to the history of the filters.
LEMMA AddedSlot ==
    ASSUME TypeOK, NEW expr \in Expressions, AddRule(expr)
    PROVE  /\ FilterOf[expr] \in Seq(STRING)
           /\ Len(rules') = Len(rules) + 1 /\ Len(rules) \in Nat
           /\ Len(rules) + 1 \notin DOMAIN rules
           /\ DOMAIN rules' = DOMAIN rules \cup {Len(rules) + 1}
           /\ rules'[Len(rules) + 1] = expr /\ expr # NoRule
           /\ filters'[Len(rules) + 1] = FilterOf[expr]
           /\ \A i \in DOMAIN rules : rules'[i] = rules[i] /\ filters'[i] = filters[i]
           /\ Live' = Live \cup {Len(rules) + 1}
           /\ trie' = Inserted(FilterOf[expr], Len(rules) + 1)
<1>1. /\ rules \in Seq(Expressions \cup {NoRule}) /\ filters \in Seq(Values(FilterOf))
      /\ Len(filters) = Len(rules) /\ rules' = Append(rules, expr)
      /\ filters' = Append(filters, FilterOf[expr])
      /\ trie' = Inserted(FilterOf[expr], Len(rules) + 1)
  BY DEF TypeOK, AddRule
<1>2. /\ FilterOf[expr] \in Seq(STRING) /\ FilterOf[expr] \in Values(FilterOf) /\ expr # NoRule
  BY RuleEngineAssumption DEF Values
<1>3. /\ Len(rules') = Len(rules) + 1 /\ Len(rules) \in Nat
      /\ Len(rules) + 1 \notin DOMAIN rules
      /\ DOMAIN rules' = DOMAIN rules \cup {Len(rules) + 1}
      /\ rules'[Len(rules) + 1] = expr
      /\ \A i \in DOMAIN rules : rules'[i] = rules[i]
  BY <1>1
<1>4. DOMAIN filters = DOMAIN rules
  BY <1>1
<1>5. /\ filters'[Len(rules) + 1] = FilterOf[expr]
      /\ \A i \in DOMAIN rules : filters'[i] = filters[i]
  BY <1>1, <1>2, <1>4
<1>6. Live' = Live \cup {Len(rules) + 1}
  BY <1>2, <1>3 DEF Live
<1> QED
  BY <1>1, <1>2, <1>3, <1>5, <1>6

\* What remove_rule does to them: the slot of a live rule is emptied.
LEMMA RemovedSlot ==
    ASSUME TypeOK, IdMapIsLive, FilterInv, NEW id \in Expressions, RemoveRule(id)
    PROVE  \E index \in Live :
              /\ filters[index] = FilterOf[rules[index]] /\ FilterOf[rules[index]] \in Seq(STRING)
              /\ rules' = [rules EXCEPT ![index] = NoRule] /\ filters' = filters
              /\ Live' = Live \ {index} /\ \A i \in Live' : rules'[i] = rules[i]
              /\ Len(rules') = Len(rules)
              /\ trie' = Removed(FilterOf[rules[index]], index)
<1> DEFINE index == idMap[id]
<1>1. /\ id \in DOMAIN idMap /\ index \in DOMAIN rules /\ rules[index] = id
      /\ rules \in Seq(Expressions \cup {NoRule}) /\ id # NoRule
      /\ FilterOf[id] \in Seq(STRING)
  BY RuleEngineAssumption DEF RemoveRule, TypeOK, IdMapIsLive
<1>2. /\ rules' = [rules EXCEPT ![index] = NoRule] /\ filters' = filters
      /\ trie' = Removed(FilterOf[rules[index]], index)
  BY <1>1 DEF RemoveRule
<1> HIDE DEF index
<1>3. index \in Live /\ filters[index] = FilterOf[rules[index]]
  BY <1>1 DEF Live, FilterInv
<1>4. Live' = Live \ {index} /\ Len(rules') = Len(rules) /\ \A i \in Live' : rules'[i] = rules[i]
  BY <1>1, <1>2 DEF Live
<1> QED
  BY <1>1, <1>2, <1>3, <1>4

\* The invariant of the trie holds in every reachable state.
LEMMA TrieInvariant == Spec => []TrieInv
<1>1. Init => TrieInv
  <2> SUFFICES ASSUME Init  PROVE TrieInv
    OBVIOUS
  <2>1. DOMAIN trie = {<<>>} /\ trie[<<>>] = {} /\ Live = {}
    BY DEF Init, Live
  <2>2. <<>> \in Seq(STRING) /\ Len(<<>>) = 0
    OBVIOUS
  <2>3. ShapeInv
    BY <2>1, <2>2, NothingAboveRoot DEF ShapeInv
  <2> QED
    BY <2>1, <2>3 DEF TrieInv, TriePruned, TrieKeepsLive, FilterInv
<1>2. ASSUME TypeOK, IdMapIsLive, TrieInv, [Next]_vars  PROVE TrieInv'
  <2>i. ShapeInv /\ TriePruned /\ TrieKeepsLive /\ FilterInv
    BY <1>2 DEF TrieInv
  <2>d. \A p \in DOMAIN trie : trie[p] \subseteq DOMAIN rules
    BY <1>2 DEF TypeOK
  <2>1. ASSUME NEW expr \in Expressions, AddRule(expr)  PROVE TrieInv'
    <3> DEFINE index == Len(rules) + 1
               filter == FilterOf[expr]
    <3>1. /\ filter \in Seq(STRING) /\ index \notin DOMAIN rules
          /\ Live' = Live \cup {index} /\ trie' = Inserted(filter, index)
          /\ rules'[index] = expr /\ filters'[index] = filter
          /\ \A i \in DOMAIN rules : rules'[i] = rules[i] /\ filters'[i] = filters[i]
      BY <1>2, <2>1, AddedSlot
    <3> HIDE DEF index, filter
    <3>2. /\ PathOf(filter) \in DOMAIN trie' /\ index \in trie'[PathOf(filter)]
          /\ DOMAIN trie \subseteq DOMAIN trie' /\ \A p \in DOMAIN trie : trie[p] \subseteq trie'[p]
          /\ \A p \in DOMAIN trie' : \A i \in trie'[p] :
                \/ i = index /\ p = PathOf(filter)
                \/ p \in DOMAIN trie /\ i \in trie[p]
      <4>1. /\ DOMAIN Inserted(filter, index) = DOMAIN trie \cup Prefixes(PathOf(filter))
            /\ PathOf(filter) \in DOMAIN Inserted(filter, index)
            /\ index \in Inserted(filter, index)[PathOf(filter)]
            /\ \A p \in DOMAIN trie : trie[p] \subseteq Inserted(filter, index)[p]
            /\ \A p \in DOMAIN Inserted(filter, index) : \A i \in Inserted(filter, index)[p] :
                  \/ i = index /\ p = PathOf(filter)
                  \/ p \in DOMAIN trie /\ i \in trie[p]
        BY ONLY <2>i, <3>1, InsertedNodes
      <4> QED
        BY <3>1, <4>1
    <3>3. ShapeInv' /\ TriePruned'
      BY <2>i, <3>1, InsertedShape
    <3>4. \A i \in Live : i \in DOMAIN rules
      BY DEF Live
    <3>5. \A i \in Live' : PathOf(filters'[i]) \in DOMAIN trie' /\ i \in trie'[PathOf(filters'[i])]
      BY <2>i, <3>1, <3>2, <3>4 DEF TrieKeepsLive
    <3>6. \A p \in DOMAIN trie' : \A i \in trie'[p] : p = PathOf(filters'[i])
      BY <2>i, <2>d, <3>1, <3>2 DEF TrieKeepsLive
    <3>7. TrieKeepsLive'
      BY <3>5, <3>6 DEF TrieKeepsLive
    <3>8. FilterInv'
      BY <2>i, <3>1, <3>4 DEF FilterInv, filter
    <3> QED
      BY <3>3, <3>7, <3>8 DEF TrieInv
  <2>2. ASSUME NEW id \in Expressions, RemoveRule(id)  PROVE TrieInv'
    <3>1. PICK index \in Live :
             /\ filters[index] = FilterOf[rules[index]] /\ FilterOf[rules[index]] \in Seq(STRING)
             /\ rules' = [rules EXCEPT ![index] = NoRule] /\ filters' = filters
             /\ Live' = Live \ {index} /\ \A i \in Live' : rules'[i] = rules[i]
             /\ trie' = Removed(FilterOf[rules[index]], index)
      BY <1>2, <2>2, <2>i, RemovedSlot
    <3> DEFINE filter == FilterOf[rules[index]]
    <3> HIDE DEF filter
    <3>2. /\ DOMAIN trie' \subseteq DOMAIN trie /\ \A p \in DOMAIN trie' : trie'[p] \subseteq trie[p]
          /\ \A p \in DOMAIN trie : \A i \in trie[p] :
                i # index => p \in DOMAIN trie' /\ i \in trie'[p]
      BY <2>i, <3>1, RemovedKeeps
    <3>3. ShapeInv' /\ TriePruned'
      BY <2>i, <3>1, RemovedShape
    <3>4. TrieKeepsLive'
      BY <2>i, <3>1, <3>2 DEF TrieKeepsLive
    <3>5. FilterInv'
      BY <2>i, <3>1 DEF FilterInv
    <3> QED
      BY <3>3, <3>4, <3>5 DEF TrieInv
  <2>3. CASE (\E topic \in Topics : Evaluate(topic)) \/ UNCHANGED vars
    <3>1. UNCHANGED <<rules, trie, filters>>
      BY <2>3 DEF Evaluate, vars
    <3> QED
      BY <2>i, <3>1 DEF TrieInv, ShapeInv, TriePruned, TrieKeepsLive, FilterInv, Live
  <2> QED
    BY ONLY <1>2, <2>1, <2>2, <2>3 DEF Next
<1> QED
  BY <1>1, <1>2, TypeCorrect, IdsAreLive, PTL DEF Spec

\* Incremental removal leaves no dead branch in the trie, whatever the filters share.
THEOREM TrieIsPruned == Spec => []TriePruned
<1>1. TrieInv => TriePruned
  BY DEF TrieInv
<1> QED
  BY <1>1, TrieInvariant, PTL

\* No removal takes a live rule out of the trie, and no rule is kept at a path that is
\* not its own.
THEOREM TrieKeepsLiveRules == Spec => []TrieKeepsLive
<1>1. TrieInv => TrieKeepsLive
  BY DEF TrieInv
<1> QED
  BY <1>1, TrieInvariant, PTL

-----------------------------------------------------------------------------
(***************************************************************************)
(* Walking the trie against comparing each filter with the topic.          *)
(***************************************************************************)

\* match_node collects the rules of this node for the topic.
NodeMatches(q, topic) ==
    \/ Reached(q, topic) /\ Len(q) = Len(topic)
    \/ q # <<>> /\ q[Len(q)] = "#" /\ Reached(SubSeq(q, 1, Len(q) - 1), topic)

\* match_topic on the levels before the first "#".
Agreeing(filter, topic, n) ==
    \A i \in 1..n : filter[i] \in {"+", topic[i]} /\ filter[i] # "#"

\* match_topic of the table in these terms.
LEMMA MatchTopicMeans ==
    ASSUME NEW filter, NEW topic
    PROVE  Table!MatchTopic(filter, topic) <=>
              \/ Len(filter) = Len(topic) /\ Agreeing(filter, topic, Len(topic))
              \/ \E h \in DOMAIN filter : /\ filter[h] = "#"
                                          /\ h - 1 <= Len(topic)
                                          /\ Agreeing(filter, topic, h - 1)
  BY DEF Table!MatchTopic, Agreeing

\* The walk arrives at the end of a filter's path for exactly the topics that
\* match_topic accepts for the filter.
LEMMA WalkMatches ==
    ASSUME NEW filter \in Seq(STRING), NEW topic \in Seq(STRING)
    PROVE  NodeMatches(PathOf(filter), topic) <=> Table!MatchTopic(filter, topic)
<1> DEFINE p == PathOf(filter)
<1>1. /\ p \in Seq(STRING) /\ Len(p) <= Len(filter) /\ \A i \in 1..Len(p) : p[i] = filter[i]
      /\ \A i \in 1..(Len(p) - 1) : p[i] # "#"
      /\ p = filter \/ (p # <<>> /\ p[Len(p)] = "#")
  BY PathMeans DEF IsPathOf
<1> HIDE DEF p
<1>2. CASE ~(p # <<>> /\ p[Len(p)] = "#")
  <2>1. p = filter /\ \A i \in DOMAIN filter : filter[i] # "#"
    BY <1>1, <1>2
  <2>2. NodeMatches(p, topic) <=> Len(filter) = Len(topic) /\ Agreeing(filter, topic, Len(topic))
    BY <1>2, <2>1 DEF NodeMatches, Reached, Agreeing
  <2> QED
    BY <2>1, <2>2, MatchTopicMeans DEF p
<1>3. CASE p # <<>> /\ p[Len(p)] = "#"
  <2> DEFINE h == Len(p)
             parent == SubSeq(p, 1, h - 1)
  <2>1. /\ h \in Nat /\ h >= 1 /\ h \in DOMAIN filter /\ filter[h] = "#"
        /\ \A i \in 1..(h - 1) : filter[i] # "#"
    BY <1>1, <1>3
  <2>2. parent \in Prefixes(p) /\ Len(parent) = h - 1
    <3>1. h - 1 \in 0..Len(p) /\ 1 \in Int /\ h - 1 \in Int /\ \A i \in 1..(h - 1) : p[i] \in STRING
      BY <1>1, <2>1
    <3>2. parent \in Prefixes(p)
      BY <3>1 DEF Prefixes
    <3>3. Len(parent) = IF 1 <= h - 1 THEN (h - 1) - 1 + 1 ELSE 0
      BY ONLY <3>1, SubSeqProperties DEF parent
    <3> HIDE DEF h, parent
    <3> QED
      BY ONLY <2>1, <3>2, <3>3
  <2>3. parent \in Seq(STRING) /\ \A i \in 1..(h - 1) : parent[i] = filter[i]
    BY <1>1, <2>1, <2>2, PrefixMeans
  <2>4. ~Reached(p, topic)
    BY <1>1, <1>3, <2>1 DEF Reached
  <2> HIDE DEF h, parent
  <2>5. Reached(parent, topic) <=> h - 1 <= Len(topic) /\ Agreeing(filter, topic, h - 1)
    <3>1. DOMAIN parent = 1..(h - 1)
      BY <2>1, <2>2, <2>3
    <3> QED
      BY <2>2, <2>3, <3>1 DEF Reached, Agreeing
  <2>6. NodeMatches(p, topic) <=> h - 1 <= Len(topic) /\ Agreeing(filter, topic, h - 1)
    BY <1>3, <2>4, <2>5 DEF NodeMatches, h, parent
  <2>7. ~(Len(filter) = Len(topic) /\ Agreeing(filter, topic, Len(topic)))
    BY <2>1 DEF Agreeing
  <2>8. \A k \in DOMAIN filter : filter[k] = "#" /\ Agreeing(filter, topic, k - 1) => k = h
    <3> SUFFICES ASSUME NEW k \in DOMAIN filter, filter[k] = "#", Agreeing(filter, topic, k - 1)
                 PROVE  k = h
      OBVIOUS
    <3>1. ~(k < h)
      BY <2>1
    <3>2. ~(h < k)
      BY <2>1 DEF Agreeing
    <3> QED
      BY <2>1, <3>1, <3>2
  <2>9. Table!MatchTopic(filter, topic) <=>
           \/ Len(filter) = Len(topic) /\ Agreeing(filter, topic, Len(topic))
           \/ \E k \in DOMAIN filter : /\ filter[k] = "#"
                                       /\ k - 1 <= Len(topic)
                                       /\ Agreeing(filter, topic, k - 1)
    BY MatchTopicMeans
  <2>10. Table!MatchTopic(filter, topic) <=>
            h - 1 <= Len(topic) /\ Agreeing(filter, topic, h - 1)
    BY ONLY <2>1, <2>7, <2>8, <2>9
  <2> QED
    BY <2>6, <2>10 DEF p
<1> QED
  BY <1>2, <1>3

\* Among the rules a walk collects, the live ones are those that match.
LEMMA WalkFindsMatching ==
    ASSUME TypeOK, TrieInv, NEW topic \in Topics
    PROVE  match_topic_indexes(topic) \cap Live
              = {i \in Live : Table!MatchTopic(FilterOf[rules[i]], topic)}
<1>1. topic \in Seq(STRING)
  BY RuleEngineAssumption
<1>2. \A i : i \in match_topic_indexes(topic) <=>
                \E q \in DOMAIN trie : NodeMatches(q, topic) /\ i \in trie[q]
  BY DEF match_topic_indexes, NodeMatches
<1>3. ASSUME NEW i \in Live
      PROVE  i \in match_topic_indexes(topic) <=> Table!MatchTopic(FilterOf[rules[i]], topic)
  <2>1. FilterOf[rules[i]] \in Seq(STRING) /\ filters[i] = FilterOf[rules[i]]
    BY RuleEngineAssumption DEF TypeOK, Live, TrieInv, FilterInv
  <2>2. \A q \in DOMAIN trie : i \in trie[q] <=> q = PathOf(filters[i])
    BY DEF TrieInv, TrieKeepsLive
  <2>3. PathOf(filters[i]) \in DOMAIN trie
    BY DEF TrieInv, TrieKeepsLive
  <2> QED
    BY <1>1, <1>2, <2>1, <2>2, <2>3, WalkMatches
<1> QED
  BY <1>3

\* The engine implements the table of rules, for any filters, topics and cache
\* capacity: evaluate answers with exactly the live rules that match the topic,
\* whatever the trie and the cache have been through.
THEOREM ImplementsTable == Spec => ImplementsRuleTable
<1>1. Init => Table!Init
  BY DEF Init, Table!Init, Live
<1>2. ASSUME TypeOK, IdMapIsLive, TrieInv, CacheCoherent, [Next]_vars
      PROVE  [Table!Next]_(Table!vars)
  <2>1. ASSUME NEW expr \in Expressions, AddRule(expr)
        PROVE  \E filter \in Values(FilterOf) : Table!Add(filter)
    <3>1. /\ Len(rules') = Len(rules) + 1 /\ Live' = Live \cup {Len(rules) + 1}
          /\ rules'[Len(rules) + 1] = expr /\ Len(rules) + 1 \notin DOMAIN rules
          /\ \A i \in DOMAIN rules : rules'[i] = rules[i]
      BY <1>2, <2>1, AddedSlot
    <3>2. answer' = NoAnswer /\ FilterOf[expr] \in Values(FilterOf)
      BY <2>1, RuleEngineAssumption DEF AddRule, Values
    <3>3. \A i \in Live : i \in DOMAIN rules /\ i # Len(rules) + 1
      BY <3>1 DEF Live
    <3>4. [i \in Live' |-> FilterOf[rules'[i]]]
             = [i \in DOMAIN [j \in Live |-> FilterOf[rules[j]]] \cup {Len(rules) + 1} |->
                  IF i = Len(rules) + 1 THEN FilterOf[expr]
                  ELSE [j \in Live |-> FilterOf[rules[j]]][i]]
      BY <3>1, <3>3
    <3>5. Table!Add(FilterOf[expr])
      BY <3>1, <3>2, <3>4 DEF Table!Add
    <3> QED
      BY <3>2, <3>5
  <2>2. ASSUME NEW id \in Expressions, RemoveRule(id)
        PROVE  \E index \in Live : Table!Remove(index)
    <3>1. PICK index \in Live :
             /\ Live' = Live \ {index} /\ \A i \in Live' : rules'[i] = rules[i]
             /\ Len(rules') = Len(rules)
      BY <1>2, <2>2, RemovedSlot DEF TrieInv
    <3>2. answer' = NoAnswer
      BY <2>2 DEF RemoveRule
    <3>3. [i \in Live' |-> FilterOf[rules'[i]]]
             = [i \in DOMAIN [j \in Live |-> FilterOf[rules[j]]] \ {index} |->
                  [j \in Live |-> FilterOf[rules[j]]][i]]
      BY <3>1
    <3>4. Table!Remove(index)
      BY <3>1, <3>2, <3>3 DEF Table!Remove
    <3> QED
      BY <3>4
  <2>3. ASSUME NEW topic \in Topics, Evaluate(topic)  PROVE Table!Evaluate(topic)
    <3>1. /\ answer' = [topic |-> topic, rules |-> match_topic_indexes(topic) \cap Live]
          /\ rules' = rules
      BY <1>2, <2>3 DEF Evaluate, Evaluated, CacheCoherent
    <3>2. Table!Matching(topic) = {i \in Live : Table!MatchTopic(FilterOf[rules[i]], topic)}
      BY DEF Table!Matching
    <3>3. answer' = [topic |-> topic, rules |-> Table!Matching(topic)]
      BY <1>2, <3>1, <3>2, WalkFindsMatching
    <3> QED
      BY <3>1, <3>3 DEF Table!Evaluate, Live
  <2>4. CASE UNCHANGED vars
    BY <2>4 DEF vars, Table!vars, Live
  <2> QED
    BY <1>2, <2>1, <2>2, <2>3, <2>4 DEF Next, Table!Next
<1> QED
  BY <1>1, <1>2, TypeCorrect, IdsAreLive, TrieInvariant, NoStaleMatch, PTL
     DEF Spec, ImplementsRuleTable, Table!Spec
=============================================================================
