----------------------------- MODULE BootProofs -----------------------------
(***************************************************************************)
(* Theorems about Boot for any number of processes, starts, configurations *)
(* and clients: what the files hold while processes are started, refused   *)
(* and killed in any order, and that no two of them connect with the same  *)
(* client id.                                                              *)
(***************************************************************************)
EXTENDS Boot, SequenceTheorems, TLAPS

-----------------------------------------------------------------------------
(***************************************************************************)
(* Types.                                                                  *)
(***************************************************************************)

\* The configurations a process can have, and the ids it can make up from them.
LEMMA ConfigFields ==
    \A c \in Configs \cup {DefaultConfig} :
        /\ c.count \in Nat /\ c.rules \in {"provisioned", "own"}
        /\ c.node = Generated \/ c.node \in Node
<1>1. /\ DefaultConfig.count = 1 /\ DefaultConfig.rules = "provisioned"
      /\ DefaultConfig.node = Generated
  BY DEF DefaultConfig
<1> QED
  BY <1>1, BootAssumption DEF Node

\* resolve_client_ids always makes up at least one id, numbered from zero.
LEMMA FreshIdsTypes ==
    ASSUME TypeOK, NEW p \in Procs
    PROVE  /\ FreshIds(p) \in Seq(ClientId) /\ FreshIds(p) # <<>>
           /\ \A i \in 1..Len(FreshIds(p)) : FreshIds(p)[i].index = i - 1
<1> DEFINE n == AtLeastOne(cfg[p].count)
<1>1. n \in Nat /\ n >= 1
  BY ConfigFields DEF TypeOK, AtLeastOne
<1>2. NodeId(p) \in Node
  <2>1. birth[p] \in Nat
    BY BootAssumption DEF TypeOK
  <2> QED
    BY <2>1, ConfigFields DEF TypeOK, NodeId, Node
<1>3. FreshIds(p) = [i \in 1..n |-> [node |-> NodeId(p), index |-> i - 1]]
  BY DEF FreshIds
<1> HIDE DEF n
<1>4. \A i \in 1..n : i - 1 \in Nat /\ [node |-> NodeId(p), index |-> i - 1] \in ClientId
  BY <1>1, <1>2 DEF ClientId
<1>5. FreshIds(p) \in Seq(ClientId) /\ Len(FreshIds(p)) = n
  BY <1>1, <1>3, <1>4
<1>6. \A i \in 1..n : FreshIds(p)[i].index = i - 1
  BY <1>3
<1> QED
  BY <1>1, <1>5, <1>6

\* What an interrupted write leaves of an id is an id.
LEMMA CutIdTypes ==
    ASSUME NEW id \in ClientId, NEW cut \in CutIds(id)
    PROVE  /\ cut \in ClientId
           /\ \/ cut.index = Stump
              \/ /\ id.index \in Nat /\ cut.index \in Nat
                 /\ cut.index < id.index /\ id.index >= 10
<1>1. CASE cut = [id EXCEPT !.index = Stump]
  BY <1>1 DEF ClientId
<1>2. CASE cut # [id EXCEPT !.index = Stump]
  <2>1. PICK d \in {10, 100, 1000, 10000} :
           /\ id.index # Stump /\ id.index \div d # 0
           /\ cut = [id EXCEPT !.index = id.index \div d]
    BY <1>2 DEF CutIds
  <2>2. id.index \in Nat
    BY <2>1 DEF ClientId
  <2>3. id.index \div d \in Nat /\ id.index \div d < id.index /\ id.index >= 10
    BY <2>1, <2>2
  <2> QED
    BY <2>1, <2>2, <2>3 DEF ClientId
<1> QED
  BY <1>1, <1>2

\* What it leaves of a list is a beginning of it, of which the last id may be cut.
LEMMA CutListTypes ==
    ASSUME NEW list \in Seq(ClientId), NEW cut \in CutLists(list)
    PROVE  /\ cut \in Seq(ClientId) /\ Len(cut) <= Len(list)
           /\ \A i \in 1..Len(cut) :
                 cut[i] = list[i] \/ (i = Len(cut) /\ cut[i] \in CutIds(list[i]))
<1>1. ASSUME NEW k \in 0..Len(list), cut = SubSeq(list, 1, k)
      PROVE  /\ cut \in Seq(ClientId) /\ Len(cut) = k
             /\ \A i \in 1..k : cut[i] = list[i]
  <2>1. \A i \in 1..k : list[i] \in ClientId
    OBVIOUS
  <2> QED
    BY <1>1, <2>1, SubSeqProperties
<1>2. ASSUME NEW k \in 1..Len(list), NEW id \in CutIds(list[k]),
             cut = Append(SubSeq(list, 1, k - 1), id)
      PROVE  /\ cut \in Seq(ClientId) /\ Len(cut) = k
             /\ \A i \in 1..k : cut[i] = list[i] \/ (i = k /\ cut[i] \in CutIds(list[i]))
  <2>1. \A i \in 1..(k - 1) : list[i] \in ClientId
    OBVIOUS
  <2>2. /\ SubSeq(list, 1, k - 1) \in Seq(ClientId) /\ Len(SubSeq(list, 1, k - 1)) = k - 1
        /\ \A i \in 1..(k - 1) : SubSeq(list, 1, k - 1)[i] = list[i]
    BY <2>1, SubSeqProperties
  <2>3. id \in ClientId
    BY CutIdTypes
  <2> QED
    BY <1>2, <2>2, <2>3, AppendProperties
<1>3. \/ \E k \in 0..Len(list) : cut = SubSeq(list, 1, k)
      \/ \E k \in 1..Len(list) : \E id \in CutIds(list[k]) :
            cut = Append(SubSeq(list, 1, k - 1), id)
  BY DEF CutLists
<1> QED
  BY <1>1, <1>2, <1>3

\* Writing into a file that has not been changed since it was opened replaces it.
LEMMA OverwrittenTypes ==
    ASSUME idFile \in Seq(ClientId), NEW new \in Seq(ClientId)
    PROVE  /\ Overwritten(new) \in Seq(ClientId)
           /\ idFile = <<>> => Overwritten(new) = new
<1>1. \A i \in (Len(new) + 1)..Len(idFile) : idFile[i] \in ClientId
  OBVIOUS
<1>2. SubSeq(idFile, Len(new) + 1, Len(idFile)) \in Seq(ClientId)
  BY <1>1, SubSeqProperties
<1>3. ASSUME idFile = <<>>  PROVE SubSeq(idFile, Len(new) + 1, Len(idFile)) = <<>>
  BY <1>3, SubSeqEmpty
<1> QED
  BY <1>2, <1>3, ConcatProperties, ConcatEmptySeq DEF Overwritten

\* Every variable keeps its type, and a process that has resolved its ids has some.
THEOREM TypeCorrect == Spec => []TypeOK
<1>1. Init => TypeOK
  BY BootAssumption DEF Init, TypeOK, Steps, Mishaps
<1>2. ASSUME TypeOK, [Next]_vars  PROVE TypeOK'
  <2> USE <1>2 DEF TypeOK, Goto, Steps, Mishaps
  <2>1. ASSUME NEW p \in Procs, Start(p)  PROVE TypeOK'
    <3>1. starts + 1 \in 0..MaxStarts
      BY <2>1, BootAssumption DEF Start
    <3>2. <<>> \in Seq(ClientId)
      OBVIOUS
    <3> QED
      BY <2>1, <3>1, <3>2 DEF Start
  <2>2. ASSUME NEW p \in Procs, CheckConfig(p)  PROVE TypeOK'
    BY <2>2 DEF CheckConfig
  <2>3. ASSUME NEW p \in Procs, CheckRule(p)  PROVE TypeOK'
    BY <2>3 DEF CheckRule
  <2>4. ASSUME NEW p \in Procs, OpenFile(p)  PROVE TypeOK'
    <3>1. CASE pc[p] = "openRule"
      BY <2>4, <3>1 DEF OpenFile
    <3>2. CASE pc[p] = "openConfig"
      BY <2>4, <3>2 DEF OpenFile
    <3> QED
      BY <2>4, <3>1, <3>2 DEF OpenFile
  <2>5. ASSUME NEW p \in Procs, WriteFile(p)  PROVE TypeOK'
    <3>1. CASE pc[p] = "writeRule"
      BY <2>5, <3>1 DEF WriteFile
    <3>2. CASE pc[p] = "writeConfig"
      BY <2>5, <3>2 DEF WriteFile
    <3> QED
      BY <2>5, <3>1, <3>2 DEF WriteFile
  <2>6. ASSUME NEW p \in Procs, LoadConfig(p)  PROVE TypeOK'
    BY <2>6 DEF LoadConfig, Requested
  <2>7. ASSUME NEW p \in Procs, LoadRules(p)  PROVE TypeOK'
    BY <2>7 DEF LoadRules
  <2>8. ASSUME NEW p \in Procs, Resolve(p)  PROVE TypeOK'
    <3>1. \A stored \in {<<>>, idFile} : /\ Resolved(p, stored) \in Seq(ClientId)
                                         /\ Resolved(p, stored) # <<>>
      BY FreshIdsTypes DEF Resolved
    <3> QED
      BY <2>8, <3>1 DEF Resolve
  <2>9. ASSUME NEW p \in Procs, OpenIds(p)  PROVE TypeOK'
    BY <2>9 DEF OpenIds
  <2>10. ASSUME NEW p \in Procs, WriteIds(p)  PROVE TypeOK'
    BY <2>10, OverwrittenTypes DEF WriteIds
  <2>11. ASSUME NEW p \in Procs, Bind(p)  PROVE TypeOK'
    BY <2>11 DEF Bind
  <2>12. ASSUME NEW p \in Procs, Connect(p)  PROVE TypeOK'
    BY <2>12 DEF Connect
  <2>13. ASSUME NEW p \in Procs, Leave(p)  PROVE TypeOK'
    BY <2>13 DEF Leave, End
  <2>14. ASSUME NEW p \in Procs, CutShort(p)  PROVE TypeOK'
    <3>1. idFile' \in Seq(ClientId)
      <4>1. \A list \in CutLists(ids[p]) : Overwritten(list) \in Seq(ClientId)
        BY CutListTypes, OverwrittenTypes
      <4> QED
        BY <2>14, <4>1 DEF CutShort
    <3> QED
      BY <2>14, <3>1 DEF CutShort, End
  <2>15. CASE UNCHANGED vars
    BY <2>15 DEF vars
  <2> QED
    BY ONLY <1>2, <2>1, <2>2, <2>3, <2>4, <2>5, <2>6, <2>7, <2>8, <2>9, <2>10, <2>11, <2>12,
       <2>13, <2>14, <2>15 DEF Next
<1> QED
  BY <1>1, <1>2, PTL DEF Spec

-----------------------------------------------------------------------------
(***************************************************************************)
(* The provisioned configuration.  Nobody goes on to config.json before    *)
(* rule.json exists, and a rule.json that exists is complete, being        *)
(* written, or was cut short.                                              *)
(***************************************************************************)
RuleAccounted ==
    \/ file["rule"] = "complete"
    \/ \E p \in Procs : pc[p] = "writeRule"
    \/ "cutRule" \in mishaps

FilesInv ==
    /\ file["rule"] # "absent" => RuleAccounted
    /\ file["config"] # "absent" => file["rule"] # "absent"
    /\ \A p \in Procs : pc[p] \in {"openConfig", "writeConfig"} => file["rule"] # "absent"

\* A step that leaves the files alone, forgets no mishap, and neither sends a process
\* on to config.json nor takes one out of the write of rule.json keeps FilesInv.
LEMMA FilesFrame ==
    ASSUME TypeOK, FilesInv, file' = file, mishaps \subseteq mishaps',
           NEW p \in Procs, NEW where, Goto(p, where),
           where \notin {"openConfig", "writeConfig"}, pc[p] # "writeRule"
    PROVE  FilesInv'
BY DEF TypeOK, FilesInv, RuleAccounted, Goto

\* FilesInv holds initially and is kept by every step.
LEMMA FilesInvariant == Spec => []FilesInv
<1>1. Init => FilesInv
  BY DEF Init, FilesInv
<1>2. ASSUME TypeOK, FilesInv, [Next]_vars  PROVE FilesInv'
  <2> USE <1>2
  <2>1. ASSUME NEW p \in Procs, Start(p)  PROVE FilesInv'
    BY <2>1, FilesFrame DEF Start
  <2>2. ASSUME NEW p \in Procs, CheckConfig(p)  PROVE FilesInv'
    BY <2>2, FilesFrame DEF CheckConfig
  <2>3. ASSUME NEW p \in Procs, CheckRule(p)  PROVE FilesInv'
    BY <2>3 DEF CheckRule, TypeOK, FilesInv, RuleAccounted, Goto
  <2>4. ASSUME NEW p \in Procs, OpenFile(p)  PROVE FilesInv'
    <3>1. CASE pc[p] = "openRule"
      BY <2>4, <3>1 DEF OpenFile, TypeOK, FilesInv, RuleAccounted, Goto
    <3>2. CASE pc[p] = "openConfig"
      BY <2>4, <3>2 DEF OpenFile, TypeOK, FilesInv, RuleAccounted, Goto
    <3> QED
      BY <2>4, <3>1, <3>2 DEF OpenFile
  <2>5. ASSUME NEW p \in Procs, WriteFile(p)  PROVE FilesInv'
    <3>1. CASE pc[p] = "writeRule"
      BY <2>5, <3>1 DEF WriteFile, TypeOK, FilesInv, RuleAccounted, Goto
    <3>2. CASE pc[p] = "writeConfig"
      BY <2>5, <3>2 DEF WriteFile, TypeOK, FilesInv, RuleAccounted, Goto
    <3> QED
      BY <2>5, <3>1, <3>2 DEF WriteFile
  <2>6. ASSUME NEW p \in Procs, LoadConfig(p)  PROVE FilesInv'
    BY <2>6, FilesFrame DEF LoadConfig
  <2>7. ASSUME NEW p \in Procs, LoadRules(p)  PROVE FilesInv'
    BY <2>7, FilesFrame DEF LoadRules
  <2>8. ASSUME NEW p \in Procs, Resolve(p)  PROVE FilesInv'
    <3>1. mishaps \subseteq mishaps'
      BY <2>8 DEF Resolve
    <3> QED
      BY <2>8, <3>1, FilesFrame DEF Resolve
  <2>9. ASSUME NEW p \in Procs, OpenIds(p)  PROVE FilesInv'
    BY <2>9, FilesFrame DEF OpenIds
  <2>10. ASSUME NEW p \in Procs, WriteIds(p)  PROVE FilesInv'
    BY <2>10, FilesFrame DEF WriteIds
  <2>11. ASSUME NEW p \in Procs, Bind(p)  PROVE FilesInv'
    BY <2>11, FilesFrame DEF Bind
  <2>12. ASSUME NEW p \in Procs, Connect(p)  PROVE FilesInv'
    BY <2>12, FilesFrame DEF Connect
  <2>13. ASSUME NEW p \in Procs, Leave(p)  PROVE FilesInv'
    BY <2>13, FilesFrame DEF Leave, End
  <2>14. ASSUME NEW p \in Procs, CutShort(p)  PROVE FilesInv'
    <3>1. CASE pc[p] = "writeRule"
      BY <2>14, <3>1 DEF CutShort, End, TypeOK, FilesInv, RuleAccounted, Goto
    <3>2. CASE pc[p] # "writeRule"
      <4>1. mishaps \subseteq mishaps'
        BY <2>14 DEF CutShort
      <4> QED
        BY <2>14, <3>2, <4>1, FilesFrame DEF CutShort, End
    <3> QED
      BY <3>1, <3>2
  <2>15. CASE UNCHANGED vars
    BY <2>15 DEF vars, FilesInv, RuleAccounted
  <2> QED
    BY ONLY <1>2, <2>1, <2>2, <2>3, <2>4, <2>5, <2>6, <2>7, <2>8, <2>9, <2>10, <2>11, <2>12,
       <2>13, <2>14, <2>15 DEF Next
<1> QED
  BY <1>1, <1>2, TypeCorrect, PTL DEF Spec

\* rule.json is written before config.json, whatever the number of processes that
\* provision the directory at the same time (main.rs:276-305).
THEOREM RulesComeFirst == Spec => []ProvisionedInOrder
<1>1. FilesInv => ProvisionedInOrder
  BY DEF FilesInv, RuleAccounted, ProvisionedInOrder
<1> QED
  BY <1>1, FilesInvariant, PTL

-----------------------------------------------------------------------------
(***************************************************************************)
(* The ids.  As long as no two starts meet at the file, at most one        *)
(* process is writing it, and it is empty until that is done.  As long as  *)
(* no write was cut short and no read failed either, all processes past    *)
(* resolve_client_ids hold the ids first written, or nothing was ever      *)
(* written and at most one of them is about to.                            *)
(***************************************************************************)
Resolving == {"openIds", "writeIds"}

PastIds == {"bind", "dispatcher", "mqtt", "serving"}

WritersInv ==
    "raced" \notin mishaps =>
        /\ \A p, q \in Procs : pc[p] = "writeIds" /\ pc[q] = "writeIds" => p = q
        /\ \A p \in Procs : pc[p] = "writeIds" => idFile = <<>>

FirstInv ==
    mishaps \subseteq {"cutRule"} /\ identity = <<>> =>
        /\ idFile = <<>>
        /\ \A p \in Procs : pc[p] \notin PastIds
        /\ \A p, q \in Procs : pc[p] \in Resolving /\ pc[q] \in Resolving => p = q

KeptInv ==
    mishaps \subseteq {"cutRule"} /\ identity # <<>> =>
        /\ \A p \in Procs : pc[p] \in Resolving \cup PastIds => ids[p] = identity
        /\ idFile = identity \/ (idFile = <<>> /\ \E p \in Procs : pc[p] = "writeIds")

IdsInv == WritersInv /\ FirstInv /\ KeptInv

\* A step that leaves the ids and their file alone and forgets no mishap keeps IdsInv
\* if it leads from before the ids to before them, from behind them to behind them,
\* or out of run().
LEMMA IdsFrame ==
    ASSUME TypeOK, IdsInv, mishaps \subseteq mishaps',
           UNCHANGED <<idFile, identity>>, NEW p \in Procs,
           \A q \in Procs \ {p} : ids'[q] = ids[q] /\ pc'[q] = pc[q],
           \/ pc'[p] \notin Resolving \cup PastIds
           \/ pc'[p] \in PastIds /\ pc[p] \in PastIds /\ ids'[p] = ids[p],
           pc[p] # "writeIds"
    PROVE  IdsInv'
<1>1. WritersInv'
  BY DEF IdsInv, WritersInv, Resolving, PastIds
<1>2. FirstInv'
  BY DEF IdsInv, FirstInv, Resolving, PastIds
<1>3. KeptInv'
  BY DEF IdsInv, KeptInv, Resolving, PastIds
<1> QED
  BY <1>1, <1>2, <1>3 DEF IdsInv

\* IdsInv holds initially and is kept by every step.
LEMMA IdsInvariant == Spec => []IdsInv
<1>1. Init => IdsInv
  BY DEF Init, IdsInv, WritersInv, FirstInv, KeptInv, Resolving, PastIds
<1>2. ASSUME TypeOK, IdsInv, [Next]_vars  PROVE IdsInv'
  <2>t. /\ DOMAIN pc = Procs /\ DOMAIN ids = Procs /\ pc \in [Procs -> Steps]
        /\ ids \in [Procs -> Seq(ClientId)] /\ idFile \in Seq(ClientId)
        /\ \A p \in Procs : pc[p] \in {"openIds", "writeIds", "bind"} => ids[p] # <<>>
    BY <1>2 DEF TypeOK
  <2>f. ASSUME mishaps \subseteq mishaps', UNCHANGED <<idFile, identity>>, NEW p \in Procs,
               \A q \in Procs \ {p} : ids'[q] = ids[q] /\ pc'[q] = pc[q],
               \/ pc'[p] \notin Resolving \cup PastIds
               \/ pc'[p] \in PastIds /\ pc[p] \in PastIds /\ ids'[p] = ids[p],
               pc[p] # "writeIds"
        PROVE  IdsInv'
    BY <1>2, <2>f, IdsFrame
  <2>1. ASSUME NEW p \in Procs, Start(p)  PROVE IdsInv'
    BY <2>1, <2>f, <2>t DEF Start, Goto, Resolving, PastIds
  <2>2. ASSUME NEW p \in Procs,
               CheckConfig(p) \/ CheckRule(p) \/ OpenFile(p) \/ WriteFile(p) \/ LoadConfig(p)
                  \/ LoadRules(p)
        PROVE  IdsInv'
    <3>1. /\ pc[p] # "writeIds" /\ pc'[p] \notin Resolving \cup PastIds
          /\ UNCHANGED <<mishaps, idFile, identity, ids>>
      BY <2>2, <2>t DEF CheckConfig, CheckRule, OpenFile, WriteFile, LoadConfig, LoadRules, Goto,
         Resolving, PastIds
    <3>2. \A q \in Procs \ {p} : pc'[q] = pc[q]
      BY <2>2, <2>t DEF CheckConfig, CheckRule, OpenFile, WriteFile, LoadConfig, LoadRules, Goto
    <3> QED
      BY <2>f, <3>1, <3>2
  <2>3. ASSUME NEW p \in Procs, Resolve(p)  PROVE IdsInv'
    <3>1. /\ pc[p] = "resolve" /\ pc' = [pc EXCEPT ![p] = "openIds"] /\ mishaps \subseteq mishaps'
          /\ UNCHANGED <<idFile, identity>> /\ \A q \in Procs \ {p} : ids'[q] = ids[q]
      BY <2>3, <2>t DEF Resolve, Goto
    <3>2. ASSUME mishaps' \subseteq {"cutRule"}
          PROVE  ~Meeting(p) /\ ids'[p] = Resolved(p, idFile)
      BY <2>3, <2>t, <3>2 DEF Resolve
    <3>3. WritersInv'
      BY <1>2, <2>t, <3>1 DEF IdsInv, WritersInv
    <3>4. FirstInv'
      <4> SUFFICES ASSUME mishaps' \subseteq {"cutRule"}, identity = <<>>
                   PROVE  FirstInv'
        BY <3>1 DEF FirstInv
      <4>1. idFile = <<>> /\ \A q \in Procs \ {p} : pc[q] \notin Resolving
        BY <1>2, <3>1, <3>2 DEF IdsInv, FirstInv, Meeting, Resolving
      <4> QED
        BY <1>2, <2>t, <3>1, <4>1 DEF IdsInv, FirstInv, Resolving, PastIds
    <3>5. KeptInv'
      <4> SUFFICES ASSUME mishaps' \subseteq {"cutRule"}, identity # <<>>
                   PROVE  KeptInv'
        BY <3>1 DEF KeptInv
      <4>1. idFile = identity
        BY <1>2, <3>1, <3>2 DEF IdsInv, KeptInv, Meeting
      <4>2. ids'[p] = identity
        BY <3>2, <4>1 DEF Resolved
      <4> QED
        BY <1>2, <2>t, <3>1, <4>1, <4>2 DEF IdsInv, KeptInv, Resolving, PastIds
    <3> QED
      BY <3>3, <3>4, <3>5 DEF IdsInv
  <2>4. ASSUME NEW p \in Procs, OpenIds(p)  PROVE IdsInv'
    <3>1. /\ pc[p] = "openIds" /\ pc' = [pc EXCEPT ![p] = "writeIds"] /\ mishaps \subseteq mishaps'
          /\ idFile' = <<>> /\ UNCHANGED <<identity, ids>>
          /\ "raced" \notin mishaps' => \A q \in Procs \ {p} : pc[q] # "writeIds"
      BY <2>4, <2>t DEF OpenIds, Goto
    <3>2. WritersInv'
      BY <1>2, <2>t, <3>1 DEF IdsInv, WritersInv
    <3>3. FirstInv'
      BY <1>2, <2>t, <3>1 DEF IdsInv, FirstInv, Resolving, PastIds
    <3>4. KeptInv'
      BY <1>2, <2>t, <3>1 DEF IdsInv, KeptInv, Resolving, PastIds
    <3> QED
      BY <3>2, <3>3, <3>4 DEF IdsInv
  <2>5. ASSUME NEW p \in Procs, WriteIds(p)  PROVE IdsInv'
    <3>1. /\ pc[p] = "writeIds" /\ pc' = [pc EXCEPT ![p] = "bind"]
          /\ idFile' = Overwritten(ids[p]) /\ UNCHANGED <<mishaps, ids>> /\ ids[p] # <<>>
          /\ identity' = IF identity = <<>> THEN ids[p] ELSE identity
      BY <2>5, <2>t DEF WriteIds, Goto
    <3>2. ASSUME "raced" \notin mishaps
          PROVE  /\ idFile = <<>> /\ \A q \in Procs \ {p} : pc[q] # "writeIds"
                 /\ idFile' = ids[p]
      BY <1>2, <2>t, <3>1, <3>2, OverwrittenTypes DEF IdsInv, WritersInv
    <3>3. WritersInv'
      BY <2>t, <3>1, <3>2 DEF WritersInv
    <3>4. identity' # <<>>
      BY <3>1
    <3>5. KeptInv'
      <4> SUFFICES ASSUME mishaps \subseteq {"cutRule"}
                   PROVE  KeptInv'
        BY <3>1 DEF KeptInv
      <4>1. "raced" \notin mishaps
        OBVIOUS
      <4>2. identity' = ids[p] /\ idFile' = identity'
        BY <1>2, <3>1, <3>2, <4>1 DEF IdsInv, KeptInv, Resolving
      <4>3. \A q \in Procs \ {p} : pc[q] \in Resolving \cup PastIds => ids[q] = ids[p]
        BY <1>2, <3>1 DEF IdsInv, FirstInv, KeptInv, Resolving
      <4> QED
        BY <2>t, <3>1, <4>2, <4>3 DEF KeptInv
    <3> QED
      BY <3>3, <3>4, <3>5 DEF IdsInv, FirstInv
  <2>6. ASSUME NEW p \in Procs, Bind(p) \/ Connect(p)  PROVE IdsInv'
    <3>1. /\ pc[p] \in PastIds /\ pc'[p] \in PastIds /\ pc[p] # "writeIds"
          /\ UNCHANGED <<mishaps, idFile, identity, ids>>
          /\ \A q \in Procs \ {p} : pc'[q] = pc[q]
      BY <2>6, <2>t DEF Bind, Connect, Goto, PastIds
    <3> QED
      BY <2>f, <3>1
  <2>7. ASSUME NEW p \in Procs, Leave(p)  PROVE IdsInv'
    BY <2>7, <2>f, <2>t DEF Leave, End, Goto, Resolving, PastIds
  <2>8. ASSUME NEW p \in Procs, CutShort(p)  PROVE IdsInv'
    <3>1. CASE pc[p] # "writeIds"
      <4>1. /\ pc'[p] = "off" /\ mishaps \subseteq mishaps' /\ UNCHANGED <<idFile, identity, ids>>
            /\ \A q \in Procs \ {p} : pc'[q] = pc[q]
        BY <2>8, <2>t, <3>1 DEF CutShort, End, Goto
      <4> QED
        BY <2>f, <3>1, <4>1 DEF Resolving, PastIds
    <3>2. CASE pc[p] = "writeIds"
      <4>1. /\ pc' = [pc EXCEPT ![p] = "off"] /\ mishaps' = mishaps \cup {"cutIds"}
        BY <2>8, <3>2 DEF CutShort, End, Goto
      <4>2. WritersInv'
        BY <1>2, <2>t, <3>2, <4>1 DEF IdsInv, WritersInv
      <4> QED
        BY <4>1, <4>2 DEF IdsInv, FirstInv, KeptInv
    <3> QED
      BY <3>1, <3>2
  <2>9. CASE UNCHANGED vars
    BY <1>2, <2>9 DEF vars, IdsInv, WritersInv, FirstInv, KeptInv
  <2> QED
    BY ONLY <1>2, <2>1, <2>2, <2>3, <2>4, <2>5, <2>6, <2>7, <2>8, <2>9 DEF Next
<1> QED
  BY <1>1, <1>2, TypeCorrect, PTL DEF Spec

\* A restart uses the ids of the process before it, whatever the configuration says
\* and whatever starts were refused or killed in between, unless a write of the ids
\* was cut short, a read failed, or two starts met at the file (coordinator.rs:38,
\* main.rs:85-86).
THEOREM RestartsKeepTheIds == Spec => []IdentityKept
<1>1. IdsInv => IdentityKept
  BY DEF IdsInv, FirstInv, KeptInv, IdentityKept, Connected, PastIds, Resolving
<1> QED
  BY <1>1, IdsInvariant, PTL

-----------------------------------------------------------------------------
(***************************************************************************)
(* Takeovers.  Only the process that listens on the metrics port connects. *)
(* The ids of a list are numbered from zero, unless the last one was cut   *)
(* off, which takes at least one digit: what is left of it is no number,   *)
(* or the number of an earlier id of a list with more than ten.            *)
(***************************************************************************)
PortInv == \A p \in Procs : pc[p] \in {"dispatcher", "mqtt", "serving"} => port = p

Numbered(list) ==
    \A i \in 1..Len(list) :
        \/ list[i].index = i - 1
        \/ /\ "cutIds" \in mishaps
           /\ i = Len(list)
           /\ \/ list[i].index = Stump
              \/ list[i].index \in Nat /\ list[i].index < i - 1 /\ i > 10

NumberedInv ==
    "raced" \notin mishaps => Numbered(idFile) /\ \A p \in Procs : Numbered(ids[p])

\* PortInv holds initially and is kept by every step.
LEMMA PortInvariant == Spec => []PortInv
<1>1. Init => PortInv
  BY DEF Init, PortInv
<1>2. ASSUME TypeOK, PortInv, [Next]_vars  PROVE PortInv'
  <2> USE <1>2 DEF PortInv, TypeOK, Goto
  <2>1. ASSUME NEW p \in Procs,
               \/ Start(p) \/ CheckConfig(p) \/ CheckRule(p) \/ OpenFile(p) \/ WriteFile(p)
               \/ LoadConfig(p) \/ LoadRules(p) \/ Resolve(p) \/ OpenIds(p) \/ WriteIds(p)
        PROVE  PortInv'
    <3>1. /\ UNCHANGED port /\ pc'[p] \notin {"dispatcher", "mqtt", "serving"}
          /\ \A q \in Procs \ {p} : pc'[q] = pc[q]
      BY <2>1 DEF Start, CheckConfig, CheckRule, OpenFile, WriteFile, LoadConfig, LoadRules,
         Resolve, OpenIds, WriteIds
    <3> QED
      BY <3>1
  <2>2. ASSUME NEW p \in Procs, Bind(p)  PROVE PortInv'
    BY <2>2, BootAssumption DEF Bind
  <2>3. ASSUME NEW p \in Procs, Connect(p)  PROVE PortInv'
    BY <2>3 DEF Connect
  <2>4. ASSUME NEW p \in Procs, Leave(p) \/ CutShort(p)  PROVE PortInv'
    BY <2>4 DEF Leave, CutShort, End
  <2>5. CASE UNCHANGED vars
    BY <2>5 DEF vars
  <2> QED
    BY ONLY <1>2, <2>1, <2>2, <2>3, <2>4, <2>5 DEF Next
<1> QED
  BY <1>1, <1>2, TypeCorrect, PTL DEF Spec

\* What an interrupted write leaves of a numbered list is numbered but for its last
\* id, which has lost a digit.
LEMMA CutListNumbered ==
    ASSUME NEW list \in Seq(ClientId), Numbered(list), NEW cut \in CutLists(list)
    PROVE  \A i \in 1..Len(cut) :
               \/ cut[i].index = i - 1
               \/ /\ i = Len(cut)
                  /\ \/ cut[i].index = Stump
                     \/ cut[i].index \in Nat /\ cut[i].index < i - 1 /\ i > 10
<1> SUFFICES ASSUME NEW i \in 1..Len(cut)
             PROVE  \/ cut[i].index = i - 1
                    \/ /\ i = Len(cut)
                       /\ \/ cut[i].index = Stump
                          \/ cut[i].index \in Nat /\ cut[i].index < i - 1 /\ i > 10
  OBVIOUS
<1>1. /\ Len(cut) \in Nat /\ Len(list) \in Nat /\ Len(cut) <= Len(list)
      /\ i \in 1..Len(list) /\ list[i] \in ClientId
      /\ cut[i] = list[i] \/ (i = Len(cut) /\ cut[i] \in CutIds(list[i]))
  BY CutListTypes
<1>2. \/ list[i].index = i - 1
      \/ /\ i = Len(list)
         /\ \/ list[i].index = Stump
            \/ list[i].index \in Nat /\ list[i].index < i - 1 /\ i > 10
  BY <1>1 DEF Numbered
<1>3. CASE cut[i] = list[i]
  BY <1>1, <1>2, <1>3
<1>4. CASE i = Len(cut) /\ cut[i] \in CutIds(list[i])
  <2>1. \/ cut[i].index = Stump
        \/ /\ list[i].index \in Nat /\ cut[i].index \in Nat
           /\ cut[i].index < list[i].index /\ list[i].index >= 10
    BY <1>1, <1>4, CutIdTypes
  <2>2. list[i].index \in Nat => list[i].index <= i - 1
    BY <1>1, <1>2, BootAssumption
  <2> QED
    BY <1>1, <1>4, <2>1, <2>2
<1> QED
  BY <1>1, <1>3, <1>4

\* NumberedInv holds initially and is kept by every step.
LEMMA NumberedInvariant == Spec => []NumberedInv
<1>1. Init => NumberedInv
  <2> SUFFICES ASSUME Init  PROVE NumberedInv
    OBVIOUS
  <2>1. idFile = <<>> /\ \A p \in Procs : ids[p] = <<>>
    BY DEF Init
  <2> QED
    BY <2>1 DEF NumberedInv, Numbered
<1>2. ASSUME TypeOK, IdsInv, NumberedInv, [Next]_vars  PROVE NumberedInv'
  <2>t. /\ DOMAIN ids = Procs /\ ids \in [Procs -> Seq(ClientId)] /\ idFile \in Seq(ClientId)
    BY <1>2 DEF TypeOK
  <2>0. ASSUME "raced" \notin mishaps', mishaps \subseteq mishaps'
        PROVE  /\ "raced" \notin mishaps
               /\ \A list : Numbered(list) => Numbered(list)'
               /\ Numbered(<<>>)'
    BY <2>0 DEF Numbered
  <2>1. ASSUME NEW p \in Procs, Start(p)  PROVE NumberedInv'
    <3>1. /\ mishaps' = mishaps /\ idFile' = idFile
          /\ \A q \in Procs : ids'[q] \in {ids[q], <<>>}
      BY <2>1, <2>t DEF Start
    <3> QED
      BY <1>2, <2>0, <3>1 DEF NumberedInv
  <2>2. ASSUME mishaps \subseteq mishaps', idFile' \in {idFile, <<>>}, ids' = ids
        PROVE  NumberedInv'
    BY <1>2, <2>0, <2>2 DEF NumberedInv
  <2>3. ASSUME NEW p \in Procs,
               \/ CheckConfig(p) \/ CheckRule(p) \/ OpenFile(p) \/ WriteFile(p) \/ LoadConfig(p)
               \/ LoadRules(p) \/ OpenIds(p) \/ Bind(p) \/ Connect(p) \/ Leave(p)
        PROVE  NumberedInv'
    BY <2>2, <2>3 DEF CheckConfig, CheckRule, OpenFile, WriteFile, LoadConfig, LoadRules, OpenIds,
       Bind, Connect, Leave, End
  <2>4. ASSUME NEW p \in Procs, Resolve(p)  PROVE NumberedInv'
    <3>1. /\ mishaps \subseteq mishaps' /\ idFile' = idFile
          /\ \A q \in Procs \ {p} : ids'[q] = ids[q]
          /\ ids'[p] \in {idFile, FreshIds(p)}
      BY <2>4, <2>t DEF Resolve, Resolved
    <3>2. Numbered(FreshIds(p))
      BY <1>2, FreshIdsTypes DEF Numbered
    <3> QED
      BY <1>2, <2>0, <3>1, <3>2 DEF NumberedInv
  <2>5. ASSUME NEW p \in Procs, WriteIds(p)  PROVE NumberedInv'
    <3>1. /\ pc[p] = "writeIds" /\ mishaps' = mishaps /\ ids' = ids
          /\ idFile' = Overwritten(ids[p])
      BY <2>5 DEF WriteIds
    <3>2. "raced" \notin mishaps => idFile' = ids[p]
      BY <1>2, <2>t, <3>1, OverwrittenTypes DEF IdsInv, WritersInv
    <3> QED
      BY <1>2, <2>0, <3>1, <3>2 DEF NumberedInv
  <2>6. ASSUME NEW p \in Procs, CutShort(p)  PROVE NumberedInv'
    <3>1. CASE pc[p] # "writeIds"
      BY <2>2, <2>6, <3>1 DEF CutShort, End
    <3>2. CASE pc[p] = "writeIds"
      <4>1. PICK list \in CutLists(ids[p]) : idFile' = Overwritten(list)
        BY <2>6, <3>2 DEF CutShort
      <4>2. mishaps' = mishaps \cup {"cutIds"} /\ ids' = ids
        BY <2>6, <3>2 DEF CutShort, End
      <4> SUFFICES ASSUME "raced" \notin mishaps'
                   PROVE  NumberedInv'
        BY DEF NumberedInv
      <4>3. Numbered(ids[p]) /\ "raced" \notin mishaps
        BY <1>2, <2>0, <4>2 DEF NumberedInv
      <4>4. idFile' = list
        BY <1>2, <2>t, <3>2, <4>1, <4>3, CutListTypes, OverwrittenTypes DEF IdsInv, WritersInv
      <4>5. Numbered(list)'
        BY <2>t, <4>2, <4>3, CutListNumbered DEF Numbered
      <4> QED
        BY <1>2, <2>0, <4>2, <4>4, <4>5 DEF NumberedInv
    <3> QED
      BY <3>1, <3>2
  <2>7. CASE UNCHANGED vars
    BY <2>2, <2>7 DEF vars
  <2> QED
    BY ONLY <1>2, <2>1, <2>3, <2>4, <2>5, <2>6, <2>7 DEF Next
<1> QED
  BY <1>1, <1>2, TypeCorrect, IdsInvariant, PTL DEF Spec

\* Processes that share the files never connect with the same client id, and within
\* a process an id occurs twice only if two starts met at the file or the last of
\* more than ten ids was cut off (metrics.rs:75, oss.rs:81), for any number of
\* processes and clients.
THEOREM NobodyIsTakenOver == Spec => []NoTakeover
<1>1. TypeOK /\ PortInv /\ NumberedInv => NoTakeover
  <2> SUFFICES ASSUME TypeOK, PortInv, NumberedInv,
                      NEW p \in Connected, NEW q \in Connected,
                      NEW i \in DOMAIN ids[p], NEW j \in DOMAIN ids[q], ids[p][i] = ids[q][j]
               PROVE  /\ p = q
                      /\ \/ i = j
                         \/ "raced" \in mishaps
                         \/ /\ "cutIds" \in mishaps
                            /\ Len(ids[p]) > 10
                            /\ Len(ids[p]) \in {i, j}
    BY DEF NoTakeover
  <2>1. p = q
    BY DEF PortInv, Connected
  <2>2. /\ p \in Procs /\ ids[p] \in Seq(ClientId)
        /\ i \in 1..Len(ids[p]) /\ j \in 1..Len(ids[p]) /\ Len(ids[p]) \in Nat
    BY <2>1 DEF TypeOK, Connected
  <2>3. ASSUME "raced" \notin mishaps, i # j
        PROVE  /\ "cutIds" \in mishaps /\ Len(ids[p]) > 10 /\ Len(ids[p]) \in {i, j}
    <3>1. Numbered(ids[p])
      BY <2>2, <2>3 DEF NumberedInv
    <3>2. ids[p][i].index = ids[p][j].index
      BY <2>1
    <3>3. i - 1 \in Nat /\ j - 1 \in Nat /\ i - 1 # j - 1
      BY <2>2, <2>3
    <3>4. ~(ids[p][i].index = i - 1 /\ ids[p][j].index = j - 1)
      BY <3>2, <3>3
    <3>5. CASE ids[p][i].index # i - 1
      <4>1. "cutIds" \in mishaps /\ i = Len(ids[p])
        BY <2>2, <3>1, <3>5 DEF Numbered
      <4>2. ids[p][j].index = j - 1
        BY <2>2, <2>3, <3>1, <4>1 DEF Numbered
      <4>3. ids[p][i].index # Stump
        BY <3>2, <3>3, <4>2, BootAssumption
      <4> QED
        BY <2>2, <3>1, <3>5, <4>1, <4>3 DEF Numbered
    <3>6. CASE ids[p][j].index # j - 1
      <4>1. "cutIds" \in mishaps /\ j = Len(ids[p])
        BY <2>2, <3>1, <3>6 DEF Numbered
      <4>2. ids[p][i].index = i - 1
        BY <2>2, <2>3, <3>1, <4>1 DEF Numbered
      <4>3. ids[p][j].index # Stump
        BY <3>2, <3>3, <4>2, BootAssumption
      <4> QED
        BY <2>2, <3>1, <3>6, <4>1, <4>3 DEF Numbered
    <3> QED
      BY <3>4, <3>5, <3>6
  <2> QED
    BY <2>1, <2>3
<1> QED
  BY <1>1, TypeCorrect, PortInvariant, NumberedInvariant, PTL
=============================================================================
