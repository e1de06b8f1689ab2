-------------------------------- MODULE Boot --------------------------------
(***************************************************************************)
(* The start of tenon-oss up to the point where it serves (main.rs run,    *)
(* provision_default_config_if_missing, load_config; coordinator.rs and    *)
(* oss.rs; metrics.rs start_metrics_server): several processes that share  *)
(* a directory and may be started at the same time, refused, killed in the *)
(* middle of a write, and started again.                                   *)
(*                                                                         *)
(* fs::write is two steps, opening (which truncates) and writing.  A       *)
(* client id is the node id and an index; what is left of an id that was   *)
(* cut off is either the id of a smaller index or a Stump.  All            *)
(* configurations name the same client_ids file.                           *)
(***************************************************************************)
EXTENDS Naturals, Sequences

CONSTANTS Procs,      \* processes; one that has ended can be started again
          Configs,    \* configuration files an operator passes with -c
          Generated,  \* mqtt.node_id is not set
          Stump,      \* stands for the index in what is left of a client id
          NoProc,     \* nobody listens on the metrics port
          MaxStarts   \* bound: processes started

\* What provision_default_config_if_missing writes, as far as it matters here.
DefaultConfig == [node |-> Generated, count |-> 1, rules |-> "provisioned"]

ASSUME BootAssumption ==
    /\ \A c \in Configs : /\ DOMAIN c = DOMAIN DefaultConfig
                          /\ c.count \in Nat
                          /\ c.rules \in {"provisioned", "own"}
    /\ DefaultConfig \notin Configs
    /\ Stump \notin Nat
    /\ NoProc \notin Procs
    /\ MaxStarts \in Nat

VARIABLES
    file,      \* rule.json and config.json: "absent", "partial" or "complete"
    idFile,    \* the ids in client_ids; << >> if there are none, or no file
    port,      \* the process that listens on METRICS_PORT, or NoProc
    pc,        \* per process, where it is in run()
    cfg,       \* per process, its configuration
    ids,       \* per process, client_ids
    birth,     \* per process, the number of its start: generate_default_node_id
    starts,    \* processes started so far
    identity,  \* history: the ids first written out in full
    mishaps    \* history: what disturbed the files, see Mishaps

vars == <<file, idFile, port, pc, cfg, ids, birth, starts, identity, mishaps>>

\* "cutRule", "cutIds": a write of the file was not finished; "unread": the ids
\* could not be read; "raced": two starts met at the ids.
Mishaps == {"cutRule", "cutIds", "unread", "raced"}

\* The process has begun to connect its clients.
Connected == {p \in Procs : pc[p] \in {"mqtt", "serving"}}

Init ==
    /\ file = [f \in {"rule", "config"} |-> "absent"]
    /\ idFile = <<>>
    /\ port = NoProc
    /\ pc = [p \in Procs |-> "off"]
    /\ cfg = [p \in Procs |-> DefaultConfig]
    /\ ids = [p \in Procs |-> <<>>]
    /\ birth = [p \in Procs |-> 0]
    /\ starts = 0
    /\ identity = <<>>
    /\ mishaps = {}

Goto(p, where) == pc' = [pc EXCEPT ![p] = where]

-----------------------------------------------------------------------------
\* provision_default_config_if_missing

Start(p) ==
    /\ pc[p] = "off"
    /\ starts < MaxStarts
    /\ starts' = starts + 1
    /\ birth' = [birth EXCEPT ![p] = starts + 1]
    /\ ids' = [ids EXCEPT ![p] = <<>>]
    /\ cfg' = [cfg EXCEPT ![p] = DefaultConfig]
    /\ Goto(p, "checkConfig")
    /\ UNCHANGED <<file, idFile, port, identity, mishaps>>

\* is_file() of config.json, and of rule.json only if that is missing.
CheckConfig(p) ==
    /\ pc[p] = "checkConfig"
    /\ Goto(p, IF file["config"] = "absent" THEN "checkRule" ELSE "load")
    /\ UNCHANGED <<file, idFile, port, cfg, ids, birth, starts, identity, mishaps>>

\* Faulty variant of CheckRule: the configuration is written first.
CheckRuleLast(p) ==
    /\ pc[p] = "checkRule"
    /\ IF file["config"] = "absent" THEN Goto(p, "openConfig")
       ELSE Goto(p, IF file["rule"] = "absent" THEN "openRule" ELSE "load")
    /\ UNCHANGED <<file, idFile, port, cfg, ids, birth, starts, identity, mishaps>>

CheckRule(p) ==
    /\ pc[p] = "checkRule"
    /\ Goto(p, IF file["rule"] = "absent" THEN "openRule" ELSE "openConfig")
    /\ UNCHANGED <<file, idFile, port, cfg, ids, birth, starts, identity, mishaps>>

\* fs::write opens rule.json, then config.json, and fills it.
OpenFile(p) ==
    /\ \/ /\ pc[p] = "openRule"
          /\ file' = [file EXCEPT !["rule"] = "partial"]
          /\ Goto(p, "writeRule")
       \/ /\ pc[p] = "openConfig"
          /\ file' = [file EXCEPT !["config"] = "partial"]
          /\ Goto(p, "writeConfig")
    /\ UNCHANGED <<idFile, port, cfg, ids, birth, starts, identity, mishaps>>

WriteFile(p) ==
    /\ \/ /\ pc[p] = "writeRule"
          /\ file' = [file EXCEPT !["rule"] = "complete"]
          /\ Goto(p, "openConfig")
       \/ /\ pc[p] = "writeConfig"
          /\ file' = [file EXCEPT !["config"] = "complete"]
          /\ Goto(p, "load")
    /\ UNCHANGED <<idFile, port, cfg, ids, birth, starts, identity, mishaps>>

-----------------------------------------------------------------------------
\* run, from the command line to the rules

\* parse_cli_with_default_resolver: the file given with -c, or the default one.
Requested == Configs \cup {DefaultConfig}

\* load_config; the default file may have been cut short.
LoadConfig(p) ==
    /\ pc[p] = "load"
    /\ \E c \in Requested :
          /\ c = DefaultConfig => file["config"] = "complete"
          /\ cfg' = [cfg EXCEPT ![p] = c]
    /\ Goto(p, "rules")
    /\ UNCHANGED <<file, idFile, port, ids, birth, starts, identity, mishaps>>

\* load_rule_bytes, build_rule_engine and load_rules_from_json_bytes.
LoadRules(p) ==
    /\ pc[p] = "rules"
    /\ cfg[p].rules = "provisioned" => file["rule"] = "complete"
    /\ Goto(p, "resolve")
    /\ UNCHANGED <<file, idFile, port, cfg, ids, birth, starts, identity, mishaps>>

-----------------------------------------------------------------------------
\* The client ids

\* Faulty variant of AtLeastOne: a count of zero is taken as it is.
CountAsIs(n) == n

\* normalize_client_count
AtLeastOne(n) == IF n = 0 THEN 1 ELSE n

\* node_id of the configuration, or one made of process id and time.
NodeId(p) == IF cfg[p].node = Generated THEN birth[p] ELSE cfg[p].node

\* The ids resolve_client_ids makes up.
FreshIds(p) == [i \in 1..AtLeastOne(cfg[p].count) |->
                   [node |-> NodeId(p), index |-> i - 1]]

\* Faulty variant of Resolved: a list of another length than client_count is
\* taken for outdated.
ResolvedByCount(p, stored) ==
    IF Len(stored) = AtLeastOne(cfg[p].count) THEN stored ELSE FreshIds(p)

\* The ids parse_client_ids finds, if it finds any; whatever client_count says.
Resolved(p, stored) == IF stored # <<>> THEN stored ELSE FreshIds(p)

\* Another start is about to write the ids, or in the middle of it.
Meeting(p) == \E q \in Procs \ {p} : \/ pc[q] = "writeIds"
                                     \/ pc[q] = "openIds" /\ idFile = <<>>

\* resolve_client_ids: an error of load_client_ids counts as no ids.
Resolve(p) ==
    /\ pc[p] = "resolve"
    /\ \/ /\ ids' = [ids EXCEPT ![p] = Resolved(p, idFile)]
          /\ mishaps' = mishaps \cup (IF Meeting(p) THEN {"raced"} ELSE {})
       \/ /\ ids' = [ids EXCEPT ![p] = Resolved(p, <<>>)]
          /\ mishaps' = mishaps \cup {"unread"}
    /\ Goto(p, "openIds")
    /\ UNCHANGED <<file, idFile, port, cfg, birth, starts, identity>>

\* persist_client_ids, which comes before anything else is tried: fs::write
\* opens the file.
OpenIds(p) ==
    /\ pc[p] = "openIds"
    /\ idFile' = <<>>
    /\ mishaps' = mishaps \cup
                  (IF \E q \in Procs \ {p} : pc[q] = "writeIds" THEN {"raced"} ELSE {})
    /\ Goto(p, "writeIds")
    /\ UNCHANGED <<file, port, cfg, ids, birth, starts, identity>>

\* What was written since the file was opened is overwritten from the start.
Overwritten(new) == new \o SubSeq(idFile, Len(new) + 1, Len(idFile))

WriteIds(p) ==
    /\ pc[p] = "writeIds"
    /\ idFile' = Overwritten(ids[p])
    /\ identity' = IF identity = <<>> THEN ids[p] ELSE identity
    /\ Goto(p, "bind")
    /\ UNCHANGED <<file, port, cfg, ids, birth, starts, mishaps>>

-----------------------------------------------------------------------------
\* run, from the metrics endpoint to the event loops

\* Faulty variant of Bind: a port in use is only worth a warning.
BindOrWarn(p) ==
    /\ pc[p] = "bind"
    /\ port' = p
    /\ Goto(p, "dispatcher")
    /\ UNCHANGED <<file, idFile, cfg, ids, birth, starts, identity, mishaps>>

\* start_metrics_server: TcpListener::bind.
Bind(p) ==
    /\ pc[p] = "bind"
    /\ port = NoProc
    /\ port' = p
    /\ Goto(p, "dispatcher")
    /\ UNCHANGED <<file, idFile, cfg, ids, birth, starts, identity, mishaps>>

\* Dispatcher::new, build_handler, then start_mqtt until it returns.
Connect(p) ==
    /\ \/ pc[p] = "dispatcher" /\ Goto(p, "mqtt")
       \/ pc[p] = "mqtt" /\ Goto(p, "serving")
    /\ UNCHANGED <<file, idFile, port, cfg, ids, birth, starts, identity, mishaps>>

-----------------------------------------------------------------------------
\* The ways out

End(p) ==
    /\ Goto(p, "off")
    /\ port' = IF port = p THEN NoProc ELSE port
    /\ UNCHANGED <<cfg, ids, birth, starts, identity>>

\* run returns, or the process is killed, between two writes: help or version
\* was asked for; a file cannot be read, opened, parsed or compiled; the port is
\* taken; a sink is missing or cannot be made; start_mqtt fails; it was stopped.
Leave(p) ==
    /\ pc[p] \notin {"off", "writeRule", "writeConfig", "writeIds"}
    /\ End(p)
    /\ UNCHANGED <<file, idFile, mishaps>>

\* What is left of an id whose last characters are missing; indexes have up to five
\* digits.
CutIds(id) ==
    {[id EXCEPT !.index = Stump]} \cup
    (IF id.index = Stump THEN {}
     ELSE {[id EXCEPT !.index = i] :
              i \in {id.index \div d : d \in {10, 100, 1000, 10000}} \ {0}})

\* What is left of a list of ids whose last characters are missing.
CutLists(list) ==
    {SubSeq(list, 1, k) : k \in 0..Len(list)} \cup
    UNION {{Append(SubSeq(list, 1, k - 1), id) : id \in CutIds(list[k])} : k \in 1..Len(list)}

\* fs::write fails, or the process is killed, before everything is written.
CutShort(p) ==
    /\ \/ /\ pc[p] \in {"writeRule", "writeConfig"}
          /\ mishaps' = mishaps \cup (IF pc[p] = "writeRule" THEN {"cutRule"} ELSE {})
          /\ UNCHANGED idFile
       \/ /\ pc[p] = "writeIds"
          /\ mishaps' = mishaps \cup {"cutIds"}
          /\ \E list \in CutLists(ids[p]) : idFile' = Overwritten(list)
    /\ End(p)
    /\ UNCHANGED file

Next == \E p \in Procs :
    \/ Start(p) \/ CheckConfig(p) \/ CheckRule(p) \/ OpenFile(p) \/ WriteFile(p)
    \/ LoadConfig(p) \/ LoadRules(p) \/ Resolve(p) \/ OpenIds(p) \/ WriteIds(p)
    \/ Bind(p) \/ Connect(p) \/ Leave(p) \/ CutShort(p)

Spec == Init /\ [][Next]_vars

-----------------------------------------------------------------------------
\* Properties

Steps == {"off", "checkConfig", "checkRule", "openRule", "writeRule", "openConfig",
          "writeConfig", "load", "rules", "resolve", "openIds", "writeIds", "bind",
          "dispatcher", "mqtt", "serving"}

Node == Nat \cup {c.node : c \in Configs}

ClientId == [node : Node, index : Nat \cup {Stump}]

\* Every variable has its type, and a process past resolve_client_ids has at
\* least one client.
TypeOK ==
    /\ file \in [{"rule", "config"} -> {"absent", "partial", "complete"}]
    /\ idFile \in Seq(ClientId)
    /\ port \in Procs \cup {NoProc}
    /\ pc \in [Procs -> Steps]
    /\ cfg \in [Procs -> Configs \cup {DefaultConfig}]
    /\ ids \in [Procs -> Seq(ClientId)]
    /\ birth \in [Procs -> 0..MaxStarts]
    /\ starts \in 0..MaxStarts
    /\ identity \in Seq(ClientId)
    /\ mishaps \in SUBSET Mishaps
    /\ \A p \in Procs : pc[p] \in {"openIds", "writeIds", "bind"} => ids[p] # <<>>

\* Unless mqtt.clean_start is set, as it is by default, the broker resumes the
\* session of a client id, so a restart must use the ids of the process before
\* it.  It does, whatever the configuration says by then
\* and whatever starts were refused or killed in between, unless a write of the
\* ids was cut short, a read failed, or two starts met at the file
\* (coordinator.rs:38, main.rs:85-86).
IdentityKept ==
    mishaps \subseteq {"cutRule"} =>
        /\ \A p \in Connected : ids[p] = identity
        /\ idFile \in {<<>>, identity}

\* MQTT allows one connection per client id: a second one takes the session over.
\* Two processes that share the files never connect with the same id, because
\* the metrics port admits one of them (metrics.rs:75).  Within a process an id
\* occurs twice only if two starts met at the file, or if the last of more than
\* ten ids was cut off, which turns index 10 into 1 (oss.rs:81).
NoTakeover ==
    \A p, q \in Connected : \A i \in DOMAIN ids[p], j \in DOMAIN ids[q] :
        ids[p][i] = ids[q][j] =>
            /\ p = q
            /\ \/ i = j
               \/ "raced" \in mishaps
               \/ /\ "cutIds" \in mishaps
                  /\ Len(ids[p]) > 10
                  /\ Len(ids[p]) \in {i, j}

\* A provisioned configuration refers to a rule file that can be loaded, unless
\* the write of that file is under way or was cut short: rule.json is written
\* before config.json (main.rs:276-305).
ProvisionedInOrder ==
    file["config"] = "complete" =>
        \/ file["rule"] = "complete"
        \/ \E p \in Procs : pc[p] = "writeRule"
        \/ "cutRule" \in mishaps
=============================================================================
