------------------------------ MODULE RuleEval ------------------------------
(***************************************************************************)
(* Loading a rule file and evaluating a message by all the rules that      *)
(* match its topic (runtime.rs evaluate, rule.rs compile_rule and          *)
(* evaluate_rule_with_payload_and_topic_parts, payload.rs, msg_ir.rs).     *)
(*                                                                         *)
(* Which rules match is the subject of RuleEngine: here all rules have one *)
(* topic filter, which the message matches.  Between messages the engine   *)
(* keeps nothing but the match cache and counters, so one message is       *)
(* enough.  Rules are evaluated independently, in parallel or not, so the  *)
(* attempts of a message are one step.                                     *)
(***************************************************************************)
EXTENDS RuleExpr, FiniteSets

CONSTANTS Definitions,   \* rule definitions that may be in the file
          Messages,      \* messages that may arrive
          Schemas,       \* the protobuf messages in the descriptor set
          MaxRules,      \* bound: rules in the file
          MaxDepth,      \* bound: how deep a payload nests; serde_json stops at 128
          NoSchema,      \* a definition without a schema
          NoMessage,     \* nothing received yet
          Garbage        \* a payload that cannot be parsed

VARIABLES format,      \* the decoder: "json" or "protobuf"; never changes
          file,        \* history: the definitions read so far
          rules,       \* the compiled rules
          phase,       \* "loading", "refused", "serving", "answered"
          message,     \* the message evaluated
          results,     \* what evaluate returned, by rule index
          evalCount, errorCount, typeErrorCount, payloadErrorCount

engineVars == <<format, file, rules>>
countVars  == <<evalCount, errorCount, typeErrorCount, payloadErrorCount>>
vars == <<engineVars, phase, message, results, countVars>>

Nothing == [i \in {} |-> Null]

-----------------------------------------------------------------------------
(***************************************************************************)
(* Compiling a rule.  An empty list of columns stands for "*".             *)
(***************************************************************************)

\* A column of a definition: an expression, or "*", and the name of its value.
Columns == [expr : Expressions \cup {[node |-> "star"]}, alias : STRING]

\* parse_select_items: a "*" anywhere in the list makes it "*".
parse_select_items(items) ==
    IF \E i \in DOMAIN items : items[i].expr.node = "star" THEN <<>> ELSE items

\* compile_rule: plans of the columns and of the predicate.
Compiled(def) ==
    LET items == parse_select_items(def.select)
    IN  [select |-> [i \in DOMAIN items |-> [expr  |-> compile_expr_plan[items[i].expr],
                                             alias |-> items[i].alias]],
         where  |-> compile_expr_plan[def.where],
         schema |-> def.schema]

\* The plans of a rule, and what they need: payload fields and topic levels.
PlansOf(rule) == {rule.select[i].expr : i \in DOMAIN rule.select} \cup {rule.where}
FieldsOf(rule) == UNION {required_payload_fields(p) : p \in PlansOf(rule)}
NeedsTopic(rule) == \E p \in PlansOf(rule) : plan_requires_topic_parts(p)

\* Faulty variant of Compatible: an expression that is not supported is let through.
CompatibleSchema(def) == (format = "protobuf") = (def.schema # NoSchema)

\* add_rule succeeds: JSON rules have no schema and protobuf rules have one, and
\* no expression is of a kind that compile_expr_plan does not know.
Compatible(def) ==
    /\ (format = "protobuf") = (def.schema # NoSchema)
    /\ \A p \in PlansOf(Compiled(def)) : ~plan_has_unknown(p)

-----------------------------------------------------------------------------
(***************************************************************************)
(* Decoding the payload.                                                   *)
(***************************************************************************)

Entries == {"object", "map"}

\* The value at the end of a path of names that leads through values of some kinds, or
\* an error.  Fields that are not set are not there.
Field(value, name, kinds) ==
    IF value.kind \in kinds /\ name \in DOMAIN value.fields THEN value.fields[name]
    ELSE OtherError

Walk(value, path, kinds) ==
    LET at[n \in 0..Len(path)] ==
            IF n = 0 THEN value ELSE Field(at[n-1], path[n], kinds)
    IN  at[Len(path)]

\* A rule's path leads through objects (protobuf: messages) only, not through arrays
\* and protobuf maps.
Lookup(value, path) == Walk(value, path, {"object"})

\* Faulty variant of Sparse: a missing field is decoded as null.
SparseWithNulls(value, fields) ==
    [p \in fields |-> IF Failed(Lookup(value, p)) THEN Null ELSE Lookup(value, p)]

\* PayloadDecodePlan::Sparse: the required fields that are there.
Sparse(value, fields) ==
    [p \in {q \in fields : ~Failed(Lookup(value, q))} |-> Lookup(value, p)]

\* PayloadDecodePlan::Full: every value of the tree under its path, what is in a map
\* included.  No name has a dot in it.
NamesAt(value, path) ==
    LET v == Walk(value, path, Entries) IN IF v.kind \in Entries THEN DOMAIN v.fields ELSE {}

PathsIn(value) ==
    LET OfLength[n \in 0..MaxDepth] ==
            IF n = 0 THEN {<<>>}
            ELSE UNION {{Append(p, name) : name \in NamesAt(value, p)} : p \in OfLength[n-1]}
    IN  UNION {OfLength[n] : n \in 0..MaxDepth}

Full(value) == [p \in PathsIn(value) \ {<<>>} |-> Walk(value, p, Entries)]

\* JSON has no maps besides objects, whose names are texts, and nests no deeper than its
\* parser lets it.
IsJson(value) ==
    \A p \in PathsIn(value) :
        LET v == Walk(value, p, Entries)
        IN  \/ v.kind \in {"null", "bool", "number", "string", "array"}
            \/ v.kind = "object" /\ DOMAIN v.fields \subseteq STRING /\ Len(p) < MaxDepth

ASSUME RuleEvalAssumption ==
    /\ MaxRules \in Nat /\ MaxDepth \in Nat
    /\ NoSchema \notin Schemas
    /\ NoMessage \notin Messages
    /\ \A def \in Definitions :
          def.where \in Expressions /\ def.select \in Seq(Columns)
    /\ \A m \in Messages : m.payload[NoSchema] = Garbage \/ IsJson(m.payload[NoSchema])

\* Faulty variant of Readable: a JSON payload is parsed whether it is needed or not.
ReadableAlways(payload, fields, schema) ==
    /\ payload # Garbage
    /\ IF format = "json" THEN payload.kind = "object" ELSE schema \in Schemas

\* The payload can be decoded: JSON must be an object, but is not looked at when no
\* rule needs a field; protobuf must parse under a schema of the descriptor set.
Readable(payload, fields, schema) ==
    IF format = "json"
    THEN fields = {} \/ (payload # Garbage /\ payload.kind = "object")
    ELSE schema \in Schemas /\ payload # Garbage

-----------------------------------------------------------------------------
\* The last column of an alias wins: output.insert.
LastWith(alias, aliases) ==
    CHOOSE i \in DOMAIN aliases :
        /\ aliases[i] = alias
        /\ \A j \in DOMAIN aliases : aliases[j] = alias => j <= i

\* What a rule makes of a message that satisfies its predicate, given the names and the
\* values of its columns: a copy, or an object of all its columns, or the first error.
Projected(aliases, values) ==
    LET wrong == {i \in DOMAIN aliases : Failed(values[i])}
    IN  IF DOMAIN aliases = {} THEN [kind |-> "copy"]
        ELSE IF wrong # {} THEN values[CHOOSE i \in wrong : \A j \in wrong : i <= j]
        ELSE [kind |-> "columns",
              columns |-> [a \in {aliases[i] : i \in DOMAIN aliases} |->
                              values[LastWith(a, aliases)]]]

Aliases(select) == [i \in DOMAIN select |-> select[i].alias]

\* evaluate_single_rule: an output, an error or "filtered".
Attempt(rule, ctx) ==
    LET holds   == evaluate_plan_bool(rule.where, Values(ctx))
        columns == [i \in DOMAIN rule.select |-> Values(ctx)[rule.select[i].expr]]
    IN  IF Failed(holds) THEN holds
        ELSE IF ~holds.bool THEN [kind |-> "filtered"]
        ELSE Projected(Aliases(rule.select), columns)

\* The rules are evaluated in groups that share a decoded payload: one group for JSON,
\* one for each schema for protobuf.  FieldsFor are the fields decoded for a group.
GroupOf(i) == {j \in DOMAIN rules : rules[j].schema = rules[i].schema}
FieldsFor(group) == UNION {FieldsOf(rules[j]) : j \in group}
PayloadFor(i, m) == m.payload[rules[i].schema]

\* Faulty variant of PartsFor: the topic is split if the first rule needs it.
PartsForFirst(group, m) ==
    IF \E i \in group : NeedsTopic(rules[i]) /\ \A j \in group : i <= j
    THEN m.topic ELSE <<>>

\* The topic is split if a rule of the group needs its levels.
PartsFor(group, m) ==
    IF \E i \in group : NeedsTopic(rules[i]) THEN m.topic ELSE <<>>

\* What the rules of a group see of a message; nothing is decoded for no fields.
ContextFor(i, m) ==
    [ir      |-> IF FieldsFor(GroupOf(i)) = {} THEN Nothing
                 ELSE Sparse(PayloadFor(i, m), FieldsFor(GroupOf(i))),
     topic   |-> PartsFor(GroupOf(i), m),
     message |-> m]

-----------------------------------------------------------------------------
Init ==
    /\ format \in {"json", "protobuf"}
    /\ file = <<>>
    /\ rules = <<>>
    /\ phase = "loading"
    /\ message = NoMessage
    /\ results = Nothing
    /\ evalCount = 0 /\ errorCount = 0 /\ typeErrorCount = 0 /\ payloadErrorCount = 0

\* load_rules_from_json_bytes adds the rules in their order ...
AddRule(def) ==
    /\ phase = "loading"
    /\ Len(rules) < MaxRules
    /\ Compatible(def)
    /\ file' = Append(file, def)
    /\ rules' = Append(rules, Compiled(def))
    /\ UNCHANGED <<format, phase, message, results, countVars>>

\* ... and gives up at the first that is rejected: main returns the error.
RefuseRule(def) ==
    /\ phase = "loading"
    /\ Len(rules) < MaxRules
    /\ ~Compatible(def)
    /\ phase' = "refused"
    /\ UNCHANGED <<engineVars, message, results, countVars>>

\* The end of the file.
RulesLoaded ==
    /\ phase = "loading"
    /\ phase' = "serving"
    /\ UNCHANGED <<engineVars, message, results, countVars>>

\* record_eval_success and record_eval_error.
Counted(attempts) ==
    LET Errors == {i \in DOMAIN attempts : Failed(attempts[i])}
    IN  /\ evalCount' = evalCount + Cardinality(DOMAIN attempts)
        /\ errorCount' = errorCount + Cardinality(Errors)
        /\ typeErrorCount' = typeErrorCount + Cardinality({i \in Errors : attempts[i].type})

\* RuleEngine::evaluate.
Evaluate(m) ==
    /\ phase = "serving"
    /\ phase' = "answered"
    /\ message' = m
    /\ LET InReach  == {i \in DOMAIN rules :
                          Readable(PayloadFor(i, m), FieldsFor(GroupOf(i)), rules[i].schema)}
           attempts == [i \in InReach |-> Attempt(rules[i], ContextFor(i, m))]
           answered == {i \in InReach : attempts[i].kind \in {"copy", "columns"}}
       IN  /\ results' = [i \in answered |-> attempts[i]]
           /\ Counted(attempts)
           /\ payloadErrorCount' = payloadErrorCount
                 + Cardinality({GroupOf(i) : i \in DOMAIN rules \ InReach})
    /\ UNCHANGED engineVars

Next ==
    \/ \E def \in Definitions : AddRule(def) \/ RefuseRule(def)
    \/ RulesLoaded
    \/ \E m \in Messages : Evaluate(m)

Spec == Init /\ [][Next]_vars

-----------------------------------------------------------------------------
(***************************************************************************)
(* The reference: what a definition means for a message, read off the      *)
(* expression as written and the payload as sent.  There are no plans, no  *)
(* folding, no required fields, no groups and no second way to compare.    *)
(***************************************************************************)
Meanings(m, payload) ==
    LET meaning[expr \in Expressions] ==
        CASE expr.node = "const" -> expr.value
          [] expr.node = "name"  ->
                IF Len(expr.path) > 1 \/ expr.path[1] \notin MetaNames
                THEN Lookup(payload, expr.path)
                ELSE IF expr.path[1] \in DOMAIN m.meta THEN m.meta[expr.path[1]]
                ELSE OtherError
          [] expr.node = "topic_level" -> TopicLevel(meaning[expr.level], m.topic)
          [] expr.node = "property"    -> PropertyOf(meaning[expr.key], m.properties)
          [] expr.node = "binary" ->
                LET l == meaning[expr.left]
                    r == meaning[expr.right]
                IN  FirstError(l, r, Apply(l, expr.op, r))
          [] OTHER -> OtherError
    IN  meaning

\* The output of a definition, or another kind of record when there is none.
Answer(def, m, payload) ==
    LET holds   == Meanings(m, payload)[def.where]
        items   == parse_select_items(def.select)
        columns == [i \in DOMAIN items |-> Meanings(m, payload)[items[i].expr]]
    IN  IF Failed(holds) \/ holds.kind # "bool" THEN TypeError
        ELSE IF ~holds.bool THEN [kind |-> "filtered"]
        ELSE Projected(Aliases(items), columns)

\* An expression, or a definition, names a payload field.
Names[expr \in Expressions] ==
    \/ expr.node = "name" /\ (Len(expr.path) > 1 \/ expr.path[1] \notin MetaNames)
    \/ \E part \in Children(expr) : Names[part]

NamesAField(def) ==
    \/ Names[def.where]
    \/ \E i \in DOMAIN parse_select_items(def.select) : Names[def.select[i].expr]

\* The payload is of no use to the rules of a schema.
Unusable(m, schema) ==
    LET payload == m.payload[schema]
    IN  IF format = "json"
        THEN /\ payload = Garbage \/ payload.kind # "object"
             /\ \E i \in DOMAIN file : NamesAField(file[i])
        ELSE payload = Garbage \/ schema \notin Schemas

-----------------------------------------------------------------------------
\* Types, and the normal form of a compiled rule: no plan that cannot be evaluated, and
\* no operation on two constants left that could have been folded.
TypeOK ==
    /\ format \in {"json", "protobuf"}
    /\ Len(file) = Len(rules) /\ Len(rules) <= MaxRules
    /\ \A i \in DOMAIN rules : \A plan \in PlansOf(rules[i]) : \A p \in Subplans[plan] :
          /\ p.node \in {"const", "field", "meta", "binary", "topic_level", "property"}
          /\ (p.node = "binary" /\ p.left.node = "const" /\ p.right.node = "const")
                => Failed(Apply(p.left.value, p.op, p.right.value))
    /\ phase \in {"loading", "refused", "serving", "answered"}
    /\ (message = NoMessage) = (phase # "answered")
    /\ DOMAIN results \subseteq DOMAIN rules
    /\ \A i \in DOMAIN results : results[i].kind \in {"copy", "columns"}
    /\ {evalCount, errorCount, typeErrorCount, payloadErrorCount} \subseteq 0..MaxRules

\* Every rule answers as if it were alone and its expressions were evaluated as written:
\* compiling, folding, decoding only the fields that some rule needs, splitting the
\* topic only when some rule needs it and the fast comparison change no answer.
\* The one way in which rules affect each other is a payload that is no use: if one
\* JSON rule names a field, all the rules lose the message.
AnswersAsWritten ==
    phase = "answered" =>
        LET reachable == {i \in DOMAIN rules : ~Unusable(message, rules[i].schema)}
            Expected(i) == Answer(file[i], message, message.payload[rules[i].schema])
        IN  results = [i \in {j \in reachable : Expected(j).kind \in {"copy", "columns"}}
                           |-> Expected(i)]

\* The counters tell the whole story of a message: each rule was either evaluated once or
\* belongs to a group whose payload error was counted once, and the errors are the
\* rules that neither answered nor rejected the message.
CountsAddUp ==
    phase = "answered" =>
        LET lost == {i \in DOMAIN rules : Unusable(message, rules[i].schema)}
            Expected(i) == Answer(file[i], message, message.payload[rules[i].schema])
        IN  /\ evalCount + Cardinality(lost) = Len(rules)
            /\ payloadErrorCount = Cardinality({rules[i].schema : i \in lost})
            /\ errorCount = Cardinality({i \in DOMAIN rules \ lost : Failed(Expected(i))})
            /\ typeErrorCount <= errorCount

\* The full decoding, which the unit tests of rule.rs use, and the sparse one, which the
\* engine uses, lead to the same answers, but for paths into a protobuf map.
FullDecodeAgrees ==
    (phase = "answered" /\ format = "json") =>
        \A i \in DOMAIN rules :
            LET payload == message.payload[rules[i].schema]
                Context(ir) == [ir |-> ir, topic |-> message.topic, message |-> message]
            IN  (payload # Garbage /\ payload.kind = "object") =>
                    Attempt(rules[i], Context(Full(payload)))
                        = Attempt(rules[i], Context(Sparse(payload, FieldsOf(rules[i]))))

\* README.md lists clientId and username among the metadata fields that are supported:
\* a rule that only selects one of them answers every message.
MetadataIsAvailable ==
    phase = "answered" =>
        \A i \in DOMAIN file :
            ( /\ file[i].where = Const(Bool(TRUE))
              /\ \A k \in DOMAIN file[i].select :
                    /\ file[i].select[k].expr.node = "name"
                    /\ ~Names[file[i].select[k].expr] )
            => (i \in DOMAIN results \/ Unusable(message, rules[i].schema))
=============================================================================
