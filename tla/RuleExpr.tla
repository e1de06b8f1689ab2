------------------------------ MODULE RuleExpr ------------------------------
(***************************************************************************)
(* The expressions of rules (rule.rs): how a parsed expression is compiled *)
(* into a plan, and how a plan is evaluated against a message.             *)
(*                                                                         *)
(* A parsed expression and a plan are trees of records with a field        *)
(* "node".  Values carry their JSON type in the field "kind".  Numbers are *)
(* integers here, so the tolerance of "=" (f64::EPSILON) is exact equality *)
(* and the divisors of an instance must divide.  Texts are atomic.         *)
(*                                                                         *)
(* The functions of rule.rs that call themselves on the parts of a tree    *)
(* are recursive functions here, over the trees that may occur: the set    *)
(* Expressions, with their parts and their heights.                        *)
(***************************************************************************)
EXTENDS Integers, Sequences

CONSTANTS Expressions,  \* the expressions of the rule file, and their parts
          Height,       \* the height of each as a tree
          MaxHeight     \* bound on the heights: every expression is finite

\* The parts of an expression or of a plan.
Children(x) ==
    CASE x.node = "binary"      -> {x.left, x.right}
      [] x.node = "topic_level" -> {x.level}
      [] x.node = "property"    -> {x.key}
      [] OTHER -> {}

ASSUME RuleExprAssumption ==
    /\ MaxHeight \in Nat
    /\ Height \in [Expressions -> 0..MaxHeight]
    /\ \A x \in Expressions : \A part \in Children(x) :
          part \in Expressions /\ Height[part] < Height[x]
    /\ \A x \in Expressions : x.node = "name" => x.path \in Seq(STRING) \ {<<>>}

Num(n)    == [kind |-> "number", number |-> n]
Str(s)    == [kind |-> "string", string |-> s]
Bool(b)   == [kind |-> "bool", bool |-> b]
Object(f) == [kind |-> "object", fields |-> f]
MapOf(f)  == [kind |-> "map", fields |-> f]      \* a protobuf map field
Array     == [kind |-> "array"]
Null      == [kind |-> "null"]

\* EvalError, as far as is_type_error tells its variants apart.
TypeError  == [kind |-> "error", type |-> TRUE]
OtherError == [kind |-> "error", type |-> FALSE]
Failed(v)  == v.kind = "error"
FirstError(l, r, v) == IF Failed(l) THEN l ELSE IF Failed(r) THEN r ELSE v

Arithmetics == {"+", "-", "*", "/"}
Orders      == {">", ">=", "<", "<="}
Comparisons == Orders \cup {"=", "!="}
Logic       == {"and", "or"}

\* What becomes of a number that is not finite: serde_json has no such number.
Arithmetic(l, op, r) ==
    IF l.kind # "number" \/ r.kind # "number" THEN TypeError
    ELSE IF op = "/" /\ r.number = 0 THEN OtherError
    ELSE Num(CASE op = "+" -> l.number + r.number
               [] op = "-" -> l.number - r.number
               [] op = "*" -> l.number * r.number
               [] op = "/" -> l.number \div r.number)

\* Numbers have an order; texts and flags are equal or not; nothing else compares.
Compare(l, op, r) ==
    IF l.kind # r.kind \/ l.kind \notin {"number", "string", "bool"} THEN TypeError
    ELSE IF op \in {"=", "!="} THEN Bool((l = r) = (op = "="))
    ELSE IF l.kind # "number" THEN TypeError
    ELSE Bool(CASE op = ">"  -> l.number > r.number
                [] op = ">=" -> l.number >= r.number
                [] op = "<"  -> l.number < r.number
                [] op = "<=" -> l.number <= r.number)

Both(l, op, r) ==
    IF l.kind # "bool" \/ r.kind # "bool" THEN TypeError
    ELSE Bool(IF op = "and" THEN l.bool /\ r.bool ELSE l.bool \/ r.bool)

\* Any other operator of SQL compiles and fails at run time.
Apply(l, op, r) ==
    CASE op \in Arithmetics -> Arithmetic(l, op, r)
      [] op \in Comparisons -> Compare(l, op, r)
      [] op \in Logic       -> Both(l, op, r)
      [] OTHER              -> OtherError

\* topic_level(_, n) is the n-th level of the topic; level 0 is taken for 1.
TopicLevel(level, topic) ==
    IF Failed(level) THEN level
    ELSE IF level.kind # "number" THEN TypeError
    ELSE IF level.number < 0 THEN TypeError
    ELSE LET n == IF level.number = 0 THEN 1 ELSE level.number
         IN  IF n \in DOMAIN topic THEN Str(topic[n]) ELSE OtherError

\* properties['key'] of the MQTT message.
PropertyOf(key, properties) ==
    IF Failed(key) THEN key
    ELSE IF key.kind # "string" THEN TypeError
    ELSE IF key.string \in DOMAIN properties THEN Str(properties[key.string])
    ELSE OtherError

-----------------------------------------------------------------------------
(***************************************************************************)
(* Compilation.                                                            *)
(***************************************************************************)
MetaNames == {"qos", "retain", "dup", "timestamp", "clientId", "username"}

Const(v)           == [node |-> "const", value |-> v]
Binary(l, op, r)   == [node |-> "binary", left |-> l, op |-> op, right |-> r]

\* Two constants are folded, unless that fails: then every message will fail.
fold_binary_plan(l, op, r) ==
    IF l.node = "const" /\ r.node = "const" /\ ~Failed(Apply(l.value, op, r.value))
    THEN Const(Apply(l.value, op, r.value))
    ELSE Binary(l, op, r)

\* A single name may be one of the metadata names; the others are payload paths.
compile_name(path) ==
    IF Len(path) = 1 /\ path[1] \in MetaNames
    THEN [node |-> "meta", name |-> path[1]]
    ELSE [node |-> "field", path |-> path]

compile_expr_plan[expr \in Expressions] ==
    CASE expr.node = "name"   -> compile_name(expr.path)
      [] expr.node = "const"  -> expr
      [] expr.node = "binary" -> fold_binary_plan(compile_expr_plan[expr.left], expr.op,
                                                  compile_expr_plan[expr.right])
      [] expr.node = "topic_level" -> [node  |-> "topic_level",
                                       level |-> compile_expr_plan[expr.level]]
      [] expr.node = "property"    -> [node |-> "property",
                                       key  |-> compile_expr_plan[expr.key]]
      [] OTHER -> [node |-> "unknown"]

Plans == {compile_expr_plan[expr] : expr \in Expressions}

\* A plan and all the plans inside it.
Subplans[plan \in Plans] == {plan} \cup UNION {Subplans[part] : part \in Children(plan)}

plan_has_unknown(plan) == \E p \in Subplans[plan] : p.node = "unknown"
plan_requires_topic_parts(plan) == \E p \in Subplans[plan] : p.node = "topic_level"
required_payload_fields(plan) ==
    {p.path : p \in {q \in Subplans[plan] : q.node = "field"}}

-----------------------------------------------------------------------------
(***************************************************************************)
(* Evaluation.  The context holds the decoded payload "ir", a function     *)
(* from paths to values, the levels of the topic and the message.  The     *)
(* operators take the values of the plans inside a plan; Values ties them  *)
(* together.                                                               *)
(***************************************************************************)

\* A flag, or the error of what should have been one.
AsFlag(v) == IF Failed(v) \/ v.kind = "bool" THEN v ELSE TypeError

\* evaluate_plan_runtime_value: operands of a comparison without an operator of their
\* own are not copied; a payload value that compares with nothing fails at once.
evaluate_plan_runtime_value(plan, values) ==
    IF plan.node = "field" /\ values[plan].kind \in {"null", "array", "object", "map"}
    THEN TypeError ELSE values[plan]

\* A comparison whose operands are that simple; one that fails hides the other.
evaluate_plan_compare_bool(plan, values) ==
    LET l == evaluate_plan_runtime_value(plan.left, values)
        r == evaluate_plan_runtime_value(plan.right, values)
    IN  IF plan.left.node # "binary" /\ (Failed(l) \/ plan.right.node # "binary")
        THEN FirstError(l, r, Compare(l, plan.op, r))
        ELSE values[plan]

\* Any other plan is evaluated and has to be a flag.
evaluate_plan_bool(plan, values) ==
    IF plan.node = "binary" /\ plan.op \in Comparisons
    THEN evaluate_plan_compare_bool(plan, values)
    ELSE AsFlag(values[plan])

\* Both sides of "and" and "or" are always evaluated, as predicates.
evaluate_plan_value(plan, ctx, values) ==
    CASE plan.node = "const" -> plan.value
      [] plan.node = "field" -> IF plan.path \in DOMAIN ctx.ir THEN ctx.ir[plan.path]
                                ELSE OtherError
      [] plan.node = "meta"  -> IF plan.name \in DOMAIN ctx.message.meta
                                THEN ctx.message.meta[plan.name] ELSE OtherError
      [] plan.node = "topic_level" -> TopicLevel(values[plan.level], ctx.topic)
      [] plan.node = "property" -> PropertyOf(values[plan.key], ctx.message.properties)
      [] plan.node = "binary" ->
            LET l == IF plan.op \in Logic THEN evaluate_plan_bool(plan.left, values)
                     ELSE values[plan.left]
                r == IF plan.op \in Logic THEN evaluate_plan_bool(plan.right, values)
                     ELSE values[plan.right]
            IN  FirstError(l, r, Apply(l, plan.op, r))

\* The values of all the plans for a message.
Values(ctx) == LET values[plan \in Plans] == evaluate_plan_value(plan, ctx, values) IN values
=============================================================================
