--------------------------- MODULE RuleEvalProofs ---------------------------
(***************************************************************************)
(* Theorems about RuleEval for any expressions, rules and messages.        *)
(*                                                                         *)
(* The tree-walking functions of RuleExpr are recursive functions over     *)
(* expressions of bounded height, so induction over an expression is       *)
(* induction over a set: a set of expressions that has every expression    *)
(* whose parts it has is the set of all of them.                           *)
(***************************************************************************)
EXTENDS RuleEval, FiniteSetTheorems, SequenceTheorems, WellFoundedInduction, TLAPS

-----------------------------------------------------------------------------
(***************************************************************************)
(* Induction.                                                              *)
(***************************************************************************)

\* A set of natural numbers that is not empty has a least element.
LEMMA LeastElement ==
    ASSUME NEW T \in SUBSET Nat, T # {}
    PROVE  \E m \in T : \A k \in T : m <= k
<1>1. PICK m \in T : \A k \in T : ~(<<k, m>> \in OpToRel(<, Nat))
  BY NatLessThanWellFounded, WFMin
<1>2. \A k \in T : ~(k < m)
  BY <1>1 DEF OpToRel
<1> QED
  BY <1>2

\* A set of numbers that starts at 0 and goes on to every next number has them all.
LEMMA NatSetInduction ==
    ASSUME NEW T \in SUBSET Nat, 0 \in T, \A n \in T : n + 1 \in T
    PROVE  T = Nat
<1> SUFFICES ASSUME Nat \ T # {} PROVE FALSE
  OBVIOUS
<1>1. PICK m \in Nat \ T : \A k \in Nat \ T : m <= k
  BY LeastElement
<1>2. m # 0 /\ m - 1 \in Nat
  BY <1>1
<1>3. m - 1 \in T
  BY <1>1, <1>2
<1>4. (m - 1) + 1 \in T
  BY <1>3
<1> QED
  BY <1>1, <1>4

\* A set of expressions that has each expression whose parts it has is complete.
LEMMA PartsInduction ==
    ASSUME NEW T \in SUBSET Expressions,
           \A x \in Expressions : Children(x) \subseteq T => x \in T
    PROVE  T = Expressions
<1> SUFFICES ASSUME Expressions \ T # {} PROVE FALSE
  OBVIOUS
<1> DEFINE Heights == {Height[x] : x \in Expressions \ T}
<1>1. Heights # {} /\ Heights \in SUBSET Nat
  BY RuleExprAssumption
<1>2. PICK h \in Heights : \A k \in Heights : h <= k
  BY <1>1, LeastElement
<1>3. PICK x \in Expressions \ T : Height[x] = h
  BY <1>2
<1>4. ASSUME NEW part \in Children(x) PROVE part \in T
  <2>1. part \in Expressions /\ Height[part] < Height[x]
    BY RuleExprAssumption
  <2>2. Height[part] \in Nat /\ Height[x] \in Nat
    BY <2>1, RuleExprAssumption
  <2> QED
    BY <1>2, <1>3, <2>1, <2>2
<1> QED
  BY <1>3, <1>4

\* The parts of an expression are expressions that are lower.
LEMMA PartsLower ==
    ASSUME NEW x \in Expressions
    PROVE  /\ Height[x] \in Nat /\ Height[x] < MaxHeight + 1
           /\ x.node = "binary" =>
                /\ x.left \in Expressions /\ Height[x.left] < Height[x]
                /\ x.right \in Expressions /\ Height[x.right] < Height[x]
           /\ x.node = "topic_level" => x.level \in Expressions /\ Height[x.level] < Height[x]
           /\ x.node = "property" => x.key \in Expressions /\ Height[x.key] < Height[x]
<1>1. \A part \in Children(x) : part \in Expressions /\ Height[part] < Height[x]
  BY RuleExprAssumption
<1>2. MaxHeight \in Nat /\ Height[x] \in 0..MaxHeight
  BY RuleExprAssumption
<1>3. Height[x] \in Nat /\ Height[x] < MaxHeight + 1
  BY <1>2
<1> QED
  BY <1>1, <1>3 DEF Children

-----------------------------------------------------------------------------
(***************************************************************************)
(* The recursive functions satisfy their equations: for each n there is a  *)
(* function that does on the expressions lower than n, and the bound on    *)
(* the heights makes the last of them one that does on all.                *)
(***************************************************************************)

\* What compile_expr_plan does with an expression, given the plans of its parts.
CompileStep(x, plans) ==
    CASE x.node = "name"   -> compile_name(x.path)
      [] x.node = "const"  -> x
      [] x.node = "binary" -> fold_binary_plan(plans[x.left], x.op, plans[x.right])
      [] x.node = "topic_level" -> [node |-> "topic_level", level |-> plans[x.level]]
      [] x.node = "property"    -> [node |-> "property", key |-> plans[x.key]]
      [] OTHER -> [node |-> "unknown"]

\* An expression is compiled from the plans of its parts alone.
LEMMA CompileStepLocal ==
    ASSUME NEW x \in Expressions, NEW f, NEW g,
           \A y \in Expressions : Height[y] < Height[x] => f[y] = g[y]
    PROVE  CompileStep(x, f) = CompileStep(x, g)
<1>1. CASE x.node = "binary"
  BY <1>1, PartsLower DEF CompileStep
<1>2. CASE x.node = "topic_level"
  BY <1>2, PartsLower DEF CompileStep
<1>3. CASE x.node = "property"
  BY <1>3, PartsLower DEF CompileStep
<1>4. CASE x.node \notin {"binary", "topic_level", "property"}
  BY <1>4 DEF CompileStep
<1> QED
  BY <1>1, <1>2, <1>3, <1>4

\* compile_expr_plan is what its definition says.
LEMMA CompileDefined ==
    compile_expr_plan = [x \in Expressions |-> CompileStep(x, compile_expr_plan)]
<1> DEFINE Reached(n) == \E f : \A x \in Expressions :
                                    Height[x] < n => f[x] = CompileStep(x, f)
           T == {n \in Nat : Reached(n)}
<1>1. 0 \in T
  <2>1. \A x \in Expressions : Height[x] < 0 => Height[x] = CompileStep(x, Height)
    BY PartsLower
  <2>2. Reached(0)
    BY <2>1
  <2> QED
    BY <2>2
<1>2. ASSUME NEW n \in T PROVE n + 1 \in T
  <2>1. PICK f : \A x \in Expressions : Height[x] < n => f[x] = CompileStep(x, f)
    OBVIOUS
  <2> DEFINE g == [x \in Expressions |-> CompileStep(x, f)]
  <2>2. ASSUME NEW x \in Expressions, Height[x] < n + 1 PROVE g[x] = CompileStep(x, g)
    <3>1. \A y \in Expressions : Height[y] < Height[x] => Height[y] < n
      BY <2>2, PartsLower
    <3>2. \A y \in Expressions : Height[y] < Height[x] => f[y] = g[y]
      BY <2>1, <3>1
    <3> HIDE DEF g
    <3>3. CompileStep(x, f) = CompileStep(x, g)
      BY <3>2, CompileStepLocal
    <3> QED
      BY <3>3 DEF g
  <2>3. Reached(n + 1)
    <3> HIDE DEF g
    <3> QED
      BY <2>2
  <2> QED
    BY <2>3
<1>3. MaxHeight + 1 \in T
  <2>1. T \in SUBSET Nat /\ MaxHeight + 1 \in Nat
    BY RuleExprAssumption
  <2> HIDE DEF T
  <2> QED
    BY <1>1, <1>2, <2>1, NatSetInduction
<1>4. PICK f : \A x \in Expressions : Height[x] < MaxHeight + 1 => f[x] = CompileStep(x, f)
  BY <1>3
<1>5. \A x \in Expressions : Height[x] < MaxHeight + 1
  BY PartsLower
<1> DEFINE g == [x \in Expressions |-> f[x]]
<1>6. ASSUME NEW x \in Expressions PROVE g[x] = CompileStep(x, g)
  <2>1. \A y \in Expressions : Height[y] < Height[x] => f[y] = g[y]
    BY DEF g
  <2>2. g[x] = CompileStep(x, f)
    BY <1>4, <1>5
  <2> HIDE DEF g
  <2>3. CompileStep(x, f) = CompileStep(x, g)
    BY <2>1, CompileStepLocal
  <2> QED
    BY <2>2, <2>3
<1>7. g = [x \in Expressions |-> CompileStep(x, g)]
  <2>1. g = [x \in Expressions |-> g[x]]
    OBVIOUS
  <2> HIDE DEF g
  <2> QED
    BY <1>6, <2>1
<1> HIDE DEF g
<1> QED
  BY <1>7 DEF compile_expr_plan, CompileStep

\* The plan of an expression, by the kind of the expression.
LEMMA PlanOf ==
    ASSUME NEW x \in Expressions
    PROVE  compile_expr_plan[x] = CompileStep(x, compile_expr_plan)
<1> DEFINE G(f) == [y \in Expressions |-> CompileStep(y, f)]
<1>1. compile_expr_plan = G(compile_expr_plan)
  BY CompileDefined
<1>2. G(compile_expr_plan)[x] = CompileStep(x, compile_expr_plan)
  OBVIOUS
<1> HIDE DEF G
<1> QED
  BY <1>1, <1>2

\* The kinds of plans, and which plans are inside a plan: those of lower expressions.
LEMMA PlanParts ==
    ASSUME NEW x \in Expressions, NEW plan, plan = compile_expr_plan[x]
    PROVE  /\ plan \in Plans
           /\ plan.node \in {"const", "field", "meta", "binary", "topic_level", "property",
                             "unknown"}
           /\ plan.node = "binary" =>
                \E l, r \in Expressions :
                    /\ Height[l] < Height[x] /\ plan.left = compile_expr_plan[l]
                    /\ Height[r] < Height[x] /\ plan.right = compile_expr_plan[r]
           /\ plan.node = "topic_level" =>
                \E y \in Expressions :
                    Height[y] < Height[x] /\ plan.level = compile_expr_plan[y]
           /\ plan.node = "property" =>
                \E y \in Expressions :
                    Height[y] < Height[x] /\ plan.key = compile_expr_plan[y]
<1>0. plan = CompileStep(x, compile_expr_plan) /\ plan \in Plans
  BY PlanOf DEF Plans
<1>1. CASE x.node = "name"
  <2>1. plan = compile_name(x.path)
    BY <1>0, <1>1 DEF CompileStep
  <2>2. plan.node \in {"meta", "field"}
    BY <2>1 DEF compile_name
  <2> QED
    BY <1>0, <2>2
<1>2. CASE x.node = "const"
  BY <1>0, <1>2 DEF CompileStep
<1>3. CASE x.node = "binary"
  <2> DEFINE l == compile_expr_plan[x.left]
             r == compile_expr_plan[x.right]
  <2>1. plan = fold_binary_plan(l, x.op, r)
    BY <1>0, <1>3 DEF CompileStep
  <2>2. plan.node = "const" \/ (plan.node = "binary" /\ plan.left = l /\ plan.right = r)
    BY <2>1 DEF fold_binary_plan, Const, Binary
  <2>3. /\ x.left \in Expressions /\ Height[x.left] < Height[x]
        /\ x.right \in Expressions /\ Height[x.right] < Height[x]
    BY <1>3, PartsLower
  <2> QED
    BY <1>0, <2>2, <2>3
<1>4. CASE x.node = "topic_level"
  <2>1. plan.node = "topic_level" /\ plan.level = compile_expr_plan[x.level]
    BY <1>0, <1>4 DEF CompileStep
  <2> QED
    BY <1>0, <1>4, <2>1, PartsLower
<1>5. CASE x.node = "property"
  <2>1. plan.node = "property" /\ plan.key = compile_expr_plan[x.key]
    BY <1>0, <1>5 DEF CompileStep
  <2> QED
    BY <1>0, <1>5, <2>1, PartsLower
<1>6. CASE x.node \notin {"name", "const", "binary", "topic_level", "property"}
  BY <1>0, <1>6 DEF CompileStep
<1> QED
  BY <1>1, <1>2, <1>3, <1>4, <1>5, <1>6

\* A set of plans that has each plan whose parts it has is complete.
LEMMA PlansInduction ==
    ASSUME NEW T \in SUBSET Plans, \A plan \in Plans : Children(plan) \subseteq T => plan \in T
    PROVE  T = Plans
<1> DEFINE U(n) == \A x \in Expressions : Height[x] < n => compile_expr_plan[x] \in T
           S == {n \in Nat : U(n)}
<1>1. 0 \in S
  BY PartsLower
<1>2. ASSUME NEW n \in S PROVE n + 1 \in S
  <2>1. ASSUME NEW x \in Expressions, Height[x] < n + 1 PROVE compile_expr_plan[x] \in T
    <3> DEFINE plan == compile_expr_plan[x]
    <3>1. \A y \in Expressions : Height[y] < Height[x] => compile_expr_plan[y] \in T
      BY <1>2, <2>1, PartsLower
    <3> HIDE DEF plan, U, S
    <3>2. /\ plan \in Plans
          /\ plan.node = "binary" => plan.left \in T /\ plan.right \in T
          /\ plan.node = "topic_level" => plan.level \in T
          /\ plan.node = "property" => plan.key \in T
      BY <3>1, PlanParts DEF plan
    <3>3. Children(plan) \subseteq T
      BY <3>2 DEF Children
    <3> QED
      BY <3>2, <3>3 DEF plan
  <2> QED
    BY <2>1
<1>3. MaxHeight + 1 \in S
  <2>1. S \in SUBSET Nat /\ MaxHeight + 1 \in Nat
    BY RuleExprAssumption
  <2> HIDE DEF S
  <2> QED
    BY <1>1, <1>2, <2>1, NatSetInduction
<1>4. \A x \in Expressions : compile_expr_plan[x] \in T
  BY <1>3, PartsLower
<1> QED
  BY <1>4 DEF Plans

\* A plan is evaluated as a predicate from its own value and those of its parts.
LEMMA BoolStepLocal ==
    ASSUME NEW x \in Expressions, NEW f, NEW g,
           \A y \in Expressions :
               Height[y] <= Height[x] => f[compile_expr_plan[y]] = g[compile_expr_plan[y]]
    PROVE  evaluate_plan_bool(compile_expr_plan[x], f)
             = evaluate_plan_bool(compile_expr_plan[x], g)
<1> DEFINE plan == compile_expr_plan[x]
<1>1. f[plan] = g[plan]
  BY PartsLower
<1>2. ASSUME plan.node = "binary"
      PROVE  f[plan.left] = g[plan.left] /\ f[plan.right] = g[plan.right]
  <2>1. PICK l, r \in Expressions :
                    /\ Height[l] < Height[x] /\ plan.left = compile_expr_plan[l]
                    /\ Height[r] < Height[x] /\ plan.right = compile_expr_plan[r]
    BY <1>2, PlanParts
  <2>2. Height[l] <= Height[x] /\ Height[r] <= Height[x]
    BY <2>1, PartsLower
  <2> QED
    BY <2>1, <2>2
<1> HIDE DEF plan
<1>3. CASE plan.node = "binary" /\ plan.op \in Comparisons
  <2>1. evaluate_plan_compare_bool(plan, f) = evaluate_plan_compare_bool(plan, g)
    BY <1>1, <1>2, <1>3 DEF evaluate_plan_compare_bool, evaluate_plan_runtime_value
  <2> QED
    BY <1>3, <2>1 DEF evaluate_plan_bool, plan
<1>4. CASE ~(plan.node = "binary" /\ plan.op \in Comparisons)
  BY <1>1, <1>4 DEF evaluate_plan_bool, plan
<1> QED
  BY <1>3, <1>4

\* A plan is evaluated from the values of plans of lower expressions.
LEMMA ValueStepLocal ==
    ASSUME NEW x \in Expressions, NEW f, NEW g, NEW ctx,
           \A y \in Expressions :
               Height[y] < Height[x] => f[compile_expr_plan[y]] = g[compile_expr_plan[y]]
    PROVE  evaluate_plan_value(compile_expr_plan[x], ctx, f)
             = evaluate_plan_value(compile_expr_plan[x], ctx, g)
<1> DEFINE plan == compile_expr_plan[x]
<1>0. plan.node \in {"const", "field", "meta", "binary", "topic_level", "property", "unknown"}
  BY PlanParts
<1>1. CASE plan.node = "binary"
  <2>1. PICK l, r \in Expressions :
                    /\ Height[l] < Height[x] /\ plan.left = compile_expr_plan[l]
                    /\ Height[r] < Height[x] /\ plan.right = compile_expr_plan[r]
    BY <1>1, PlanParts
  <2>2. f[plan.left] = g[plan.left] /\ f[plan.right] = g[plan.right]
    BY <2>1
  <2> HIDE DEF plan
  <2>3. \A y \in Expressions :
          Height[y] <= Height[l] \/ Height[y] <= Height[r] => Height[y] < Height[x]
    <3>1. \A y \in Expressions : Height[y] \in Nat
      BY PartsLower
    <3> QED
      BY <2>1, <3>1
  <2>4. /\ evaluate_plan_bool(plan.left, f) = evaluate_plan_bool(plan.left, g)
        /\ evaluate_plan_bool(plan.right, f) = evaluate_plan_bool(plan.right, g)
    BY <2>1, <2>3, BoolStepLocal
  <2> HIDE DEF plan
  <2>5. evaluate_plan_value(plan, ctx, f) = evaluate_plan_value(plan, ctx, g)
    BY <1>1, <2>2, <2>4 DEF evaluate_plan_value
  <2> QED
    BY <2>5 DEF plan
<1>2. CASE plan.node = "topic_level"
  <2>1. f[plan.level] = g[plan.level]
    BY <1>2, PlanParts
  <2> HIDE DEF plan
  <2>2. evaluate_plan_value(plan, ctx, f) = evaluate_plan_value(plan, ctx, g)
    BY <1>2, <2>1 DEF evaluate_plan_value
  <2> QED
    BY <2>2 DEF plan
<1>3. CASE plan.node = "property"
  <2>1. f[plan.key] = g[plan.key]
    BY <1>3, PlanParts
  <2> HIDE DEF plan
  <2>2. evaluate_plan_value(plan, ctx, f) = evaluate_plan_value(plan, ctx, g)
    BY <1>3, <2>1 DEF evaluate_plan_value
  <2> QED
    BY <2>2 DEF plan
<1>4. CASE plan.node \notin {"binary", "topic_level", "property"}
  <2> HIDE DEF plan
  <2>1. evaluate_plan_value(plan, ctx, f) = evaluate_plan_value(plan, ctx, g)
    BY <1>4 DEF evaluate_plan_value
  <2> QED
    BY <2>1 DEF plan
<1> QED
  BY <1>1, <1>2, <1>3, <1>4

\* Values is what its definition says.
LEMMA ValuesDefined ==
    ASSUME NEW ctx, NEW plan \in Plans
    PROVE  Values(ctx)[plan] = evaluate_plan_value(plan, ctx, Values(ctx))
<1> DEFINE Reached(n) == \E f : \A x \in Expressions : Height[x] < n =>
                f[compile_expr_plan[x]] = evaluate_plan_value(compile_expr_plan[x], ctx, f)
           T == {n \in Nat : Reached(n)}
<1>1. 0 \in T
  <2>1. \A x \in Expressions : Height[x] < 0 =>
          Height[compile_expr_plan[x]] = evaluate_plan_value(compile_expr_plan[x], ctx, Height)
    BY PartsLower
  <2>2. Reached(0)
    BY <2>1
  <2> QED
    BY <2>2
<1>2. ASSUME NEW n \in T PROVE n + 1 \in T
  <2>1. PICK f : \A x \in Expressions : Height[x] < n =>
                f[compile_expr_plan[x]] = evaluate_plan_value(compile_expr_plan[x], ctx, f)
    OBVIOUS
  <2> DEFINE g == [p \in Plans |-> evaluate_plan_value(p, ctx, f)]
  <2>2. ASSUME NEW x \in Expressions, Height[x] < n + 1
        PROVE  g[compile_expr_plan[x]] = evaluate_plan_value(compile_expr_plan[x], ctx, g)
    <3>1. \A y \in Expressions : Height[y] < Height[x] => Height[y] < n
      BY <2>2, PartsLower
    <3>2. \A y \in Expressions : compile_expr_plan[y] \in Plans
      BY DEF Plans
    <3>3. \A y \in Expressions :
            Height[y] < Height[x] => f[compile_expr_plan[y]] = g[compile_expr_plan[y]]
      BY <2>1, <3>1, <3>2
    <3>4. g[compile_expr_plan[x]] = evaluate_plan_value(compile_expr_plan[x], ctx, f)
      BY <3>2
    <3> HIDE DEF g
    <3> QED
      BY <3>3, <3>4, ValueStepLocal
  <2>3. Reached(n + 1)
    <3> HIDE DEF g
    <3> QED
      BY <2>2
  <2> QED
    BY <2>3
<1>3. MaxHeight + 1 \in T
  <2>1. T \in SUBSET Nat /\ MaxHeight + 1 \in Nat
    BY RuleExprAssumption
  <2> HIDE DEF T
  <2> QED
    BY <1>1, <1>2, <2>1, NatSetInduction
<1>4. PICK f : \A x \in Expressions : Height[x] < MaxHeight + 1 =>
                 f[compile_expr_plan[x]] = evaluate_plan_value(compile_expr_plan[x], ctx, f)
  BY <1>3
<1>5. \A p \in Plans : f[p] = evaluate_plan_value(p, ctx, f)
  BY <1>4, PartsLower DEF Plans
<1> DEFINE g == [p \in Plans |-> f[p]]
<1>6. ASSUME NEW x \in Expressions
      PROVE  evaluate_plan_value(compile_expr_plan[x], ctx, f)
               = evaluate_plan_value(compile_expr_plan[x], ctx, g)
  <2>1. \A y \in Expressions : f[compile_expr_plan[y]] = g[compile_expr_plan[y]]
    BY DEF Plans
  <2> HIDE DEF g
  <2> QED
    BY <2>1, ValueStepLocal
<1>7. \A p \in Plans : g[p] = evaluate_plan_value(p, ctx, g)
  <2>1. \A p \in Plans : evaluate_plan_value(p, ctx, f) = evaluate_plan_value(p, ctx, g)
    BY <1>6 DEF Plans
  <2> QED
    BY <1>5, <2>1
<1>8. g = [p \in Plans |-> evaluate_plan_value(p, ctx, g)]
  <2>1. g = [p \in Plans |-> g[p]]
    OBVIOUS
  <2> HIDE DEF g
  <2> QED
    BY <1>7, <2>1
<1> HIDE DEF g
<1>9. Values(ctx) = [p \in Plans |-> evaluate_plan_value(p, ctx, Values(ctx))]
  BY <1>8 DEF Values
<1> DEFINE G(v) == [p \in Plans |-> evaluate_plan_value(p, ctx, v)]
<1>10. Values(ctx) = G(Values(ctx))
  BY <1>9
<1>11. G(Values(ctx))[plan] = evaluate_plan_value(plan, ctx, Values(ctx))
  OBVIOUS
<1> HIDE DEF G
<1> QED
  BY <1>10, <1>11

\* What Subplans makes of a plan, given the plans inside its parts.
SubplansStep(plan, f) == {plan} \cup UNION {f[part] : part \in Children(plan)}

\* It uses the parts only.
LEMMA SubplansStepLocal ==
    ASSUME NEW x \in Expressions, NEW f, NEW g,
           \A y \in Expressions :
               Height[y] < Height[x] => f[compile_expr_plan[y]] = g[compile_expr_plan[y]]
    PROVE  SubplansStep(compile_expr_plan[x], f) = SubplansStep(compile_expr_plan[x], g)
<1> DEFINE plan == compile_expr_plan[x]
<1>1. /\ plan.node = "binary" => f[plan.left] = g[plan.left] /\ f[plan.right] = g[plan.right]
      /\ plan.node = "topic_level" => f[plan.level] = g[plan.level]
      /\ plan.node = "property" => f[plan.key] = g[plan.key]
  BY PlanParts
<1> HIDE DEF plan
<1>2. \A part \in Children(plan) : f[part] = g[part]
  BY <1>1 DEF Children
<1>3. SubplansStep(plan, f) = SubplansStep(plan, g)
  BY <1>2 DEF SubplansStep
<1> QED
  BY <1>3 DEF plan

\* Subplans is what its definition says.
LEMMA SubplansDefined ==
    ASSUME NEW plan \in Plans
    PROVE  Subplans[plan] = SubplansStep(plan, Subplans)
<1> DEFINE Reached(n) == \E f : \A x \in Expressions : Height[x] < n =>
                           f[compile_expr_plan[x]] = SubplansStep(compile_expr_plan[x], f)
           T == {n \in Nat : Reached(n)}
<1>1. 0 \in T
  <2>1. \A x \in Expressions : Height[x] < 0 =>
          Height[compile_expr_plan[x]] = SubplansStep(compile_expr_plan[x], Height)
    BY PartsLower
  <2>2. Reached(0)
    BY <2>1
  <2> QED
    BY <2>2
<1>2. ASSUME NEW n \in T PROVE n + 1 \in T
  <2>1. PICK f : \A x \in Expressions : Height[x] < n =>
                     f[compile_expr_plan[x]] = SubplansStep(compile_expr_plan[x], f)
    OBVIOUS
  <2> DEFINE g == [p \in Plans |-> SubplansStep(p, f)]
  <2>2. ASSUME NEW x \in Expressions, Height[x] < n + 1
        PROVE  g[compile_expr_plan[x]] = SubplansStep(compile_expr_plan[x], g)
    <3>1. \A y \in Expressions : Height[y] < Height[x] => Height[y] < n
      BY <2>2, PartsLower
    <3>2. \A y \in Expressions : compile_expr_plan[y] \in Plans
      BY DEF Plans
    <3>3. \A y \in Expressions : Height[y] < Height[x] =>
            f[compile_expr_plan[y]] = g[compile_expr_plan[y]]
      BY <2>1, <3>1, <3>2
    <3>4. g[compile_expr_plan[x]] = SubplansStep(compile_expr_plan[x], f)
      BY <3>2
    <3> HIDE DEF g
    <3> QED
      BY <3>3, <3>4, SubplansStepLocal
  <2>3. Reached(n + 1)
    <3> HIDE DEF g
    <3> QED
      BY <2>2
  <2> QED
    BY <2>3
<1>3. MaxHeight + 1 \in T
  <2>1. T \in SUBSET Nat /\ MaxHeight + 1 \in Nat
    BY RuleExprAssumption
  <2> HIDE DEF T
  <2> QED
    BY <1>1, <1>2, <2>1, NatSetInduction
<1>4. PICK f : \A x \in Expressions : Height[x] < MaxHeight + 1 =>
                   f[compile_expr_plan[x]] = SubplansStep(compile_expr_plan[x], f)
  BY <1>3
<1>5. \A p \in Plans : f[p] = SubplansStep(p, f)
  BY <1>4, PartsLower DEF Plans
<1> DEFINE g == [p \in Plans |-> f[p]]
<1>6. ASSUME NEW x \in Expressions
      PROVE  SubplansStep(compile_expr_plan[x], f) = SubplansStep(compile_expr_plan[x], g)
  <2>1. \A y \in Expressions : f[compile_expr_plan[y]] = g[compile_expr_plan[y]]
    BY DEF Plans
  <2> HIDE DEF g
  <2> QED
    BY <2>1, SubplansStepLocal
<1>7. \A p \in Plans : g[p] = SubplansStep(p, g)
  <2>1. \A p \in Plans : SubplansStep(p, f) = SubplansStep(p, g)
    BY <1>6 DEF Plans
  <2> QED
    BY <1>5, <2>1
<1>8. g = [p \in Plans |-> SubplansStep(p, g)]
  <2>1. g = [p \in Plans |-> g[p]]
    OBVIOUS
  <2> HIDE DEF g
  <2> QED
    BY <1>7, <2>1
<1> HIDE DEF g
<1>9. Subplans = [p \in Plans |-> SubplansStep(p, Subplans)]
  BY <1>8 DEF Subplans, SubplansStep
<1> DEFINE G(v) == [p \in Plans |-> SubplansStep(p, v)]
<1>10. Subplans = G(Subplans)
  BY <1>9
<1>11. G(Subplans)[plan] = SubplansStep(plan, Subplans)
  OBVIOUS
<1> HIDE DEF G
<1> QED
  BY <1>10, <1>11

\* What an expression means, given what its parts mean.
MeaningStep(x, m, payload, f) ==
    CASE x.node = "const" -> x.value
      [] x.node = "name"  ->
            IF Len(x.path) > 1 \/ x.path[1] \notin MetaNames THEN Lookup(payload, x.path)
            ELSE IF x.path[1] \in DOMAIN m.meta THEN m.meta[x.path[1]]
            ELSE OtherError
      [] x.node = "topic_level" -> TopicLevel(f[x.level], m.topic)
      [] x.node = "property"    -> PropertyOf(f[x.key], m.properties)
      [] x.node = "binary"      -> FirstError(f[x.left], f[x.right],
                                              Apply(f[x.left], x.op, f[x.right]))
      [] OTHER -> OtherError

\* It uses the parts only.
LEMMA MeaningStepLocal ==
    ASSUME NEW x \in Expressions, NEW f, NEW g, NEW m, NEW payload,
           \A y \in Expressions : Height[y] < Height[x] => f[y] = g[y]
    PROVE  MeaningStep(x, m, payload, f) = MeaningStep(x, m, payload, g)
<1>1. CASE x.node = "binary"
  <2>1. f[x.left] = g[x.left] /\ f[x.right] = g[x.right]
    BY <1>1, PartsLower
  <2> QED
    BY <1>1, <2>1 DEF MeaningStep
<1>2. CASE x.node = "topic_level"
  <2>1. f[x.level] = g[x.level]
    BY <1>2, PartsLower
  <2> QED
    BY <1>2, <2>1 DEF MeaningStep
<1>3. CASE x.node = "property"
  <2>1. f[x.key] = g[x.key]
    BY <1>3, PartsLower
  <2> QED
    BY <1>3, <2>1 DEF MeaningStep
<1>4. CASE x.node \notin {"binary", "topic_level", "property"}
  BY <1>4 DEF MeaningStep
<1> QED
  BY <1>1, <1>2, <1>3, <1>4

\* Meanings is what its definition says.
LEMMA MeaningsDefined ==
    ASSUME NEW m, NEW payload, NEW expr \in Expressions
    PROVE  Meanings(m, payload)[expr] = MeaningStep(expr, m, payload, Meanings(m, payload))
<1> DEFINE Reached(n) == \E f : \A x \in Expressions :
                             Height[x] < n => f[x] = MeaningStep(x, m, payload, f)
           T == {n \in Nat : Reached(n)}
<1>1. 0 \in T
  <2>1. \A x \in Expressions : Height[x] < 0 => Height[x] = MeaningStep(x, m, payload, Height)
    BY PartsLower
  <2>2. Reached(0)
    BY <2>1
  <2> QED
    BY <2>2
<1>2. ASSUME NEW n \in T PROVE n + 1 \in T
  <2>1. PICK f : \A x \in Expressions : Height[x] < n => f[x] = MeaningStep(x, m, payload, f)
    OBVIOUS
  <2> DEFINE g == [p \in Expressions |-> MeaningStep(p, m, payload, f)]
  <2>2. ASSUME NEW x \in Expressions, Height[x] < n + 1
        PROVE  g[x] = MeaningStep(x, m, payload, g)
    <3>1. \A y \in Expressions : Height[y] < Height[x] => Height[y] < n
      BY <2>2, PartsLower
    <3>2. \A y \in Expressions : y \in Expressions
      BY DEF Plans
    <3>3. \A y \in Expressions : Height[y] < Height[x] => f[y] = g[y]
      BY <2>1, <3>1, <3>2
    <3>4. g[x] = MeaningStep(x, m, payload, f)
      BY <3>2
    <3> HIDE DEF g
    <3> QED
      BY <3>3, <3>4, MeaningStepLocal
  <2>3. Reached(n + 1)
    <3> HIDE DEF g
    <3> QED
      BY <2>2
  <2> QED
    BY <2>3
<1>3. MaxHeight + 1 \in T
  <2>1. T \in SUBSET Nat /\ MaxHeight + 1 \in Nat
    BY RuleExprAssumption
  <2> HIDE DEF T
  <2> QED
    BY <1>1, <1>2, <2>1, NatSetInduction
<1>4. PICK f : \A x \in Expressions :
                   Height[x] < MaxHeight + 1 => f[x] = MeaningStep(x, m, payload, f)
  BY <1>3
<1>5. \A p \in Expressions : f[p] = MeaningStep(p, m, payload, f)
  BY <1>4, PartsLower DEF Plans
<1> DEFINE g == [p \in Expressions |-> f[p]]
<1>6. ASSUME NEW x \in Expressions
      PROVE  MeaningStep(x, m, payload, f) = MeaningStep(x, m, payload, g)
  <2>1. \A y \in Expressions : f[y] = g[y]
    BY DEF Plans
  <2> HIDE DEF g
  <2> QED
    BY <2>1, MeaningStepLocal
<1>7. \A p \in Expressions : g[p] = MeaningStep(p, m, payload, g)
  <2>1. \A p \in Expressions : MeaningStep(p, m, payload, f) = MeaningStep(p, m, payload, g)
    BY <1>6 DEF Plans
  <2> QED
    BY <1>5, <2>1
<1>8. g = [p \in Expressions |-> MeaningStep(p, m, payload, g)]
  <2>1. g = [p \in Expressions |-> g[p]]
    OBVIOUS
  <2> HIDE DEF g
  <2> QED
    BY <1>7, <2>1
<1> HIDE DEF g
<1>9. Meanings(m, payload)
        = [p \in Expressions |-> MeaningStep(p, m, payload, Meanings(m, payload))]
  BY <1>8 DEF Meanings, MeaningStep
<1> DEFINE G(v) == [p \in Expressions |-> MeaningStep(p, m, payload, v)]
<1>10. Meanings(m, payload) = G(Meanings(m, payload))
  BY <1>9
<1>11. G(Meanings(m, payload))[expr] = MeaningStep(expr, m, payload, Meanings(m, payload))
  OBVIOUS
<1> HIDE DEF G
<1> QED
  BY <1>10, <1>11

\* Whether an expression names a field, given which of its parts do.
NamesStep(x, f) ==
    \/ x.node = "name" /\ (Len(x.path) > 1 \/ x.path[1] \notin MetaNames)
    \/ \E part \in Children(x) : f[part]

\* It uses the parts only.
LEMMA NamesStepLocal ==
    ASSUME NEW x \in Expressions, NEW f, NEW g,
           \A y \in Expressions : Height[y] < Height[x] => f[y] = g[y]
    PROVE  NamesStep(x, f) = NamesStep(x, g)
<1>1. \A part \in Children(x) : f[part] = g[part]
  BY RuleExprAssumption
<1> QED
  BY <1>1 DEF NamesStep

\* Names is what its definition says.
LEMMA NamesDefined ==
    ASSUME NEW expr \in Expressions
    PROVE  Names[expr] = NamesStep(expr, Names)
<1> DEFINE Reached(n) == \E f : \A x \in Expressions :
                             Height[x] < n => f[x] = NamesStep(x, f)
           T == {n \in Nat : Reached(n)}
<1>1. 0 \in T
  <2>1. \A x \in Expressions : Height[x] < 0 => Height[x] = NamesStep(x, Height)
    BY PartsLower
  <2>2. Reached(0)
    BY <2>1
  <2> QED
    BY <2>2
<1>2. ASSUME NEW n \in T PROVE n + 1 \in T
  <2>1. PICK f : \A x \in Expressions : Height[x] < n => f[x] = NamesStep(x, f)
    OBVIOUS
  <2> DEFINE g == [p \in Expressions |-> NamesStep(p, f)]
  <2>2. ASSUME NEW x \in Expressions, Height[x] < n + 1
        PROVE  g[x] = NamesStep(x, g)
    <3>1. \A y \in Expressions : Height[y] < Height[x] => Height[y] < n
      BY <2>2, PartsLower
    <3>2. \A y \in Expressions : y \in Expressions
      BY DEF Plans
    <3>3. \A y \in Expressions : Height[y] < Height[x] => f[y] = g[y]
      BY <2>1, <3>1, <3>2
    <3>4. g[x] = NamesStep(x, f)
      BY <3>2
    <3> HIDE DEF g
    <3> QED
      BY <3>3, <3>4, NamesStepLocal
  <2>3. Reached(n + 1)
    <3> HIDE DEF g
    <3> QED
      BY <2>2
  <2> QED
    BY <2>3
<1>3. MaxHeight + 1 \in T
  <2>1. T \in SUBSET Nat /\ MaxHeight + 1 \in Nat
    BY RuleExprAssumption
  <2> HIDE DEF T
  <2> QED
    BY <1>1, <1>2, <2>1, NatSetInduction
<1>4. PICK f : \A x \in Expressions : Height[x] < MaxHeight + 1 => f[x] = NamesStep(x, f)
  BY <1>3
<1>5. \A p \in Expressions : f[p] = NamesStep(p, f)
  BY <1>4, PartsLower DEF Plans
<1> DEFINE g == [p \in Expressions |-> f[p]]
<1>6. ASSUME NEW x \in Expressions
      PROVE  NamesStep(x, f) = NamesStep(x, g)
  <2>1. \A y \in Expressions : f[y] = g[y]
    BY DEF Plans
  <2> HIDE DEF g
  <2> QED
    BY <2>1, NamesStepLocal
<1>7. \A p \in Expressions : g[p] = NamesStep(p, g)
  <2>1. \A p \in Expressions : NamesStep(p, f) = NamesStep(p, g)
    BY <1>6 DEF Plans
  <2> QED
    BY <1>5, <2>1
<1>8. g = [p \in Expressions |-> NamesStep(p, g)]
  <2>1. g = [p \in Expressions |-> g[p]]
    OBVIOUS
  <2> HIDE DEF g
  <2> QED
    BY <1>7, <2>1
<1> HIDE DEF g
<1>9. Names = [p \in Expressions |-> NamesStep(p, Names)]
  BY <1>8 DEF Names, NamesStep
<1> DEFINE G(v) == [p \in Expressions |-> NamesStep(p, v)]
<1>10. Names = G(Names)
  BY <1>9
<1>11. G(Names)[expr] = NamesStep(expr, Names)
  OBVIOUS
<1> HIDE DEF G
<1> QED
  BY <1>10, <1>11

-----------------------------------------------------------------------------
(***************************************************************************)
(* A compiled expression means what the expression as written means.       *)
(***************************************************************************)

\* The same value, or an error each: which of its errors an expression reports may
\* depend on how it is evaluated.
Same(v, w) == v = w \/ (Failed(v) /\ Failed(w))

\* Errors that an operator reports are errors.
LEMMA ErrorsFail == Failed(TypeError) /\ Failed(OtherError)
  BY DEF Failed, TypeError, OtherError

\* A chain of values that are the same.
LEMMA SameChain ==
    ASSUME NEW u, NEW v, NEW w, Same(u, v), Same(v, w)
    PROVE  Same(u, w)
  BY DEF Same

\* Values that are the same are the same flag.
LEMMA SameFlag ==
    ASSUME NEW v, NEW w, Same(v, w)
    PROVE  Same(AsFlag(v), AsFlag(w))
  BY ErrorsFail DEF Same, AsFlag

\* An operator gives the same for operands that are the same.
LEMMA SameApply ==
    ASSUME NEW l, NEW r, NEW k, NEW s, NEW op, Same(l, k), Same(r, s)
    PROVE  Same(FirstError(l, r, Apply(l, op, r)), FirstError(k, s, Apply(k, op, s)))
  BY DEF Same, FirstError

\* The operators fail when an operand is an error.
LEMMA ApplyFails ==
    ASSUME NEW l, NEW op, NEW r, Failed(l) \/ Failed(r)
    PROVE  Failed(Apply(l, op, r))
<1>1. Failed(Arithmetic(l, op, r))
  BY ErrorsFail DEF Failed, Arithmetic
<1>2. Failed(Compare(l, op, r))
  BY ErrorsFail DEF Failed, Compare
<1>3. Failed(Both(l, op, r))
  BY ErrorsFail DEF Failed, Both
<1> QED
  BY <1>1, <1>2, <1>3, ErrorsFail DEF Apply

\* A comparison is a flag or an error, and an error when an operand compares with nothing.
LEMMA CompareGives ==
    ASSUME NEW l, NEW op, NEW r
    PROVE  /\ Failed(Compare(l, op, r)) \/ Compare(l, op, r).kind = "bool"
           /\ {l.kind, r.kind} \cap {"null", "array", "object", "map"} # {}
                => Failed(Compare(l, op, r))
<1>1. Failed(TypeError)
  BY ErrorsFail
<1>2. \A b : Bool(b).kind = "bool"
  BY DEF Bool
<1>3. Failed(Compare(l, op, r)) \/ Compare(l, op, r).kind = "bool"
  BY <1>1, <1>2 DEF Compare
<1>4. ASSUME {l.kind, r.kind} \cap {"null", "array", "object", "map"} # {}
      PROVE  Compare(l, op, r) = TypeError
  BY <1>4 DEF Compare
<1> QED
  BY <1>1, <1>3, <1>4

\* "and" and "or" of two values are "and" and "or" of them as flags.
LEMMA LogicOfFlags ==
    ASSUME NEW l, NEW op \in Logic, NEW r
    PROVE  Same(FirstError(AsFlag(l), AsFlag(r), Apply(AsFlag(l), op, AsFlag(r))),
                FirstError(l, r, Apply(l, op, r)))
<1>1. Apply(l, op, r) = Both(l, op, r)
  BY DEF Apply, Logic, Arithmetics, Comparisons, Orders
<1>2. ASSUME l.kind # "bool" \/ r.kind # "bool" PROVE Both(l, op, r) = TypeError
  BY <1>2 DEF Both
<1> QED
  BY <1>1, <1>2, ErrorsFail DEF Same, FirstError, AsFlag, Failed

\* The operators of comparisons.
LEMMA ApplyCompares ==
    ASSUME NEW l, NEW op \in Comparisons, NEW r
    PROVE  Apply(l, op, r) = Compare(l, op, r) /\ op \notin Logic
  BY DEF Apply, Logic, Arithmetics, Comparisons, Orders

-----------------------------------------------------------------------------
\* A context in which a plan can be evaluated: there are the fields that the plan needs,
\* or errors where the payload has none, and the levels of the topic if it needs them.
Fits(plan, ctx, m, payload) ==
    /\ ctx.message = m
    /\ \A p \in Subplans[plan] :
          /\ p.node # "unknown"
          /\ p.node = "field" =>
                Same(IF p.path \in DOMAIN ctx.ir THEN ctx.ir[p.path] ELSE OtherError,
                     Lookup(payload, p.path))
          /\ p.node = "topic_level" => ctx.topic = m.topic

\* The plans inside a plan are itself and those inside its parts.
LEMMA SubplansHas ==
    ASSUME NEW plan \in Plans
    PROVE  /\ plan \in Subplans[plan]
           /\ \A part \in Children(plan) : Subplans[part] \subseteq Subplans[plan]
           /\ \A p \in Subplans[plan] :
                 p = plan \/ \E part \in Children(plan) : p \in Subplans[part]
  BY SubplansDefined DEF SubplansStep

\* A context that fits a plan fits its parts.
LEMMA FitsParts ==
    ASSUME NEW plan \in Plans, NEW part \in Children(plan), NEW ctx, NEW m, NEW payload,
           Fits(plan, ctx, m, payload)
    PROVE  Fits(part, ctx, m, payload)
  BY SubplansHas DEF Fits

\* Any context for the message fits a constant.
LEMMA FitsConstants ==
    ASSUME NEW plan \in Plans, plan.node = "const", NEW ctx, NEW m, NEW payload,
           ctx.message = m
    PROVE  Fits(plan, ctx, m, payload)
<1>1. Children(plan) = {}
  BY DEF Children
<1>2. \A p \in Subplans[plan] : p = plan
  BY <1>1, SubplansHas
<1> QED
  BY <1>2 DEF Fits

\* An operation on operands that are what they should be is what it should be.
LEMMA BinaryCorrect ==
    ASSUME NEW plan \in Plans, plan.node = "binary",
           plan.left \in Plans, plan.right \in Plans,
           NEW ctx, NEW k, NEW s,
           Same(Values(ctx)[plan.left], k), Same(Values(ctx)[plan.right], s),
           Same(evaluate_plan_bool(plan.left, Values(ctx)), AsFlag(k)),
           Same(evaluate_plan_bool(plan.right, Values(ctx)), AsFlag(s))
    PROVE  LET w == FirstError(k, s, Apply(k, plan.op, s))
           IN  /\ Same(Values(ctx)[plan], w)
               /\ Same(evaluate_plan_bool(plan, Values(ctx)), AsFlag(w))
<1> DEFINE V == Values(ctx)
           w == FirstError(k, s, Apply(k, plan.op, s))
           l == V[plan.left]
           r == V[plan.right]
           bl == evaluate_plan_bool(plan.left, V)
           br == evaluate_plan_bool(plan.right, V)
<1>0. V[plan] = evaluate_plan_value(plan, ctx, V)
  BY ValuesDefined
<1> HIDE DEF V
<1>1. Same(l, k) /\ Same(r, s) /\ Same(bl, AsFlag(k)) /\ Same(br, AsFlag(s))
  BY DEF V
<1>2. CASE plan.op \in Logic
  <2>1. V[plan] = FirstError(bl, br, Apply(bl, plan.op, br))
    BY <1>0, <1>2 DEF evaluate_plan_value
  <2>2. Same(V[plan], FirstError(AsFlag(k), AsFlag(s), Apply(AsFlag(k), plan.op, AsFlag(s))))
    BY <1>1, <2>1, SameApply
  <2>3. Same(V[plan], w)
    BY <1>2, <2>2, LogicOfFlags, SameChain
  <2>4. plan.op \notin Comparisons
    BY <1>2 DEF Logic, Comparisons, Orders
  <2>5. evaluate_plan_bool(plan, V) = AsFlag(V[plan])
    BY <2>4 DEF evaluate_plan_bool
  <2> QED
    BY <2>3, <2>5, SameFlag DEF V
<1>3. CASE plan.op \notin Logic
  <2>1. V[plan] = FirstError(l, r, Apply(l, plan.op, r))
    BY <1>0, <1>3 DEF evaluate_plan_value
  <2>2. Same(V[plan], w)
    BY <1>1, <2>1, SameApply
  <2>3. CASE plan.op \notin Comparisons
    <3>1. evaluate_plan_bool(plan, V) = AsFlag(V[plan])
      BY <2>3 DEF evaluate_plan_bool
    <3> QED
      BY <2>2, <3>1, SameFlag DEF V
  <2>4. CASE plan.op \in Comparisons
    <3> DEFINE ol == evaluate_plan_runtime_value(plan.left, V)
               or == evaluate_plan_runtime_value(plan.right, V)
               op == plan.op
    <3>1. V[plan] = FirstError(l, r, Compare(l, op, r))
      BY <2>1, <2>4, ApplyCompares
    <3>2. AsFlag(V[plan]) = V[plan]
      BY <3>1, CompareGives DEF FirstError, AsFlag
    <3>3. /\ ol = l \/ (ol = TypeError /\ l.kind \in {"null", "array", "object", "map"})
          /\ or = r \/ (or = TypeError /\ r.kind \in {"null", "array", "object", "map"})
      BY DEF evaluate_plan_runtime_value
    <3>4. evaluate_plan_bool(plan, V) \in {V[plan], FirstError(ol, or, Compare(ol, op, or))}
      BY <2>4 DEF evaluate_plan_bool, evaluate_plan_compare_bool
    <3> HIDE DEF ol, or, op, l, r
    <3>5. (ol # l \/ or # r) => Failed(FirstError(l, r, Compare(l, op, r)))
      BY <3>3, CompareGives DEF FirstError
    <3>6. (ol # l \/ or # r) => Failed(FirstError(ol, or, Compare(ol, op, or)))
      BY <3>3, ErrorsFail DEF FirstError
    <3>7. Same(FirstError(ol, or, Compare(ol, op, or)), FirstError(l, r, Compare(l, op, r)))
      BY <3>5, <3>6 DEF Same
    <3>8. Same(evaluate_plan_bool(plan, V), AsFlag(V[plan]))
      BY <3>1, <3>2, <3>4, <3>7 DEF Same
    <3>9. Same(AsFlag(V[plan]), AsFlag(w))
      BY <2>2, SameFlag
    <3> QED
      BY <2>2, <3>8, <3>9, SameChain DEF V
  <2> QED
    BY <2>3, <2>4
<1> QED
  BY <1>2, <1>3

\* A plan that is no operation is a flag if its value is one.
LEMMA OtherPlansAreFlags ==
    ASSUME NEW plan, plan.node # "binary", NEW V, NEW w, Same(V[plan], w)
    PROVE  Same(evaluate_plan_bool(plan, V), AsFlag(w))
  BY SameFlag DEF evaluate_plan_bool

\* Evaluating the plan of an expression in a context that fits gives what the
\* expression means for the message, as a value and as a predicate.
THEOREM CompiledMeansTheSame ==
    ASSUME NEW ctx, NEW m, NEW payload, NEW expr \in Expressions,
           Fits(compile_expr_plan[expr], ctx, m, payload)
    PROVE  LET plan == compile_expr_plan[expr]
               w    == Meanings(m, payload)[expr]
           IN  /\ Same(Values(ctx)[plan], w)
               /\ Same(evaluate_plan_bool(plan, Values(ctx)), AsFlag(w))
<1> DEFINE V == Values(ctx)
           M == Meanings(m, payload)
           Correct(x) == LET plan == compile_expr_plan[x]
                         IN  Fits(plan, ctx, m, payload) =>
                                /\ Same(V[plan], M[x])
                                /\ Same(evaluate_plan_bool(plan, V), AsFlag(M[x]))
           T == {x \in Expressions : Correct(x)}
<1>1. ASSUME NEW x \in Expressions, Children(x) \subseteq T PROVE Correct(x)
  <2> DEFINE plan == compile_expr_plan[x]
  <2> SUFFICES ASSUME Fits(plan, ctx, m, payload)
               PROVE  /\ Same(V[plan], M[x])
                      /\ Same(evaluate_plan_bool(plan, V), AsFlag(M[x]))
    OBVIOUS
  <2>1. plan \in Plans /\ plan = CompileStep(x, compile_expr_plan)
    BY PlanOf DEF Plans
  <2>2. M[x] = MeaningStep(x, m, payload, M)
    BY MeaningsDefined
  <2>3. V[plan] = evaluate_plan_value(plan, ctx, V)
    BY <2>1, ValuesDefined
  <2>4. ASSUME NEW part \in Children(x)
        PROVE  part \in Expressions /\ compile_expr_plan[part] \in Plans /\ Correct(part)
    <3>1. part \in T
      BY <1>1
    <3> QED
      BY <3>1 DEF Plans
  <2>5. /\ ctx.message = m /\ plan.node # "unknown"
        /\ plan.node = "field" =>
              Same(IF plan.path \in DOMAIN ctx.ir THEN ctx.ir[plan.path] ELSE OtherError,
                   Lookup(payload, plan.path))
        /\ plan.node = "topic_level" => ctx.topic = m.topic
        /\ \A part \in Children(plan) : Fits(part, ctx, m, payload)
    BY <2>1, SubplansHas, FitsParts DEF Fits
  <2> HIDE DEF plan, V, M, T
  <2>6. CASE x.node = "name"
    <3>1. plan = compile_name(x.path)
      BY <2>1, <2>6 DEF CompileStep
    <3>2. Len(x.path) \in Nat /\ Len(x.path) # 0
      BY <2>6, RuleExprAssumption
    <3>3. CASE Len(x.path) = 1 /\ x.path[1] \in MetaNames
      <4>1. plan.node = "meta" /\ plan.name = x.path[1]
        BY <3>1, <3>3 DEF compile_name
      <4>2. V[plan] = IF plan.name \in DOMAIN m.meta THEN m.meta[plan.name] ELSE OtherError
        BY <2>3, <2>5, <4>1 DEF evaluate_plan_value
      <4>3. V[plan] = M[x]
        BY <2>2, <2>6, <3>3, <4>1, <4>2 DEF MeaningStep
      <4>4. Same(V[plan], M[x])
        BY <4>3 DEF Same
      <4> QED
        BY <4>1, <4>4, OtherPlansAreFlags
    <3>4. CASE ~(Len(x.path) = 1 /\ x.path[1] \in MetaNames)
      <4>1. plan.node = "field" /\ plan.path = x.path
        BY <3>1, <3>4 DEF compile_name
      <4>2. V[plan] = IF plan.path \in DOMAIN ctx.ir THEN ctx.ir[plan.path] ELSE OtherError
        BY <2>3, <4>1 DEF evaluate_plan_value
      <4>3. M[x] = Lookup(payload, x.path)
        <5>1. \A n \in Nat : n # 0 => n = 1 \/ n > 1
          OBVIOUS
        <5>2. Len(x.path) > 1 \/ x.path[1] \notin MetaNames
          BY <3>2, <3>4, <5>1
        <5> QED
          BY <2>2, <2>6, <5>2 DEF MeaningStep
      <4>4. Same(V[plan], M[x])
        BY <2>5, <4>1, <4>2, <4>3
      <4> QED
        BY <4>1, <4>4, OtherPlansAreFlags
    <3> QED
      BY <3>3, <3>4
  <2>7. CASE x.node = "const"
    <3>1. plan = x
      BY <2>1, <2>7 DEF CompileStep
    <3>2. V[plan] = x.value /\ M[x] = x.value
      BY <2>2, <2>3, <2>7, <3>1 DEF evaluate_plan_value, MeaningStep
    <3>3. Same(V[plan], M[x])
      BY <3>2 DEF Same
    <3> QED
      BY <2>7, <3>1, <3>3, OtherPlansAreFlags
  <2>8. CASE x.node = "topic_level"
    <3>1. plan.node = "topic_level" /\ plan.level = compile_expr_plan[x.level]
      BY <2>1, <2>8 DEF CompileStep
    <3>2. x.level \in Children(x) /\ plan.level \in Children(plan)
      BY <2>8, <3>1 DEF Children
    <3>3. Same(V[plan.level], M[x.level])
      BY <2>4, <2>5, <3>1, <3>2
    <3>4. V[plan] = TopicLevel(V[plan.level], m.topic)
      BY <2>3, <2>5, <3>1 DEF evaluate_plan_value
    <3>5. M[x] = TopicLevel(M[x.level], m.topic)
      BY <2>2, <2>8 DEF MeaningStep
    <3>6. Same(V[plan], M[x])
      BY <3>3, <3>4, <3>5 DEF Same, TopicLevel
    <3> QED
      BY <3>1, <3>6, OtherPlansAreFlags
  <2>9. CASE x.node = "property"
    <3>1. plan.node = "property" /\ plan.key = compile_expr_plan[x.key]
      BY <2>1, <2>9 DEF CompileStep
    <3>2. x.key \in Children(x) /\ plan.key \in Children(plan)
      BY <2>9, <3>1 DEF Children
    <3>3. Same(V[plan.key], M[x.key])
      BY <2>4, <2>5, <3>1, <3>2
    <3>4. V[plan] = PropertyOf(V[plan.key], m.properties)
      BY <2>3, <2>5, <3>1 DEF evaluate_plan_value
    <3>5. M[x] = PropertyOf(M[x.key], m.properties)
      BY <2>2, <2>9 DEF MeaningStep
    <3>6. Same(V[plan], M[x])
      BY <3>3, <3>4, <3>5 DEF Same, PropertyOf
    <3> QED
      BY <3>1, <3>6, OtherPlansAreFlags
  <2>10. CASE x.node = "binary"
    <3> DEFINE l == compile_expr_plan[x.left]
               r == compile_expr_plan[x.right]
               w == FirstError(M[x.left], M[x.right], Apply(M[x.left], x.op, M[x.right]))
    <3>1. plan = fold_binary_plan(l, x.op, r)
      BY <2>1, <2>10 DEF CompileStep
    <3>2. M[x] = w
      BY <2>2, <2>10 DEF MeaningStep
    <3>3. x.left \in Children(x) /\ x.right \in Children(x)
      BY <2>10 DEF Children
    <3>4. l \in Plans /\ r \in Plans /\ Correct(x.left) /\ Correct(x.right)
      BY <2>4, <3>3
    <3>5. CASE l.node = "const" /\ r.node = "const" /\ ~Failed(Apply(l.value, x.op, r.value))
      <4>1. plan.node = "const" /\ plan.value = Apply(l.value, x.op, r.value)
        BY <3>1, <3>5 DEF fold_binary_plan, Const
      <4>2. V[l] = l.value /\ V[r] = r.value /\ V[plan] = plan.value
        BY <2>3, <3>4, <3>5, <4>1, ValuesDefined DEF evaluate_plan_value, V
      <4>3. Same(l.value, M[x.left]) /\ Same(r.value, M[x.right])
        BY <2>5, <3>4, <3>5, <4>2, FitsConstants
      <4>4. ~Failed(l.value) /\ ~Failed(r.value)
        BY <3>5, ApplyFails
      <4>5. V[plan] = M[x]
        BY <3>2, <4>1, <4>2, <4>3, <4>4 DEF Same, FirstError
      <4>6. Same(V[plan], M[x])
        BY <4>5 DEF Same
      <4> QED
        BY <4>1, <4>6, OtherPlansAreFlags
    <3>6. CASE ~(l.node = "const" /\ r.node = "const" /\ ~Failed(Apply(l.value, x.op, r.value)))
      <4>1. plan.node = "binary" /\ plan.left = l /\ plan.op = x.op /\ plan.right = r
        BY <3>1, <3>6 DEF fold_binary_plan, Binary
      <4>2. plan.left \in Children(plan) /\ plan.right \in Children(plan)
        BY <4>1 DEF Children
      <4>3. /\ Same(V[plan.left], M[x.left]) /\ Same(V[plan.right], M[x.right])
            /\ Same(evaluate_plan_bool(plan.left, V), AsFlag(M[x.left]))
            /\ Same(evaluate_plan_bool(plan.right, V), AsFlag(M[x.right]))
        BY <2>5, <3>4, <4>1, <4>2
      <4>4. plan.left \in Plans /\ plan.right \in Plans
        BY <3>4, <4>1
      <4>5. Same(V[plan], w) /\ Same(evaluate_plan_bool(plan, V), AsFlag(w))
        BY <2>1, <4>1, <4>3, <4>4, BinaryCorrect DEF V
      <4> QED
        BY <3>2, <4>5
    <3> QED
      BY <3>5, <3>6
  <2>11. x.node \in {"name", "const", "topic_level", "property", "binary"}
    BY <2>1, <2>5 DEF CompileStep
  <2> QED
    BY <2>6, <2>7, <2>8, <2>9, <2>10, <2>11
<1>2. expr \in T
  <2>1. T \in SUBSET Expressions
    OBVIOUS
  <2>2. \A x \in Expressions : Children(x) \subseteq T => x \in T
    BY <1>1
  <2> HIDE DEF T
  <2> QED
    BY <2>1, <2>2, PartsInduction
<1> QED
  BY <1>2

-----------------------------------------------------------------------------
(***************************************************************************)
(* What compilation leaves of an expression.                               *)
(***************************************************************************)

\* An operation on two constants that is left could not be folded.
Normal(p) == (p.node = "binary" /\ p.left.node = "const" /\ p.right.node = "const")
                => Failed(Apply(p.left.value, p.op, p.right.value))

\* fold_binary_plan folds whatever can be folded.
LEMMA PlansNormal ==
    ASSUME NEW plan \in Plans
    PROVE  Normal(plan)
<1>1. PICK x \in Expressions : plan = compile_expr_plan[x]
  BY DEF Plans
<1>2. plan = CompileStep(x, compile_expr_plan)
  BY <1>1, PlanOf
<1>3. CASE x.node = "binary"
  <2> DEFINE l == compile_expr_plan[x.left]
             r == compile_expr_plan[x.right]
  <2>1. plan = fold_binary_plan(l, x.op, r)
    BY <1>2, <1>3 DEF CompileStep
  <2> QED
    BY <2>1 DEF fold_binary_plan, Const, Binary, Normal
<1>4. CASE x.node # "binary"
  <2>1. plan.node # "binary"
    BY <1>2, <1>4 DEF CompileStep, compile_name
  <2> QED
    BY <2>1 DEF Normal
<1> QED
  BY <1>3, <1>4

\* All the plans inside a plan are plans of expressions.
LEMMA SubplansArePlans ==
    ASSUME NEW plan \in Plans
    PROVE  Subplans[plan] \subseteq Plans
<1> DEFINE T == {p \in Plans : Subplans[p] \subseteq Plans}
<1>1. ASSUME NEW p \in Plans, Children(p) \subseteq T PROVE p \in T
  BY <1>1, SubplansHas
<1>2. T = Plans
  <2>1. T \in SUBSET Plans
    OBVIOUS
  <2> HIDE DEF T
  <2> QED
    BY <1>1, <2>1, PlansInduction
<1> QED
  BY <1>2

\* A plan names a payload field.
HasField(plan) == \E p \in Subplans[plan] : p.node = "field"

\* A plan that is no field has the fields of its parts.
LEMMA HasFieldParts ==
    ASSUME NEW plan \in Plans
    PROVE  HasField(plan) <=>
             plan.node = "field" \/ \E part \in Children(plan) : HasField(part)
  BY SubplansHas DEF HasField

\* Compiling keeps the fields: an expression names one just when its plan has one.
LEMMA FieldsAreKept ==
    ASSUME NEW expr \in Expressions
    PROVE  Names[expr] <=> HasField(compile_expr_plan[expr])
<1> DEFINE T == {x \in Expressions : Names[x] <=> HasField(compile_expr_plan[x])}
<1>1. ASSUME NEW x \in Expressions, Children(x) \subseteq T
      PROVE  Names[x] <=> HasField(compile_expr_plan[x])
  <2> DEFINE plan == compile_expr_plan[x]
  <2>1. plan \in Plans /\ plan = CompileStep(x, compile_expr_plan)
    BY PlanOf DEF Plans
  <2>2. Names[x] <=> NamesStep(x, Names)
    BY NamesDefined
  <2>3. \A part \in Children(x) :
          /\ part \in Expressions /\ compile_expr_plan[part] \in Plans
          /\ Names[part] <=> HasField(compile_expr_plan[part])
    BY <1>1 DEF Plans
  <2>4. HasField(plan) <=> plan.node = "field" \/ \E part \in Children(plan) : HasField(part)
    BY <2>1, HasFieldParts
  <2> HIDE DEF plan, T
  <2>5. CASE x.node = "name"
    <3>1. Children(x) = {}
      BY <2>5 DEF Children
    <3>2. plan = compile_name(x.path)
      BY <2>1, <2>5 DEF CompileStep
    <3>3. Len(x.path) \in Nat /\ Len(x.path) # 0
      BY <2>5, RuleExprAssumption
    <3>4. \A n \in Nat : n # 0 => (n = 1 <=> ~(n > 1))
      OBVIOUS
    <3>5. NamesStep(x, Names) <=> ~(Len(x.path) = 1 /\ x.path[1] \in MetaNames)
      BY <2>5, <3>1, <3>3, <3>4 DEF NamesStep
    <3>6. plan.node = IF Len(x.path) = 1 /\ x.path[1] \in MetaNames THEN "meta" ELSE "field"
      BY <3>2 DEF compile_name
    <3>7. Children(plan) = {}
      BY <3>6 DEF Children
    <3> QED
      BY <2>2, <2>4, <3>5, <3>6, <3>7 DEF plan
  <2>6. CASE x.node = "binary"
    <3> DEFINE l == compile_expr_plan[x.left]
               r == compile_expr_plan[x.right]
    <3>1. plan = fold_binary_plan(l, x.op, r)
      BY <2>1, <2>6 DEF CompileStep
    <3>2. Children(x) = {x.left, x.right}
      BY <2>6 DEF Children
    <3>3. Names[x] <=> HasField(l) \/ HasField(r)
      BY <2>2, <2>3, <2>6, <3>2 DEF NamesStep
    <3>4. l \in Plans /\ r \in Plans
      BY <2>3, <3>2
    <3>5. CASE plan.node = "const"
      <4>1. l.node = "const" /\ r.node = "const"
        BY <3>1, <3>5 DEF fold_binary_plan, Binary
      <4>2. Children(plan) = {} /\ Children(l) = {} /\ Children(r) = {}
        BY <3>5, <4>1 DEF Children
      <4>3. ~HasField(l) /\ ~HasField(r)
        BY <3>4, <4>1, <4>2, HasFieldParts
      <4> QED
        BY <2>4, <3>3, <3>5, <4>2, <4>3 DEF plan
    <3>6. CASE plan.node = "binary" /\ plan.left = l /\ plan.right = r
      <4>1. Children(plan) = {l, r}
        BY <3>6 DEF Children
      <4> QED
        BY <2>4, <3>3, <3>6, <4>1 DEF plan
    <3> QED
      BY <3>1, <3>5, <3>6 DEF fold_binary_plan, Const, Binary
  <2>7. CASE x.node = "topic_level"
    <3>1. plan.node = "topic_level" /\ plan.level = compile_expr_plan[x.level]
      BY <2>1, <2>7 DEF CompileStep
    <3>2. Children(x) = {x.level} /\ Children(plan) = {compile_expr_plan[x.level]}
      BY <2>7, <3>1 DEF Children
    <3> QED
      BY <2>2, <2>3, <2>4, <2>7, <3>1, <3>2 DEF NamesStep, plan
  <2>8. CASE x.node = "property"
    <3>1. plan.node = "property" /\ plan.key = compile_expr_plan[x.key]
      BY <2>1, <2>8 DEF CompileStep
    <3>2. Children(x) = {x.key} /\ Children(plan) = {compile_expr_plan[x.key]}
      BY <2>8, <3>1 DEF Children
    <3> QED
      BY <2>2, <2>3, <2>4, <2>8, <3>1, <3>2 DEF NamesStep, plan
  <2>9. CASE x.node \notin {"name", "binary", "topic_level", "property"}
    <3>1. plan.node \in {"const", "unknown"}
      BY <2>1, <2>9 DEF CompileStep
    <3>2. Children(x) = {} /\ Children(plan) = {}
      BY <2>9, <3>1 DEF Children
    <3> QED
      BY <2>2, <2>4, <2>9, <3>1, <3>2 DEF NamesStep, plan
  <2> QED
    BY <2>5, <2>6, <2>7, <2>8, <2>9
<1>2. T = Expressions
  <2>1. T \in SUBSET Expressions
    OBVIOUS
  <2>2. \A x \in Expressions : Children(x) \subseteq T => x \in T
    BY <1>1
  <2> HIDE DEF T
  <2> QED
    BY <2>1, <2>2, PartsInduction
<1> QED
  BY <1>2

-----------------------------------------------------------------------------
(***************************************************************************)
(* Rules and definitions.                                                  *)
(***************************************************************************)

\* The columns of a definition without "*" are expressions.
LEMMA ItemsAre ==
    ASSUME NEW def \in Definitions, NEW items, items = parse_select_items(def.select)
    PROVE  /\ DOMAIN items \in SUBSET Nat
           /\ \A i \in DOMAIN items : items[i].expr \in Expressions
           /\ \A i \in DOMAIN items : items[i] = def.select[i]
<1>1. def.select \in Seq(Columns)
  BY RuleEvalAssumption
<1>2. CASE \E i \in DOMAIN def.select : def.select[i].expr.node = "star"
  <2>1. items = <<>>
    BY <1>2 DEF parse_select_items
  <2>2. DOMAIN items = {}
    BY <2>1
  <2> QED
    BY <2>2
<1>3. CASE ~\E i \in DOMAIN def.select : def.select[i].expr.node = "star"
  <2>1. items = def.select
    BY <1>3 DEF parse_select_items
  <2>2. DOMAIN def.select = 1..Len(def.select) /\ Len(def.select) \in Nat
    BY <1>1
  <2>3. ASSUME NEW i \in DOMAIN items PROVE items[i].expr \in Expressions
    <3>1. items[i] \in Columns
      BY <1>1, <2>1, <2>2
    <3>2. items[i].expr \in Expressions \cup {[node |-> "star"]}
      BY <3>1 DEF Columns
    <3>3. items[i].expr # [node |-> "star"]
      BY <1>3, <2>1
    <3> QED
      BY <3>2, <3>3
  <2> QED
    BY <2>1, <2>2, <2>3
<1> QED
  BY <1>2, <1>3

\* What compile_rule makes of a definition.
LEMMA CompiledIs ==
    ASSUME NEW def \in Definitions, NEW rule, rule = Compiled(def),
           NEW items, items = parse_select_items(def.select)
    PROVE  /\ def.where \in Expressions /\ rule.where = compile_expr_plan[def.where]
           /\ rule.schema = def.schema
           /\ DOMAIN rule.select = DOMAIN items
           /\ \A i \in DOMAIN items : rule.select[i].expr = compile_expr_plan[items[i].expr]
           /\ Aliases(rule.select) = Aliases(items)
           /\ PlansOf(rule) \subseteq Plans
<1>1. def.where \in Expressions
  BY RuleEvalAssumption
<1>2. rule = [select |-> [i \in DOMAIN items |-> [expr  |-> compile_expr_plan[items[i].expr],
                                                  alias |-> items[i].alias]],
              where  |-> compile_expr_plan[def.where],
              schema |-> def.schema]
  BY DEF Compiled
<1>3. /\ DOMAIN rule.select = DOMAIN items
      /\ \A i \in DOMAIN items : rule.select[i].expr = compile_expr_plan[items[i].expr]
      /\ \A i \in DOMAIN items : rule.select[i].alias = items[i].alias
      /\ rule.where = compile_expr_plan[def.where] /\ rule.schema = def.schema
  BY <1>2
<1>4. Aliases(rule.select) = Aliases(items)
  BY <1>3 DEF Aliases
<1>5. \A i \in DOMAIN items : items[i].expr \in Expressions
  BY ItemsAre
<1>6. PlansOf(rule) \subseteq Plans
  BY <1>1, <1>3, <1>5 DEF PlansOf, Plans
<1> QED
  BY <1>1, <1>3, <1>4, <1>6

\* A definition names a field just when its rule needs one.
LEMMA RuleFields ==
    ASSUME NEW def \in Definitions
    PROVE  NamesAField(def) <=> FieldsOf(Compiled(def)) # {}
<1> DEFINE rule == Compiled(def)
           items == parse_select_items(def.select)
<1>1. \A p : required_payload_fields(p) # {} <=> HasField(p)
  BY DEF required_payload_fields, HasField
<1>2. FieldsOf(rule) # {} <=> \E p \in PlansOf(rule) : HasField(p)
  BY <1>1 DEF FieldsOf
<1>3. /\ def.where \in Expressions /\ rule.where = compile_expr_plan[def.where]
      /\ DOMAIN rule.select = DOMAIN items
      /\ \A i \in DOMAIN items : rule.select[i].expr = compile_expr_plan[items[i].expr]
  BY CompiledIs
<1>4. \A i \in DOMAIN items : items[i].expr \in Expressions /\ items[i] = def.select[i]
  BY ItemsAre
<1> HIDE DEF rule, items
<1>5. Names[def.where] <=> HasField(rule.where)
  BY <1>3, FieldsAreKept
<1>6. \A i \in DOMAIN items : Names[def.select[i].expr] <=> HasField(rule.select[i].expr)
  BY <1>3, <1>4, FieldsAreKept
<1>7. NamesAField(def) <=>
        Names[def.where] \/ \E i \in DOMAIN items : Names[def.select[i].expr]
  BY DEF NamesAField, items
<1>8. (\E p \in PlansOf(rule) : HasField(p)) <=>
        HasField(rule.where) \/ \E i \in DOMAIN items : HasField(rule.select[i].expr)
  BY <1>3 DEF PlansOf
<1> QED
  BY <1>2, <1>5, <1>6, <1>7, <1>8 DEF rule

\* Columns that are the same, error for error, make outputs that are the same.
LEMMA SameProjection ==
    ASSUME NEW aliases, DOMAIN aliases \in SUBSET Nat,
           NEW f, f = [i \in DOMAIN aliases |-> f[i]],
           NEW g, g = [i \in DOMAIN aliases |-> g[i]],
           \A i \in DOMAIN aliases : Same(f[i], g[i])
    PROVE  Same(Projected(aliases, f), Projected(aliases, g))
<1>1. CASE \E i \in DOMAIN aliases : Failed(f[i])
  <2> DEFINE wrong == {i \in DOMAIN aliases : Failed(f[i])}
             first == CHOOSE i \in wrong : \A j \in wrong : i <= j
  <2>1. wrong = {i \in DOMAIN aliases : Failed(g[i])}
    BY DEF Same
  <2>2. wrong # {} /\ wrong \in SUBSET Nat
    BY <1>1
  <2>3. first \in wrong
    <3> HIDE DEF wrong
    <3> QED
      BY <2>2, LeastElement
  <2>4. Failed(f[first]) /\ Failed(g[first])
    <3> HIDE DEF first
    <3> QED
      BY <2>1, <2>3
  <2>5. Projected(aliases, f) = f[first] /\ Projected(aliases, g) = g[first]
    <3>1. DOMAIN aliases # {}
      BY <1>1
    <3>2. Projected(aliases, f) = f[first]
      BY <2>2, <3>1 DEF Projected
    <3>3. Projected(aliases, g) = g[first]
      BY <2>1, <2>2, <3>1 DEF Projected
    <3> QED
      BY <3>2, <3>3
  <2> QED
    BY <2>4, <2>5 DEF Same
<1>2. CASE \A i \in DOMAIN aliases : ~Failed(f[i])
  <2>1. \A i \in DOMAIN aliases : f[i] = g[i]
    BY <1>2 DEF Same
  <2>2. f = g
    BY <2>1
  <2> QED
    BY <2>2 DEF Same
<1> QED
  BY <1>1, <1>2

\* A rule evaluated in a context that fits its plans gives the answer of its definition.
LEMMA AttemptIsAnswer ==
    ASSUME NEW def \in Definitions, NEW ctx, NEW m, NEW payload,
           \A p \in PlansOf(Compiled(def)) : Fits(p, ctx, m, payload)
    PROVE  Same(Attempt(Compiled(def), ctx), Answer(def, m, payload))
<1> DEFINE rule == Compiled(def)
           items == parse_select_items(def.select)
           V == Values(ctx)
           M == Meanings(m, payload)
           f == [i \in DOMAIN rule.select |-> V[rule.select[i].expr]]
           g == [i \in DOMAIN items |-> M[items[i].expr]]
           holds == evaluate_plan_bool(rule.where, V)
           means == M[def.where]
           al == Aliases(items)
<1>1. /\ def.where \in Expressions /\ rule.where = compile_expr_plan[def.where]
      /\ DOMAIN rule.select = DOMAIN items
      /\ \A i \in DOMAIN items : rule.select[i].expr = compile_expr_plan[items[i].expr]
      /\ Aliases(rule.select) = al
  BY CompiledIs
<1>2. DOMAIN items \in SUBSET Nat /\ \A i \in DOMAIN items : items[i].expr \in Expressions
  BY ItemsAre
<1>3. DOMAIN al = DOMAIN items
  BY DEF Aliases
<1>4. rule.where \in PlansOf(rule) /\ \A i \in DOMAIN items : rule.select[i].expr \in PlansOf(rule)
  BY <1>1 DEF PlansOf
<1> HIDE DEF items, rule
<1>5. Same(holds, AsFlag(means))
  <2>1. Fits(compile_expr_plan[def.where], ctx, m, payload)
    BY <1>1, <1>4 DEF rule
  <2> QED
    BY <1>1, <2>1, CompiledMeansTheSame
<1>6. ASSUME NEW i \in DOMAIN al PROVE Same(f[i], g[i])
  <2>1. items[i].expr \in Expressions /\ Fits(compile_expr_plan[items[i].expr], ctx, m, payload)
    BY <1>1, <1>2, <1>3, <1>4 DEF rule
  <2>2. Same(V[compile_expr_plan[items[i].expr]], M[items[i].expr])
    BY <2>1, CompiledMeansTheSame
  <2>3. f[i] = V[compile_expr_plan[items[i].expr]] /\ g[i] = M[items[i].expr]
    BY <1>1, <1>3
  <2> HIDE DEF f, g, V, M, al
  <2> QED
    BY <2>2, <2>3
<1>7. f = [i \in DOMAIN al |-> f[i]] /\ g = [i \in DOMAIN al |-> g[i]]
  BY <1>1, <1>3
<1>8. Attempt(rule, ctx) = IF Failed(holds) THEN holds
                           ELSE IF ~holds.bool THEN [kind |-> "filtered"]
                           ELSE Projected(al, f)
  BY <1>1 DEF Attempt
<1>9. Answer(def, m, payload) = IF Failed(means) \/ means.kind # "bool" THEN TypeError
                                ELSE IF ~means.bool THEN [kind |-> "filtered"]
                                ELSE Projected(al, g)
  BY DEF Answer, items
<1> HIDE DEF f, g, V, M, al, holds, means
<1>10. Same(Projected(al, f), Projected(al, g))
  BY <1>2, <1>3, <1>6, <1>7, SameProjection
<1>11. Same(Attempt(rule, ctx), Answer(def, m, payload))
  <2>1. CASE Failed(means) \/ means.kind # "bool"
    BY <1>5, <1>8, <1>9, <2>1, ErrorsFail DEF Same, AsFlag
  <2>2. CASE ~(Failed(means) \/ means.kind # "bool")
    <3>1. holds = means
      BY <1>5, <2>2 DEF Same, AsFlag
    <3> QED
      BY <1>8, <1>9, <1>10, <2>2, <3>1 DEF Same
  <2> QED
    BY <2>1, <2>2
<1> QED
  BY <1>11 DEF rule

-----------------------------------------------------------------------------
(***************************************************************************)
(* The invariant.                                                          *)
(***************************************************************************)

\* The rules whose payload can be decoded, and what became of them.
InReach(m) == {i \in DOMAIN rules :
                 Readable(PayloadFor(i, m), FieldsFor(GroupOf(i)), rules[i].schema)}
Attempts(m) == [i \in InReach(m) |-> Attempt(rules[i], ContextFor(i, m))]

\* What evaluating a message leaves.
Outcome(m) ==
    LET Errors == {i \in InReach(m) : Failed(Attempts(m)[i])}
    IN  /\ results = [i \in {j \in InReach(m) : Attempts(m)[j].kind \in {"copy", "columns"}}
                          |-> Attempts(m)[i]]
        /\ evalCount = Cardinality(InReach(m))
        /\ errorCount = Cardinality(Errors)
        /\ typeErrorCount = Cardinality({i \in Errors : Attempts(m)[i].type})
        /\ payloadErrorCount = Cardinality({GroupOf(i) : i \in DOMAIN rules \ InReach(m)})

\* The rules are those of the file, compiled, and each is one the decoder can serve.
RulesAreCompiled ==
    /\ file \in Seq(Definitions)
    /\ rules \in Seq({Compiled(def) : def \in Definitions})
    /\ Len(rules) = Len(file) /\ Len(rules) <= MaxRules
    /\ \A i \in 1..Len(file) :
          /\ rules[i] = Compiled(file[i])
          /\ (format = "protobuf") = (file[i].schema # NoSchema)
          /\ \A p \in PlansOf(rules[i]) : ~plan_has_unknown(p)

\* The phases, and what is known in each.
PhaseIsRight ==
    /\ phase \in {"loading", "refused", "serving", "answered"}
    /\ phase = "answered" => message \in Messages /\ Outcome(message)
    /\ phase # "answered" =>
          /\ message = NoMessage /\ results = Nothing
          /\ evalCount = 0 /\ errorCount = 0 /\ typeErrorCount = 0 /\ payloadErrorCount = 0

RuleInv == format \in {"json", "protobuf"} /\ RulesAreCompiled /\ PhaseIsRight

\* There are finitely many rules, so that they can be counted ...
LEMMA SomeRules ==
    ASSUME RulesAreCompiled, NEW S \in SUBSET DOMAIN rules
    PROVE  /\ DOMAIN rules = 1..Len(rules) /\ Len(rules) \in Nat
           /\ Cardinality(DOMAIN rules) = Len(rules)
           /\ IsFiniteSet(S) /\ Cardinality(S) \in Nat /\ Cardinality(S) <= Len(rules)
<1>1. DOMAIN rules = 1..Len(rules) /\ Len(rules) \in Nat
  BY DEF RulesAreCompiled
<1>2. IsFiniteSet(1..Len(rules)) /\ Cardinality(1..Len(rules)) = Len(rules)
  BY <1>1, FS_Interval
<1>3. IsFiniteSet(S) /\ Cardinality(S) <= Cardinality(1..Len(rules))
  BY <1>1, <1>2, FS_Subset
<1>4. Cardinality(S) \in Nat
  BY <1>3, FS_CardinalityType
<1> QED
  BY <1>1, <1>2, <1>3, <1>4

\* ... and so can the groups of some of them, of which there are no more.
LEMMA SomeGroups ==
    ASSUME RulesAreCompiled, NEW S \in SUBSET DOMAIN rules
    PROVE  /\ Cardinality({GroupOf(i) : i \in S}) \in Nat
           /\ Cardinality({GroupOf(i) : i \in S}) <= Cardinality(S)
<1> DEFINE G == {GroupOf(i) : i \in S}
           f == [i \in S |-> GroupOf(i)]
<1>1. f \in Surjection(S, G)
  BY DEF Surjection
<1>2. IsFiniteSet(S)
  BY SomeRules
<1> HIDE DEF f, G
<1>3. IsFiniteSet(G) /\ Cardinality(G) <= Cardinality(S)
  BY <1>1, <1>2, FS_Surjection
<1> QED
  BY <1>3, FS_CardinalityType DEF G

\* RuleInv is an invariant: add_rule compiles what it reads and evaluate changes no rule.
THEOREM RulesStayCompiled == Spec => []RuleInv
<1>1. Init => RuleInv
  <2> SUFFICES ASSUME Init PROVE RuleInv
    OBVIOUS
  <2>1. file = <<>> /\ rules = <<>> /\ MaxRules \in Nat
    BY RuleEvalAssumption DEF Init
  <2>2. RulesAreCompiled
    BY <2>1 DEF RulesAreCompiled
  <2>3. PhaseIsRight
    BY DEF Init, PhaseIsRight
  <2> QED
    BY <2>2, <2>3 DEF Init, RuleInv
<1>2. ASSUME RuleInv, [Next]_vars PROVE RuleInv'
  <2>0. format \in {"json", "protobuf"} /\ RulesAreCompiled /\ PhaseIsRight
    BY <1>2 DEF RuleInv
  <2>1. ASSUME NEW def \in Definitions, AddRule(def) PROVE RuleInv'
    <3>1. /\ phase = "loading" /\ phase' = "loading" /\ Len(rules) < MaxRules
          /\ file' = Append(file, def) /\ rules' = Append(rules, Compiled(def))
          /\ UNCHANGED <<format, message, results, countVars>>
          /\ (format = "protobuf") = (def.schema # NoSchema)
          /\ \A p \in PlansOf(Compiled(def)) : ~plan_has_unknown(p)
      BY <2>1 DEF AddRule, Compatible
    <3>2. /\ file' \in Seq(Definitions)
          /\ rules' \in Seq({Compiled(d) : d \in Definitions})
          /\ Len(rules') = Len(file') /\ Len(rules') <= MaxRules
      BY <2>0, <3>1, RuleEvalAssumption DEF RulesAreCompiled
    <3>3. ASSUME NEW i \in 1..Len(file')
          PROVE  /\ rules'[i] = Compiled(file'[i])
                 /\ (format' = "protobuf") = (file'[i].schema # NoSchema)
                 /\ \A p \in PlansOf(rules'[i]) : ~plan_has_unknown(p)
      <4>1. CASE i \in 1..Len(file)
        <5>1. file'[i] = file[i] /\ rules'[i] = rules[i]
          BY <2>0, <3>1, <4>1 DEF RulesAreCompiled
        <5> QED
          BY <2>0, <3>1, <4>1, <5>1 DEF RulesAreCompiled
      <4>2. CASE i = Len(file) + 1
        <5>1. file'[i] = def /\ rules'[i] = Compiled(def)
          BY <2>0, <3>1, <4>2 DEF RulesAreCompiled
        <5> QED
          BY <3>1, <5>1
      <4> QED
        BY <2>0, <3>1, <4>1, <4>2 DEF RulesAreCompiled
    <3>5. RulesAreCompiled'
      BY <3>2, <3>3 DEF RulesAreCompiled
    <3>6. PhaseIsRight'
      BY <2>0, <3>1 DEF PhaseIsRight, countVars
    <3> QED
      BY <2>0, <3>1, <3>5, <3>6 DEF RuleInv
  <2>2. ASSUME UNCHANGED engineVars PROVE RulesAreCompiled' /\ format' \in {"json", "protobuf"}
    <3>1. format' = format /\ file' = file /\ rules' = rules
      BY <2>2 DEF engineVars
    <3> QED
      BY <2>0, <3>1 DEF RulesAreCompiled
  <2>3. ASSUME NEW def \in Definitions, RefuseRule(def) PROVE RuleInv'
    <3>1. /\ phase = "loading" /\ phase' = "refused"
          /\ UNCHANGED <<engineVars, message, results, countVars>>
      BY <2>3 DEF RefuseRule
    <3> QED
      BY <2>0, <2>2, <3>1 DEF RuleInv, PhaseIsRight, countVars
  <2>4. CASE RulesLoaded
    <3>1. /\ phase = "loading" /\ phase' = "serving"
          /\ UNCHANGED <<engineVars, message, results, countVars>>
      BY <2>4 DEF RulesLoaded
    <3> QED
      BY <2>0, <2>2, <3>1 DEF RuleInv, PhaseIsRight, countVars
  <2>5. ASSUME NEW m \in Messages, Evaluate(m) PROVE RuleInv'
    <3>1. phase = "serving" /\ phase' = "answered" /\ message' = m /\ UNCHANGED engineVars
      BY <2>5 DEF Evaluate
    <3>2. Outcome(m)'
      <4>1. format' = format /\ rules' = rules
        BY <3>1 DEF engineVars
      <4>2. InReach(m)' = InReach(m) /\ Attempts(m)' = Attempts(m)
        BY <4>1 DEF InReach, Attempts, Readable, PayloadFor, FieldsFor, GroupOf, ContextFor,
                    PartsFor
      <4>3. {GroupOf(i) : i \in DOMAIN rules \ InReach(m)}'
              = {GroupOf(i) : i \in DOMAIN rules \ InReach(m)}
        BY <4>1, <4>2 DEF GroupOf
      <4>4. DOMAIN Attempts(m) = InReach(m)
        BY DEF Attempts
      <4>5. evalCount = 0 /\ errorCount = 0 /\ typeErrorCount = 0 /\ payloadErrorCount = 0
        BY <2>0, <3>1 DEF PhaseIsRight
      <4> DEFINE Errors == {i \in InReach(m) : Failed(Attempts(m)[i])}
      <4>6. /\ results' = [i \in {j \in InReach(m) : Attempts(m)[j].kind \in {"copy", "columns"}}
                              |-> Attempts(m)[i]]
            /\ Counted(Attempts(m))
            /\ payloadErrorCount' = payloadErrorCount
                  + Cardinality({GroupOf(i) : i \in DOMAIN rules \ InReach(m)})
        BY <2>5 DEF Evaluate, InReach, Attempts
      <4>7. /\ evalCount' = 0 + Cardinality(InReach(m))
            /\ errorCount' = 0 + Cardinality(Errors)
            /\ typeErrorCount' = 0 + Cardinality({i \in Errors : Attempts(m)[i].type})
            /\ payloadErrorCount' = 0 + Cardinality({GroupOf(i) : i \in DOMAIN rules \ InReach(m)})
        BY <4>4, <4>5, <4>6 DEF Counted
      <4>8. /\ InReach(m) \in SUBSET DOMAIN rules
            /\ DOMAIN rules \ InReach(m) \in SUBSET DOMAIN rules
            /\ Errors \in SUBSET DOMAIN rules
            /\ {i \in Errors : Attempts(m)[i].type} \in SUBSET DOMAIN rules
        BY DEF InReach
      <4>9. /\ Cardinality(InReach(m)) \in Nat /\ Cardinality(Errors) \in Nat
            /\ Cardinality({i \in Errors : Attempts(m)[i].type}) \in Nat
            /\ Cardinality({GroupOf(i) : i \in DOMAIN rules \ InReach(m)}) \in Nat
        BY <2>0, <4>8, SomeRules, SomeGroups
      <4>10. /\ evalCount' = Cardinality(InReach(m))
             /\ errorCount' = Cardinality(Errors)
             /\ typeErrorCount' = Cardinality({i \in Errors : Attempts(m)[i].type})
             /\ payloadErrorCount' = Cardinality({GroupOf(i) : i \in DOMAIN rules \ InReach(m)})
        BY <4>7, <4>9
      <4> QED
        BY <4>2, <4>3, <4>6, <4>10 DEF Outcome
    <3>3. PhaseIsRight'
      BY <3>1, <3>2 DEF PhaseIsRight
    <3> QED
      BY <2>2, <3>1, <3>3 DEF RuleInv
  <2>6. CASE UNCHANGED vars
    <3>1. UNCHANGED <<engineVars, phase, message, results, countVars>>
      BY <2>6 DEF vars
    <3>2. phase = "answered" => Outcome(message)'
      <4>1. format' = format /\ rules' = rules /\ message' = message
        BY <3>1 DEF engineVars
      <4>2. InReach(message)' = InReach(message) /\ Attempts(message)' = Attempts(message)
        BY <4>1 DEF InReach, Attempts, Readable, PayloadFor, FieldsFor, GroupOf, ContextFor,
                    PartsFor
      <4>3. {GroupOf(i) : i \in DOMAIN rules \ InReach(message)}'
              = {GroupOf(i) : i \in DOMAIN rules \ InReach(message)}
        BY <4>1, <4>2 DEF GroupOf
      <4>4. phase = "answered" => Outcome(message)
        BY <2>0 DEF PhaseIsRight
      <4> QED
        BY <3>1, <4>2, <4>3, <4>4 DEF Outcome, countVars
    <3> QED
      BY <2>0, <2>2, <3>1, <3>2 DEF RuleInv, PhaseIsRight, countVars
  <2> QED
    BY <1>2, <2>1, <2>3, <2>4, <2>5, <2>6 DEF Next
<1> QED
  BY <1>1, <1>2, PTL DEF Spec

\* Types, and the normal form of the plans of rules: the property TypeOK.
THEOREM TypeCorrect == Spec => []TypeOK
<1>1. ASSUME RuleInv PROVE TypeOK
  <2>0. format \in {"json", "protobuf"} /\ RulesAreCompiled /\ PhaseIsRight
    BY <1>1 DEF RuleInv
  <2>1. ASSUME NEW i \in DOMAIN rules, NEW plan \in PlansOf(rules[i]), NEW p \in Subplans[plan]
        PROVE  /\ p.node \in {"const", "field", "meta", "binary", "topic_level", "property"}
               /\ Normal(p)
    <3>1. PICK def \in Definitions : rules[i] = Compiled(def)
      BY <2>0 DEF RulesAreCompiled
    <3>2. plan \in Plans
      BY <2>1, <3>1, CompiledIs
    <3>3. p \in Plans
      BY <2>1, <3>2, SubplansArePlans
    <3>4. p.node \in {"const", "field", "meta", "binary", "topic_level", "property", "unknown"}
      <4>1. PICK x \in Expressions : p = compile_expr_plan[x]
        BY <3>3 DEF Plans
      <4> QED
        BY <4>1, PlanParts
    <3>5. p.node # "unknown"
      BY <2>0, <2>1 DEF RulesAreCompiled, plan_has_unknown
    <3> QED
      BY <3>3, <3>4, <3>5, PlansNormal
  <2>2. Len(file) = Len(rules) /\ Len(rules) <= MaxRules /\ MaxRules \in Nat /\ Len(rules) \in Nat
    BY <2>0, RuleEvalAssumption DEF RulesAreCompiled
  <2>3. (message = NoMessage) = (phase # "answered")
    BY <2>0, RuleEvalAssumption DEF PhaseIsRight
  <2>4. phase \in {"loading", "refused", "serving", "answered"}
    BY <2>0 DEF PhaseIsRight
  <2>5. CASE phase # "answered"
    <3>1. /\ results = Nothing
          /\ evalCount = 0 /\ errorCount = 0 /\ typeErrorCount = 0 /\ payloadErrorCount = 0
      BY <2>0, <2>5 DEF PhaseIsRight
    <3>2. DOMAIN results = {}
      BY <3>1 DEF Nothing
    <3>3. 0 \in 0..MaxRules
      BY <2>2
    <3>4. {evalCount, errorCount, typeErrorCount, payloadErrorCount} \subseteq 0..MaxRules
      BY <3>1, <3>3
    <3> QED
      BY <2>0, <2>1, <2>2, <2>3, <2>4, <3>2, <3>4 DEF TypeOK, Normal
  <2>6. CASE phase = "answered"
    <3> DEFINE m == message
               Errors == {i \in InReach(m) : Failed(Attempts(m)[i])}
               TypeErrors == {i \in Errors : Attempts(m)[i].type}
               Lost == DOMAIN rules \ InReach(m)
    <3>1. Outcome(m)
      BY <2>0, <2>6 DEF PhaseIsRight
    <3>2. /\ results = [i \in {j \in InReach(m) : Attempts(m)[j].kind \in {"copy", "columns"}}
                            |-> Attempts(m)[i]]
          /\ evalCount = Cardinality(InReach(m)) /\ errorCount = Cardinality(Errors)
          /\ typeErrorCount = Cardinality(TypeErrors)
          /\ payloadErrorCount = Cardinality({GroupOf(i) : i \in Lost})
      BY <3>1 DEF Outcome
    <3>3. /\ InReach(m) \in SUBSET DOMAIN rules /\ Lost \in SUBSET DOMAIN rules
          /\ Errors \in SUBSET DOMAIN rules /\ TypeErrors \in SUBSET DOMAIN rules
      BY DEF InReach
    <3>4. DOMAIN results \subseteq DOMAIN rules
      BY <3>2, <3>3
    <3>5. \A i \in DOMAIN results : results[i].kind \in {"copy", "columns"}
      BY <3>2
    <3> HIDE DEF Errors, TypeErrors, Lost, m
    <3>6. \A S \in SUBSET DOMAIN rules : Cardinality(S) \in 0..MaxRules
      <4> TAKE S \in SUBSET DOMAIN rules
      <4>1. Cardinality(S) \in Nat /\ Cardinality(S) <= Len(rules)
        BY <2>0, SomeRules
      <4> QED
        BY <2>2, <4>1
    <3>7. Cardinality({GroupOf(i) : i \in Lost}) \in 0..MaxRules
      <4>1. /\ Cardinality({GroupOf(i) : i \in Lost}) \in Nat
            /\ Cardinality({GroupOf(i) : i \in Lost}) <= Cardinality(Lost)
        BY <2>0, <3>3, SomeGroups
      <4>2. Cardinality(Lost) \in 0..MaxRules
        BY <3>3, <3>6
      <4> QED
        BY <2>2, <4>1, <4>2
    <3>8. {evalCount, errorCount, typeErrorCount, payloadErrorCount} \subseteq 0..MaxRules
      BY <3>2, <3>3, <3>6, <3>7
    <3> QED
      BY <2>0, <2>1, <2>2, <2>3, <2>4, <3>4, <3>5, <3>8 DEF TypeOK, Normal
  <2> QED
    BY <2>5, <2>6
<1> QED
  BY <1>1, RulesStayCompiled, PTL

-----------------------------------------------------------------------------
(***************************************************************************)
(* A message is answered as the file is written.                           *)
(***************************************************************************)

\* What the rules of a group see of a message is enough for each of them.
LEMMA ContextFits ==
    ASSUME RulesAreCompiled, NEW i \in DOMAIN rules, NEW m, NEW p \in PlansOf(rules[i])
    PROVE  Fits(p, ContextFor(i, m), m, PayloadFor(i, m))
<1> DEFINE ctx == ContextFor(i, m)
           fields == FieldsFor(GroupOf(i))
           payload == PayloadFor(i, m)
<1>1. /\ ctx.message = m
      /\ ctx.topic = PartsFor(GroupOf(i), m)
      /\ ctx.ir = IF fields = {} THEN Nothing ELSE Sparse(payload, fields)
  BY DEF ContextFor
<1>2. i \in GroupOf(i)
  BY DEF GroupOf
<1> HIDE DEF ctx
<1>3. ASSUME NEW q \in Subplans[p], q.node = "field"
      PROVE  Same(IF q.path \in DOMAIN ctx.ir THEN ctx.ir[q.path] ELSE OtherError,
                  Lookup(payload, q.path))
  <2>1. q.path \in required_payload_fields(p)
    BY <1>3 DEF required_payload_fields
  <2>2. q.path \in FieldsOf(rules[i])
    BY <2>1 DEF FieldsOf
  <2>3. q.path \in fields
    BY <1>2, <2>2 DEF FieldsFor
  <2> HIDE DEF fields, payload
  <2>4. ctx.ir = Sparse(payload, fields)
    BY <1>1, <2>3
  <2>5. CASE Failed(Lookup(payload, q.path))
    <3>1. q.path \notin DOMAIN ctx.ir
      BY <2>4, <2>5 DEF Sparse
    <3> QED
      BY <2>5, <3>1, ErrorsFail DEF Same
  <2>6. CASE ~Failed(Lookup(payload, q.path))
    <3>1. q.path \in DOMAIN ctx.ir /\ ctx.ir[q.path] = Lookup(payload, q.path)
      BY <2>3, <2>4, <2>6 DEF Sparse
    <3> QED
      BY <3>1 DEF Same
  <2> QED
    BY <2>5, <2>6
<1>4. ASSUME NEW q \in Subplans[p], q.node = "topic_level" PROVE ctx.topic = m.topic
  <2>1. NeedsTopic(rules[i])
    BY <1>4 DEF NeedsTopic, plan_requires_topic_parts
  <2> QED
    BY <1>1, <1>2, <2>1 DEF PartsFor
<1>5. ASSUME NEW q \in Subplans[p] PROVE q.node # "unknown"
  <2>1. DOMAIN rules = 1..Len(file)
    BY DEF RulesAreCompiled
  <2> QED
    BY <2>1 DEF RulesAreCompiled, plan_has_unknown
<1> QED
  BY <1>1, <1>3, <1>4, <1>5 DEF Fits, ctx

\* The rules whose payload can be decoded are those for which the payload is of use.
LEMMA ReachIsUse ==
    ASSUME RuleInv, NEW m
    PROVE  InReach(m) = {i \in DOMAIN rules : ~Unusable(m, rules[i].schema)}
<1>0. format \in {"json", "protobuf"} /\ RulesAreCompiled
  BY DEF RuleInv
<1>1. /\ DOMAIN rules = 1..Len(file) /\ DOMAIN file = 1..Len(file)
      /\ \A i \in 1..Len(file) : rules[i] = Compiled(file[i]) /\ file[i] \in Definitions
      /\ \A i \in 1..Len(file) : (format = "protobuf") = (file[i].schema # NoSchema)
  BY <1>0 DEF RulesAreCompiled
<1>2. \A i \in 1..Len(file) : rules[i].schema = file[i].schema
  BY <1>1, CompiledIs
<1>3. ASSUME NEW i \in DOMAIN rules
      PROVE  Readable(PayloadFor(i, m), FieldsFor(GroupOf(i)), rules[i].schema)
               <=> ~Unusable(m, rules[i].schema)
  <2>1. CASE format = "protobuf"
    BY <2>1 DEF Readable, Unusable, PayloadFor
  <2>2. CASE format = "json"
    <3>1. GroupOf(i) = DOMAIN rules
      BY <1>1, <1>2, <2>2 DEF GroupOf
    <3>2. \A j \in 1..Len(file) : NamesAField(file[j]) <=> FieldsOf(rules[j]) # {}
      BY <1>1, RuleFields
    <3>3. FieldsFor(GroupOf(i)) = {} <=> \A j \in 1..Len(file) : FieldsOf(rules[j]) = {}
      BY <1>1, <3>1 DEF FieldsFor
    <3>4. FieldsFor(GroupOf(i)) = {} <=> ~\E j \in DOMAIN file : NamesAField(file[j])
      BY <1>1, <3>2, <3>3
    <3> QED
      BY <2>2, <3>4 DEF Readable, Unusable, PayloadFor
  <2> QED
    BY <1>0, <2>1, <2>2
<1> QED
  BY <1>3 DEF InReach

\* What is expected of a rule: the answer of its definition.
Expectation(i, m) == Answer(file[i], m, m.payload[rules[i].schema])

\* Every rule that can read the payload does what is expected of it.
LEMMA AttemptsAsExpected ==
    ASSUME RuleInv, NEW m, NEW i \in InReach(m)
    PROVE  Same(Attempts(m)[i], Expectation(i, m))
<1>1. RulesAreCompiled /\ i \in DOMAIN rules
  BY DEF RuleInv, InReach
<1>2. rules[i] = Compiled(file[i]) /\ file[i] \in Definitions
  BY <1>1 DEF RulesAreCompiled
<1>3. \A p \in PlansOf(Compiled(file[i])) : Fits(p, ContextFor(i, m), m, PayloadFor(i, m))
  BY <1>1, <1>2, ContextFits
<1>4. Same(Attempt(Compiled(file[i]), ContextFor(i, m)), Answer(file[i], m, PayloadFor(i, m)))
  BY <1>2, <1>3, AttemptIsAnswer
<1>5. Attempts(m)[i] = Attempt(rules[i], ContextFor(i, m))
  BY DEF Attempts
<1> QED
  BY <1>2, <1>4, <1>5 DEF Expectation, PayloadFor

\* Answers are what the rule file says: the property AnswersAsWritten.
THEOREM AnswersAreAsWritten == Spec => []AnswersAsWritten
<1>1. ASSUME RuleInv PROVE AnswersAsWritten
  <2> SUFFICES ASSUME phase = "answered"
               PROVE  results = [i \in {j \in {k \in DOMAIN rules : ~Unusable(message, rules[k].schema)} :
                                          Expectation(j, message).kind \in {"copy", "columns"}}
                                   |-> Expectation(i, message)]
    BY DEF AnswersAsWritten, Expectation
  <2>1. results = [i \in {j \in InReach(message) : Attempts(message)[j].kind \in {"copy", "columns"}}
                     |-> Attempts(message)[i]]
    BY <1>1 DEF RuleInv, PhaseIsRight, Outcome
  <2>2. InReach(message) = {k \in DOMAIN rules : ~Unusable(message, rules[k].schema)}
    BY <1>1, ReachIsUse
  <2>3. \A j \in InReach(message) : Same(Attempts(message)[j], Expectation(j, message))
    BY <1>1, AttemptsAsExpected
  <2>4. \A j \in InReach(message) :
          /\ Attempts(message)[j].kind \in {"copy", "columns"}
               <=> Expectation(j, message).kind \in {"copy", "columns"}
          /\ Attempts(message)[j].kind \in {"copy", "columns"}
               => Attempts(message)[j] = Expectation(j, message)
    BY <2>3 DEF Same, Failed
  <2> QED
    BY <2>1, <2>2, <2>4
<1> QED
  BY <1>1, RulesStayCompiled, PTL

\* Some rules are of as many groups as they have schemas.
LEMMA GroupsAreSchemas ==
    ASSUME RulesAreCompiled, NEW S \in SUBSET DOMAIN rules
    PROVE  Cardinality({GroupOf(i) : i \in S}) = Cardinality({rules[i].schema : i \in S})
<1> DEFINE T == {rules[i].schema : i \in S}
           G == {GroupOf(i) : i \in S}
           f == [s \in T |-> {j \in DOMAIN rules : rules[j].schema = s}]
           h == [i \in S |-> rules[i].schema]
<1>1. h \in Surjection(S, T)
  BY DEF Surjection
<1>2. IsFiniteSet(T)
  <2>1. IsFiniteSet(S)
    BY SomeRules
  <2> HIDE DEF h, T
  <2> QED
    BY <1>1, <2>1, FS_Surjection
<1>3. \A i \in S : f[rules[i].schema] = GroupOf(i) /\ rules[i].schema \in T
  BY DEF GroupOf
<1>4. f \in [T -> G]
  <2>1. \A s \in T : f[s] \in G
    BY <1>3
  <2> QED
    BY <2>1
<1>5. ASSUME NEW s \in T, NEW t \in T, f[s] = f[t] PROVE s = t
  <2>1. PICK i \in S : rules[i].schema = s
    OBVIOUS
  <2>2. i \in f[s]
    BY <2>1
  <2>3. i \in f[t]
    BY <1>5, <2>2
  <2> QED
    BY <2>1, <2>3
<1>6. \A g \in G : \E s \in T : f[s] = g
  BY <1>3
<1> HIDE DEF f, G, T
<1>7. f \in Bijection(T, G)
  BY <1>4, <1>5, <1>6 DEF Bijection, Injection, Surjection, IsInjective
<1>8. ExistsBijection(T, G)
  BY <1>7 DEF ExistsBijection
<1>9. Cardinality(G) = Cardinality(T)
  BY <1>2, <1>8, FS_Bijection
<1> QED
  BY <1>9 DEF G, T

\* The counters account for every rule and every error: the property CountsAddUp.
THEOREM CountersAddUp == Spec => []CountsAddUp
<1>1. ASSUME RuleInv PROVE CountsAddUp
  <2> DEFINE Lost == {i \in DOMAIN rules : Unusable(message, rules[i].schema)}
             Reach == InReach(message)
             Errors == {i \in Reach : Failed(Attempts(message)[i])}
             TypeErrors == {i \in Errors : Attempts(message)[i].type}
  <2> SUFFICES ASSUME phase = "answered"
               PROVE  /\ evalCount + Cardinality(Lost) = Len(rules)
                      /\ payloadErrorCount = Cardinality({rules[i].schema : i \in Lost})
                      /\ errorCount = Cardinality({i \in DOMAIN rules \ Lost :
                                                     Failed(Expectation(i, message))})
                      /\ typeErrorCount <= errorCount
    BY DEF CountsAddUp, Expectation
  <2>0. RulesAreCompiled
    BY <1>1 DEF RuleInv
  <2>1. /\ evalCount = Cardinality(Reach) /\ errorCount = Cardinality(Errors)
        /\ typeErrorCount = Cardinality(TypeErrors)
        /\ payloadErrorCount = Cardinality({GroupOf(i) : i \in DOMAIN rules \ Reach})
    BY <1>1 DEF RuleInv, PhaseIsRight, Outcome
  <2>2. Reach = {k \in DOMAIN rules : ~Unusable(message, rules[k].schema)}
    BY <1>1, ReachIsUse
  <2>3. Lost = DOMAIN rules \ Reach /\ Reach = DOMAIN rules \ Lost
    BY <2>2
  <2>4. Errors = {i \in DOMAIN rules \ Lost : Failed(Expectation(i, message))}
    <3>1. \A i \in Reach : Failed(Attempts(message)[i]) <=> Failed(Expectation(i, message))
      BY <1>1, AttemptsAsExpected DEF Same
    <3> QED
      BY <2>3, <3>1
  <2>5. TypeErrors \in SUBSET Errors /\ Errors \in SUBSET DOMAIN rules
    BY <2>2
  <2> HIDE DEF Lost, Reach, Errors, TypeErrors
  <2>6. Cardinality(Reach) + Cardinality(Lost) = Len(rules)
    <3>1. Reach \in SUBSET DOMAIN rules /\ Lost \in SUBSET DOMAIN rules
      BY <2>2, <2>3
    <3>2. /\ DOMAIN rules = 1..Len(rules) /\ Len(rules) \in Nat
          /\ IsFiniteSet(DOMAIN rules) /\ IsFiniteSet(Reach) /\ IsFiniteSet(Lost)
          /\ Cardinality(Reach) \in Nat /\ Cardinality(Lost) \in Nat
      BY <2>0, <3>1, SomeRules
    <3>3. Cardinality(DOMAIN rules) = Len(rules)
      BY <2>0, <3>1, SomeRules
    <3>4. Cardinality(DOMAIN rules \ Reach)
            = Cardinality(DOMAIN rules) - Cardinality(DOMAIN rules \cap Reach)
      BY <3>2, FS_Difference
    <3>5. DOMAIN rules \cap Reach = Reach
      BY <3>1
    <3>6. Cardinality(Lost) = Len(rules) - Cardinality(Reach)
      BY <2>3, <3>3, <3>4, <3>5
    <3> QED
      BY <3>2, <3>6
  <2>7. Cardinality(TypeErrors) <= Cardinality(Errors)
    <3>1. IsFiniteSet(Errors)
      BY <2>0, <2>5, SomeRules
    <3> QED
      BY <2>5, <3>1, FS_Subset
  <2>8. Cardinality({GroupOf(i) : i \in Lost}) = Cardinality({rules[i].schema : i \in Lost})
    <3>1. Lost \in SUBSET DOMAIN rules
      BY <2>3
    <3> QED
      BY <2>0, <3>1, GroupsAreSchemas
  <2> QED
    BY <2>1, <2>3, <2>4, <2>6, <2>7, <2>8
<1> QED
  BY <1>1, RulesStayCompiled, PTL

-----------------------------------------------------------------------------
(***************************************************************************)
(* The full decoding and the sparse one.                                   *)
(***************************************************************************)

\* What Walk does at each name of a path.
WalkStep(value, path, kinds, n, f) ==
    IF n = 0 THEN value ELSE Field(f[n-1], path[n], kinds)

\* A walk takes one step for each name.
LEMMA WalkDefined ==
    ASSUME NEW value, NEW kinds, NEW S, NEW path \in Seq(S)
    PROVE  \E f : /\ Walk(value, path, kinds) = f[Len(path)]
                  /\ \A n \in 0..Len(path) : f[n] = WalkStep(value, path, kinds, n, f)
<1> DEFINE D == 0..Len(path)
           Step(n, f) == WalkStep(value, path, kinds, n, f)
           Reached(k) == \E f : \A n \in D : n < k => f[n] = Step(n, f)
           T == {k \in Nat : Reached(k)}
<1>0. Len(path) \in Nat
  OBVIOUS
<1>1. 0 \in T
  <2>1. \A n \in D : n < 0 => Height[n] = Step(n, Height)
    BY <1>0
  <2> HIDE DEF Step, D
  <2>2. Reached(0)
    BY <2>1
  <2> QED
    BY <2>2
<1>2. ASSUME NEW k \in T PROVE k + 1 \in T
  <2>1. PICK f : \A n \in D : n < k => f[n] = Step(n, f)
    OBVIOUS
  <2> DEFINE g == [n \in D |-> Step(n, f)]
  <2>2. ASSUME NEW n \in D, n < k + 1 PROVE g[n] = Step(n, g)
    <3>1. CASE n = 0
      BY <3>1 DEF WalkStep
    <3>2. CASE n # 0
      <4>1. n - 1 \in D /\ n - 1 < k
        BY <1>0, <2>2, <3>2
      <4>2. g[n-1] = f[n-1]
        BY <2>1, <4>1
      <4>3. g[n] = Step(n, f)
        OBVIOUS
      <4> HIDE DEF g
      <4> QED
        BY <3>2, <4>2, <4>3 DEF WalkStep
    <3> QED
      BY <3>1, <3>2
  <2>3. Reached(k + 1)
    <3> HIDE DEF g, Step, D
    <3> QED
      BY <2>2
  <2> QED
    BY <2>3
<1>3. Len(path) + 1 \in T
  <2>1. T \in SUBSET Nat
    OBVIOUS
  <2> HIDE DEF T
  <2> QED
    BY <1>0, <1>1, <1>2, <2>1, NatSetInduction
<1>4. PICK f : \A n \in D : f[n] = Step(n, f)
  <2>1. PICK f : \A n \in D : n < Len(path) + 1 => f[n] = Step(n, f)
    BY <1>3
  <2>2. \A n \in D : n < Len(path) + 1
    BY <1>0
  <2> HIDE DEF D, Step
  <2> QED
    BY <2>1, <2>2
<1> DEFINE g == [n \in D |-> f[n]]
<1>5. ASSUME NEW n \in D PROVE g[n] = Step(n, g)
  <2>1. n # 0 => g[n-1] = f[n-1]
    BY <1>0
  <2>2. g[n] = Step(n, f)
    BY <1>4
  <2> HIDE DEF g
  <2> QED
    BY <2>1, <2>2 DEF WalkStep
<1>6. g = [n \in D |-> Step(n, g)]
  <2>1. g = [n \in D |-> g[n]]
    OBVIOUS
  <2> HIDE DEF g, D, Step
  <2> QED
    BY <1>5, <2>1
<1> HIDE DEF g
<1> DEFINE at == CHOOSE h : h = [n \in D |-> Step(n, h)]
<1>7. at = [n \in D |-> Step(n, at)]
  <2> HIDE DEF D, Step
  <2> QED
    BY <1>6
<1>8. Walk(value, path, kinds) = at[Len(path)]
  BY DEF Walk, WalkStep
<1> HIDE DEF at
<1>9. \A n \in D : at[n] = Step(n, at)
  <2> DEFINE G(h) == [n \in D |-> Step(n, h)]
  <2>1. \A n \in D : G(at)[n] = Step(n, at)
    OBVIOUS
  <2>2. at = G(at)
    BY <1>7
  <2> HIDE DEF G, D, Step
  <2> QED
    BY <2>1, <2>2
<1> QED
  BY <1>8, <1>9

\* A walk of no steps stays where it is.
LEMMA WalkNowhere ==
    ASSUME NEW value, NEW kinds, NEW S, NEW path \in Seq(S)
    PROVE  Len(path) = 0 => Walk(value, path, kinds) = value
<1>1. PICK f : /\ Walk(value, path, kinds) = f[Len(path)]
               /\ \A n \in 0..Len(path) : f[n] = WalkStep(value, path, kinds, n, f)
  BY WalkDefined
<1>2. 0 \in 0..Len(path)
  OBVIOUS
<1>3. f[0] = value
  BY <1>1, <1>2 DEF WalkStep
<1> QED
  BY <1>1, <1>3

\* A longer walk takes one step more.
LEMMA WalkOn ==
    ASSUME NEW value, NEW kinds, NEW S, NEW path \in Seq(S), NEW name \in S
    PROVE  Walk(value, Append(path, name), kinds)
             = Field(Walk(value, path, kinds), name, kinds)
<1> DEFINE longer == Append(path, name)
<1>2. /\ Len(path) \in Nat /\ longer \in Seq(S) /\ Len(longer) = Len(path) + 1
      /\ longer[Len(path) + 1] = name
      /\ \A n \in 1..Len(path) : longer[n] = path[n]
  OBVIOUS
<1> HIDE DEF longer
<1>3. PICK f : /\ Walk(value, path, kinds) = f[Len(path)]
               /\ \A n \in 0..Len(path) : f[n] = WalkStep(value, path, kinds, n, f)
  BY WalkDefined
<1>4. PICK g : /\ Walk(value, longer, kinds) = g[Len(longer)]
               /\ \A n \in 0..Len(longer) : g[n] = WalkStep(value, longer, kinds, n, g)
  BY <1>2, WalkDefined
<1> DEFINE T == {n \in Nat : n <= Len(path) => f[n] = g[n]}
<1>5. 0 \in T
  <2>1. 0 \in 0..Len(path) /\ 0 \in 0..Len(longer)
    BY <1>2
  <2>2. f[0] = value /\ g[0] = value
    BY <1>3, <1>4, <2>1 DEF WalkStep
  <2> QED
    BY <2>2
<1>6. ASSUME NEW n \in T PROVE n + 1 \in T
  <2> SUFFICES ASSUME n + 1 <= Len(path) PROVE f[n + 1] = g[n + 1]
    OBVIOUS
  <2>1. /\ n + 1 \in 0..Len(path) /\ n + 1 \in 0..Len(longer) /\ n + 1 \in 1..Len(path)
        /\ n + 1 # 0 /\ (n + 1) - 1 = n /\ n <= Len(path)
    BY <1>2
  <2>2. f[n] = g[n]
    BY <2>1
  <2>3. f[n + 1] = Field(f[n], path[n + 1], kinds) /\ g[n + 1] = Field(g[n], longer[n + 1], kinds)
    BY <1>3, <1>4, <2>1 DEF WalkStep
  <2> QED
    BY <1>2, <2>1, <2>2, <2>3
<1>7. f[Len(path)] = g[Len(path)]
  <2>1. T \in SUBSET Nat
    OBVIOUS
  <2>2. T = Nat
    <3> HIDE DEF T
    <3> QED
      BY <1>5, <1>6, <2>1, NatSetInduction
  <2>3. Len(path) \in T
    BY <1>2, <2>2
  <2> QED
    BY <1>2, <2>3
<1>8. g[Len(longer)] = Field(g[Len(path)], name, kinds)
  <2>1. Len(longer) \in 0..Len(longer) /\ Len(longer) # 0 /\ Len(longer) - 1 = Len(path)
    BY <1>2
  <2> QED
    BY <1>2, <1>4, <2>1 DEF WalkStep
<1> QED
  BY <1>3, <1>4, <1>7, <1>8 DEF longer

\* The paths of the next length: PathsIn.
LevelStep(value, n, f) ==
    IF n = 0 THEN {<<>>}
    ELSE UNION {{Append(p, name) : name \in NamesAt(value, p)} : p \in f[n-1]}

\* PathsIn is what its definition says: the paths of each length are those that are one
\* shorter with each name that goes on from there.
LEMMA LevelsDefined ==
    ASSUME NEW value
    PROVE  \E f : /\ PathsIn(value) = UNION {f[n] : n \in 0..MaxDepth}
                  /\ \A n \in 0..MaxDepth : f[n] = LevelStep(value, n, f)
<1> DEFINE D == 0..MaxDepth
           Step(n, f) == LevelStep(value, n, f)
           Reached(k) == \E f : \A n \in D : n < k => f[n] = Step(n, f)
           T == {k \in Nat : Reached(k)}
<1>0. MaxDepth \in Nat
  BY RuleEvalAssumption
<1>1. 0 \in T
  <2>1. \A n \in D : n < 0 => Height[n] = Step(n, Height)
    BY <1>0
  <2> HIDE DEF Step, D
  <2>2. Reached(0)
    BY <2>1
  <2> QED
    BY <2>2
<1>2. ASSUME NEW k \in T PROVE k + 1 \in T
  <2>1. PICK f : \A n \in D : n < k => f[n] = Step(n, f)
    OBVIOUS
  <2> DEFINE g == [n \in D |-> Step(n, f)]
  <2>2. ASSUME NEW n \in D, n < k + 1 PROVE g[n] = Step(n, g)
    <3>1. CASE n = 0
      BY <3>1 DEF LevelStep
    <3>2. CASE n # 0
      <4>1. n - 1 \in D /\ n - 1 < k
        BY <1>0, <2>2, <3>2
      <4>2. g[n-1] = f[n-1]
        BY <2>1, <4>1
      <4>3. g[n] = Step(n, f)
        OBVIOUS
      <4> HIDE DEF g
      <4> QED
        BY <3>2, <4>2, <4>3 DEF LevelStep
    <3> QED
      BY <3>1, <3>2
  <2>3. Reached(k + 1)
    <3> HIDE DEF g, Step, D
    <3> QED
      BY <2>2
  <2> QED
    BY <2>3
<1>3. MaxDepth + 1 \in T
  <2>1. T \in SUBSET Nat
    OBVIOUS
  <2> HIDE DEF T
  <2> QED
    BY <1>0, <1>1, <1>2, <2>1, NatSetInduction
<1>4. PICK f : \A n \in D : f[n] = Step(n, f)
  <2>1. PICK f : \A n \in D : n < MaxDepth + 1 => f[n] = Step(n, f)
    BY <1>3
  <2>2. \A n \in D : n < MaxDepth + 1
    BY <1>0
  <2> HIDE DEF D, Step
  <2> QED
    BY <2>1, <2>2
<1> DEFINE g == [n \in D |-> f[n]]
<1>5. ASSUME NEW n \in D PROVE g[n] = Step(n, g)
  <2>1. n # 0 => g[n-1] = f[n-1]
    BY <1>0
  <2>2. g[n] = Step(n, f)
    BY <1>4
  <2> HIDE DEF g
  <2> QED
    BY <2>1, <2>2 DEF LevelStep
<1>6. g = [n \in D |-> Step(n, g)]
  <2>1. g = [n \in D |-> g[n]]
    OBVIOUS
  <2> HIDE DEF g, D, Step
  <2> QED
    BY <1>5, <2>1
<1> HIDE DEF g
<1> DEFINE at == CHOOSE h : h = [n \in D |-> Step(n, h)]
<1>7. at = [n \in D |-> Step(n, at)]
  <2> HIDE DEF D, Step
  <2> QED
    BY <1>6
<1>8. PathsIn(value) = UNION {at[n] : n \in D}
  BY DEF PathsIn, LevelStep
<1> HIDE DEF at
<1>9. \A n \in D : at[n] = Step(n, at)
  <2> DEFINE G(h) == [n \in D |-> Step(n, h)]
  <2>1. \A n \in D : G(at)[n] = Step(n, at)
    OBVIOUS
  <2>2. at = G(at)
    BY <1>7
  <2> HIDE DEF G, D, Step
  <2> QED
    BY <2>1, <2>2
<1> QED
  BY <1>8, <1>9

\* Appending to a sequence makes it longer by what is appended.
LEMMA Appended ==
    ASSUME NEW S, NEW p \in Seq(S), NEW x \in S
    PROVE  /\ Len(p) \in Nat /\ Append(p, x) \in Seq(S) /\ Len(Append(p, x)) = Len(p) + 1
           /\ Append(p, x)[Len(p) + 1] = x
           /\ \A n \in 1..Len(p) : Append(p, x)[n] = p[n]
OBVIOUS

\* Appending a name to a path loses neither the path nor the name.
LEMMA LongerPath ==
    \A a, b \in Seq(STRING) : \A c, d \in STRING :
        Append(a, c) = Append(b, d) => a = b /\ c = d
<1>1. ASSUME NEW S
      PROVE  \A a, b \in Seq(S) : \A c, d \in S : Append(a, c) = Append(b, d) => a = b /\ c = d
  BY AppendInjective
<1> QED
  BY <1>1, Zenon

\* In a JSON document, the paths are texts, no longer than the document is deep, and a
\* path goes on by the names of the object that it leads to.
LEMMA PathsOfJson ==
    ASSUME NEW value, IsJson(value)
    PROVE  /\ <<>> \in PathsIn(value)
           /\ \A p \in Seq(STRING) : \A name \in STRING :
                 Append(p, name) \in PathsIn(value)
                   <=> p \in PathsIn(value) /\ name \in NamesAt(value, p)
<1>0. MaxDepth \in Nat
  BY RuleEvalAssumption
<1>1. PICK f : /\ PathsIn(value) = UNION {f[n] : n \in 0..MaxDepth}
               /\ \A n \in 0..MaxDepth : f[n] = LevelStep(value, n, f)
  BY LevelsDefined
<1>2. f[0] = {<<>>} /\ 0 \in 0..MaxDepth
  <2>1. 0 \in 0..MaxDepth
    BY <1>0
  <2>2. f[0] = LevelStep(value, 0, f)
    BY <1>1, <2>1
  <2>3. LevelStep(value, 0, f) = {<<>>}
    BY DEF LevelStep
  <2> QED
    BY <2>1, <2>2, <2>3
<1>3. \A p \in PathsIn(value) : \A name \in NamesAt(value, p) :
        name \in STRING /\ Len(p) < MaxDepth
  BY DEF IsJson, NamesAt, Entries
<1> DEFINE T == {n \in Nat : n <= MaxDepth => \A p \in f[n] : p \in Seq(STRING) /\ Len(p) = n}
<1>4. 0 \in T
  <2>1. <<>> \in Seq(STRING) /\ Len(<<>>) = 0
    OBVIOUS
  <2> QED
    BY <1>2, <2>1
<1>5. ASSUME NEW n \in T PROVE n + 1 \in T
  <2> SUFFICES ASSUME n + 1 <= MaxDepth, NEW p \in f[n + 1]
               PROVE  p \in Seq(STRING) /\ Len(p) = n + 1
    OBVIOUS
  <2>1. n + 1 \in 0..MaxDepth /\ n \in 0..MaxDepth /\ n + 1 # 0 /\ (n + 1) - 1 = n
    BY <1>0
  <2>2. f[n + 1] = UNION {{Append(q, name) : name \in NamesAt(value, q)} : q \in f[n]}
    BY <1>1, <2>1 DEF LevelStep
  <2>3. PICK q \in f[n] : \E name \in NamesAt(value, q) : p = Append(q, name)
    BY <2>2
  <2>4. PICK name \in NamesAt(value, q) : p = Append(q, name)
    BY <2>3
  <2>5. q \in Seq(STRING) /\ Len(q) = n
    BY <2>1, <2>3
  <2>6. q \in PathsIn(value)
    BY <1>1, <2>1, <2>3
  <2>7. name \in STRING
    BY <1>3, <2>4, <2>6
  <2>8. Append(q, name) \in Seq(STRING) /\ Len(Append(q, name)) = Len(q) + 1
    BY <2>5, <2>7, Appended
  <2> QED
    BY <2>4, <2>5, <2>8
<1>6. \A n \in 0..MaxDepth : \A p \in f[n] : p \in Seq(STRING) /\ Len(p) = n
  <2>1. T \in SUBSET Nat
    OBVIOUS
  <2>2. T = Nat
    <3> HIDE DEF T
    <3> QED
      BY <1>4, <1>5, <2>1, NatSetInduction
  <2> QED
    BY <1>0, <2>2
<1> HIDE DEF T
<1>7. ASSUME NEW p \in Seq(STRING), NEW name \in STRING, Append(p, name) \in PathsIn(value)
      PROVE  p \in PathsIn(value) /\ name \in NamesAt(value, p)
  <2> DEFINE longer == Append(p, name)
  <2>0. longer \in PathsIn(value) /\ Len(longer) = Len(p) + 1 /\ Len(p) \in Nat
    BY <1>7, Appended, Zenon
  <2> HIDE DEF longer
  <2>1. PICK n \in 0..MaxDepth : longer \in f[n]
    BY <1>1, <2>0
  <2>2. Len(longer) = n
    BY <1>6, <2>1
  <2>3. n # 0 /\ n - 1 \in 0..MaxDepth
    BY <1>0, <2>0, <2>2
  <2>4. f[n] = UNION {{Append(q, x) : x \in NamesAt(value, q)} : q \in f[n-1]}
    BY <1>1, <2>3 DEF LevelStep
  <2>5. PICK q \in f[n-1] : \E x \in NamesAt(value, q) : longer = Append(q, x)
    BY <2>1, <2>4
  <2>6. PICK x \in NamesAt(value, q) : Append(p, name) = Append(q, x)
    BY <2>5 DEF longer
  <2>7. q \in Seq(STRING) /\ q \in PathsIn(value)
    BY <1>1, <1>6, <2>3, <2>5
  <2>8. x \in STRING
    BY <1>3, <2>6, <2>7
  <2>9. p = q /\ name = x
    <3>1. p \in Seq(STRING) /\ q \in Seq(STRING) /\ name \in STRING /\ x \in STRING
      BY <2>7, <2>8
    <3>2. Append(p, name) = Append(q, x) => p = q /\ name = x
      BY <3>1, LongerPath, Zenon
    <3> QED
      BY <2>6, <3>2
  <2> QED
    BY <2>6, <2>7, <2>9
<1>8. ASSUME NEW p \in Seq(STRING), NEW name \in STRING,
             p \in PathsIn(value), name \in NamesAt(value, p)
      PROVE  Append(p, name) \in PathsIn(value)
  <2>1. PICK n \in 0..MaxDepth : p \in f[n]
    BY <1>1, <1>8
  <2>2. Len(p) = n /\ Len(p) < MaxDepth
    BY <1>3, <1>6, <1>8, <2>1
  <2>3. n + 1 \in 0..MaxDepth /\ n + 1 # 0 /\ (n + 1) - 1 = n
    BY <1>0, <2>2
  <2>4. f[n + 1] = UNION {{Append(q, x) : x \in NamesAt(value, q)} : q \in f[n]}
    BY <1>1, <2>3 DEF LevelStep
  <2> DEFINE From(q) == {Append(q, x) : x \in NamesAt(value, q)}
  <2>5. Append(p, name) \in f[n + 1]
    <3>1. Append(p, name) \in From(p)
      BY <1>8
    <3>2. f[n + 1] = UNION {From(q) : q \in f[n]}
      BY <2>4
    <3> HIDE DEF From
    <3> QED
      BY <2>1, <3>1, <3>2
  <2> QED
    BY <1>1, <2>3, <2>5
<1>9. <<>> \in PathsIn(value)
  BY <1>1, <1>2
<1> QED
  BY <1>7, <1>8, <1>9

\* The full decoding of a JSON document, objects and maps alike, finds at a path what a
\* rule finds there, which is nothing when there is no such path.
LEMMA JsonLookups ==
    ASSUME NEW value, IsJson(value)
    PROVE  \A p \in Seq(STRING) :
              /\ p \in PathsIn(value) <=> ~Failed(Lookup(value, p))
              /\ p \in PathsIn(value) => Walk(value, p, Entries) = Lookup(value, p)
<1> DEFINE Found(p) == p \in PathsIn(value)
           Agree(p) == /\ Found(p) <=> ~Failed(Lookup(value, p))
                       /\ Found(p) => Walk(value, p, Entries) = Lookup(value, p)
           T == {n \in Nat : \A p \in Seq(STRING) : Len(p) = n => Agree(p)}
<1>1. ASSUME NEW p \in PathsIn(value)
      PROVE  LET v == Walk(value, p, Entries)
             IN  ~Failed(v) /\ (v.kind \in Entries => v.kind = "object")
  <2>1. Walk(value, p, Entries).kind \in {"null", "bool", "number", "string", "array", "object"}
    BY DEF IsJson
  <2> QED
    BY <2>1 DEF Entries, Failed
<1>2. 0 \in T
  <2> SUFFICES ASSUME NEW p \in Seq(STRING), Len(p) = 0 PROVE Agree(p)
    OBVIOUS
  <2>1. p = <<>>
    OBVIOUS
  <2>2. Found(p)
    BY <2>1, PathsOfJson
  <2>3. Walk(value, p, Entries) = value /\ Lookup(value, p) = value
    BY WalkNowhere DEF Lookup
  <2>4. ~Failed(value)
    BY <1>1, <2>2, <2>3
  <2> QED
    BY <2>2, <2>3, <2>4
<1>3. ASSUME NEW p \in Seq(STRING), NEW name \in STRING, Agree(p) PROVE Agree(Append(p, name))
  <2> DEFINE v == Walk(value, p, Entries)
             w == Lookup(value, p)
             longer == Append(p, name)
  <2>1. /\ Walk(value, longer, Entries) = Field(v, name, Entries)
        /\ Lookup(value, longer) = Field(w, name, {"object"})
    BY WalkOn DEF Lookup
  <2>2. Found(longer) <=> Found(p) /\ name \in NamesAt(value, p)
    BY PathsOfJson
  <2>3. NamesAt(value, p) = IF v.kind \in Entries THEN DOMAIN v.fields ELSE {}
    BY DEF NamesAt
  <2>4. Found(longer) => ~Failed(Walk(value, longer, Entries))
    BY <1>1
  <2>5. Found(p) => (v.kind \in Entries <=> v.kind = "object")
    BY <1>1 DEF Entries
  <2>6. Failed(OtherError)
    BY ErrorsFail
  <2>7. (Found(p) <=> ~Failed(w)) /\ (Found(p) => v = w)
    BY <1>3
  <2>8. "object" # "error"
    OBVIOUS
  <2> HIDE DEF Found, v, w, longer
  <2>9. CASE ~Found(p)
    <3>1. w.kind # "object"
      BY <2>7, <2>8, <2>9 DEF Failed
    <3>2. Lookup(value, longer) = OtherError
      BY <2>1, <3>1 DEF Field
    <3> QED
      BY <2>2, <2>6, <2>9, <3>2 DEF longer
  <2>10. CASE Found(p) /\ name \in NamesAt(value, p)
    <3>1. v.kind = "object" /\ v.kind \in Entries /\ name \in DOMAIN v.fields
      BY <2>3, <2>5, <2>10
    <3>2. Field(v, name, Entries) = Field(w, name, {"object"})
      BY <2>7, <2>10, <3>1 DEF Field
    <3> QED
      BY <2>1, <2>2, <2>4, <2>10, <3>2 DEF longer
  <2>11. CASE Found(p) /\ name \notin NamesAt(value, p)
    <3>1. ~(w.kind = "object" /\ name \in DOMAIN w.fields)
      BY <2>3, <2>5, <2>7, <2>11
    <3>2. Lookup(value, longer) = OtherError
      BY <2>1, <3>1 DEF Field
    <3> QED
      BY <2>2, <2>6, <2>11, <3>2 DEF longer
  <2> QED
    BY <2>9, <2>10, <2>11 DEF longer
<1>4. ASSUME NEW n \in T PROVE n + 1 \in T
  <2> SUFFICES ASSUME NEW p \in Seq(STRING), Len(p) = n + 1 PROVE Agree(p)
    OBVIOUS
  <2>1. p # <<>>
    OBVIOUS
  <2>2. PICK front \in Seq(STRING), name \in STRING : p = Append(front, name)
    BY <2>1, SequenceEmptyOrAppend
  <2>3. Len(front) = n
    BY <2>2, Appended
  <2>4. Agree(front)
    BY <2>3
  <2> QED
    BY <1>3, <2>2, <2>4
<1>5. T = Nat
  <2>1. T \in SUBSET Nat
    OBVIOUS
  <2> HIDE DEF T
  <2> QED
    BY <1>2, <1>4, <2>1, NatSetInduction
<1>6. \A p \in Seq(STRING) : Len(p) \in T
  <2>1. \A p \in Seq(STRING) : Len(p) \in Nat
    OBVIOUS
  <2> HIDE DEF T
  <2> QED
    BY <1>5, <2>1
<1> QED
  BY <1>6

\* The path of a field is not empty, and made of names.
LEMMA FieldPaths ==
    ASSUME NEW plan \in Plans, plan.node = "field"
    PROVE  plan.path \in Seq(STRING) \ {<<>>}
<1>1. PICK x \in Expressions : plan = compile_expr_plan[x]
  BY DEF Plans
<1>2. plan = CompileStep(x, compile_expr_plan)
  BY <1>1, PlanOf
<1>3. x.node = "name"
  BY <1>2 DEF CompileStep, fold_binary_plan, Const, Binary
<1>4. plan = compile_name(x.path)
  BY <1>2, <1>3 DEF CompileStep
<1>5. plan.path = x.path
  BY <1>4 DEF compile_name
<1> QED
  BY <1>3, <1>5, RuleExprAssumption

\* What a plan finds of a payload.
FieldIn(ir, path) == IF path \in DOMAIN ir THEN ir[path] ELSE OtherError

\* Two contexts that are the same for all that a plan looks at.
Alike(plan, c, d) ==
    /\ c.topic = d.topic /\ c.message = d.message
    /\ \A q \in Subplans[plan] :
          /\ q.node \in {"const", "field", "meta", "binary", "topic_level", "property"}
          /\ q.node = "field" => FieldIn(c.ir, q.path) = FieldIn(d.ir, q.path)

\* A plan looks at nothing of a payload but its fields.
LEMMA OnlyFieldsMatter ==
    ASSUME NEW c, NEW d, NEW plan \in Plans, Alike(plan, c, d)
    PROVE  /\ Values(c)[plan] = Values(d)[plan]
           /\ evaluate_plan_bool(plan, Values(c)) = evaluate_plan_bool(plan, Values(d))
<1> DEFINE V == Values(c)
           W == Values(d)
           Equal(p) == V[p] = W[p] /\ evaluate_plan_bool(p, V) = evaluate_plan_bool(p, W)
           T == {p \in Plans : Alike(p, c, d) => Equal(p)}
<1>1. ASSUME NEW p \in Plans, Children(p) \subseteq T, Alike(p, c, d) PROVE Equal(p)
  <2>1. V[p] = evaluate_plan_value(p, c, V) /\ W[p] = evaluate_plan_value(p, d, W)
    BY ValuesDefined
  <2>2. p \in Subplans[p] /\ \A part \in Children(p) : Subplans[part] \subseteq Subplans[p]
    BY SubplansHas
  <2>3. \A part \in Children(p) : Alike(part, c, d)
    BY <1>1, <2>2 DEF Alike
  <2>4. \A part \in Children(p) : Equal(part)
    BY <1>1, <2>3
  <2>5. /\ c.topic = d.topic /\ c.message = d.message
        /\ p.node \in {"const", "field", "meta", "binary", "topic_level", "property"}
        /\ p.node = "field" => FieldIn(c.ir, p.path) = FieldIn(d.ir, p.path)
    BY <1>1, <2>2 DEF Alike
  <2> HIDE DEF V, W
  <2>6. p.node = "binary" => Equal(p.left) /\ Equal(p.right)
    BY <2>4 DEF Children
  <2>7. p.node = "topic_level" => V[p.level] = W[p.level]
    BY <2>4 DEF Children
  <2>8. p.node = "property" => V[p.key] = W[p.key]
    BY <2>4 DEF Children
  <2>9. V[p] = W[p]
    <3>1. CASE p.node = "binary"
      BY <2>1, <2>6, <3>1 DEF evaluate_plan_value
    <3>2. CASE p.node = "topic_level"
      BY <2>1, <2>5, <2>7, <3>2 DEF evaluate_plan_value
    <3>3. CASE p.node = "property"
      BY <2>1, <2>5, <2>8, <3>3 DEF evaluate_plan_value
    <3>4. CASE p.node = "field"
      BY <2>1, <2>5, <3>4 DEF evaluate_plan_value, FieldIn
    <3>5. CASE p.node = "const"
      BY <2>1, <3>5 DEF evaluate_plan_value
    <3>6. CASE p.node = "meta"
      BY <2>1, <2>5, <3>6 DEF evaluate_plan_value
    <3> QED
      BY <2>5, <3>1, <3>2, <3>3, <3>4, <3>5, <3>6
  <2>10. evaluate_plan_bool(p, V) = evaluate_plan_bool(p, W)
    <3>1. CASE p.node = "binary"
      BY <2>6, <2>9, <3>1
         DEF evaluate_plan_bool, evaluate_plan_compare_bool, evaluate_plan_runtime_value
    <3>2. CASE p.node # "binary"
      BY <2>9, <3>2 DEF evaluate_plan_bool
    <3> QED
      BY <3>1, <3>2
  <2> QED
    BY <2>9, <2>10
<1>2. T = Plans
  <2>1. T \in SUBSET Plans /\ \A p \in Plans : Children(p) \subseteq T => p \in T
    BY <1>1
  <2> HIDE DEF T
  <2> QED
    BY <2>1, PlansInduction
<1> QED
  BY <1>2

\* Contexts that are alike for all the plans of a rule make it do the same.
LEMMA AlikeAttempts ==
    ASSUME NEW rule, PlansOf(rule) \subseteq Plans, NEW c, NEW d,
           \A p \in PlansOf(rule) : Alike(p, c, d)
    PROVE  Attempt(rule, c) = Attempt(rule, d)
<1>1. rule.where \in PlansOf(rule)
      /\ \A i \in DOMAIN rule.select : rule.select[i].expr \in PlansOf(rule)
  BY DEF PlansOf
<1>2. evaluate_plan_bool(rule.where, Values(c)) = evaluate_plan_bool(rule.where, Values(d))
  BY <1>1, OnlyFieldsMatter
<1>3. \A i \in DOMAIN rule.select :
         Values(c)[rule.select[i].expr] = Values(d)[rule.select[i].expr]
  BY <1>1, OnlyFieldsMatter
<1>4. [i \in DOMAIN rule.select |-> Values(c)[rule.select[i].expr]]
        = [i \in DOMAIN rule.select |-> Values(d)[rule.select[i].expr]]
  BY <1>3
<1> QED
  BY <1>2, <1>4 DEF Attempt

\* A plan finds the same in a JSON document decoded in full and decoded for some fields
\* among which are its own.
LEMMA DecodingsAlike ==
    ASSUME NEW value, IsJson(value), NEW fields, NEW path \in fields,
           path \in Seq(STRING) \ {<<>>}
    PROVE  FieldIn(Full(value), path) = FieldIn(Sparse(value, fields), path)
<1>1. /\ path \in PathsIn(value) <=> ~Failed(Lookup(value, path))
      /\ path \in PathsIn(value) => Walk(value, path, Entries) = Lookup(value, path)
  BY JsonLookups
<1>2. CASE path \in PathsIn(value)
  <2>1. FieldIn(Full(value), path) = Walk(value, path, Entries)
    BY <1>2 DEF Full, FieldIn
  <2>2. FieldIn(Sparse(value, fields), path) = Lookup(value, path)
    BY <1>1, <1>2 DEF Sparse, FieldIn
  <2> QED
    BY <1>1, <1>2, <2>1, <2>2
<1>3. CASE path \notin PathsIn(value)
  <2>1. FieldIn(Full(value), path) = OtherError
    BY <1>3 DEF Full, FieldIn
  <2>2. FieldIn(Sparse(value, fields), path) = OtherError
    BY <1>1, <1>3 DEF Sparse, FieldIn
  <2> QED
    BY <2>1, <2>2
<1> QED
  BY <1>2, <1>3

\* The unit tests of rule.rs decode in full what the engine decodes sparsely, and for JSON
\* that tells the same of the rules: the property FullDecodeAgrees.
THEOREM DecodingsAgree == Spec => []FullDecodeAgrees
<1>1. ASSUME RuleInv PROVE FullDecodeAgrees
  <2> SUFFICES ASSUME phase = "answered", format = "json", NEW i \in DOMAIN rules,
                      NEW payload, payload = message.payload[rules[i].schema],
                      payload # Garbage, payload.kind = "object",
                      NEW c, c = [ir |-> Full(payload), topic |-> message.topic,
                                  message |-> message],
                      NEW d, d = [ir |-> Sparse(payload, FieldsOf(rules[i])),
                                  topic |-> message.topic, message |-> message]
               PROVE  Attempt(rules[i], c) = Attempt(rules[i], d)
    BY DEF FullDecodeAgrees
  <2>1. /\ rules[i] = Compiled(file[i]) /\ file[i] \in Definitions
        /\ file[i].schema = NoSchema
        /\ \A p \in PlansOf(rules[i]) : ~plan_has_unknown(p)
    BY <1>1 DEF RuleInv, RulesAreCompiled
  <2>2. rules[i].schema = NoSchema /\ PlansOf(rules[i]) \subseteq Plans
    BY <2>1, CompiledIs
  <2>3. message \in Messages
    BY <1>1 DEF RuleInv, PhaseIsRight
  <2>4. IsJson(payload)
    BY <2>2, <2>3, RuleEvalAssumption
  <2>5. ASSUME NEW p \in PlansOf(rules[i]) PROVE Alike(p, c, d)
    <3>1. c.topic = d.topic /\ c.message = d.message
      OBVIOUS
    <3>2. ASSUME NEW q \in Subplans[p]
          PROVE  q.node \in {"const", "field", "meta", "binary", "topic_level", "property"}
      <4>1. q \in Plans
        BY <2>2, <2>5, SubplansArePlans
      <4>2. q.node \in {"const", "field", "meta", "binary", "topic_level", "property",
                        "unknown"}
        BY <4>1, PlanParts DEF Plans
      <4> QED
        BY <2>1, <4>2 DEF plan_has_unknown
    <3>3. ASSUME NEW q \in Subplans[p], q.node = "field"
          PROVE  FieldIn(c.ir, q.path) = FieldIn(d.ir, q.path)
      <4>1. q \in Plans
        BY <2>2, <2>5, SubplansArePlans
      <4>2. q.path \in Seq(STRING) \ {<<>>}
        BY <3>3, <4>1, FieldPaths
      <4>3. q.path \in FieldsOf(rules[i])
        BY <3>3 DEF FieldsOf, required_payload_fields
      <4>4. c.ir = Full(payload) /\ d.ir = Sparse(payload, FieldsOf(rules[i]))
        OBVIOUS
      <4> QED
        BY <2>4, <4>2, <4>3, <4>4, DecodingsAlike
    <3> QED
      BY <3>1, <3>2, <3>3 DEF Alike
  <2> QED
    BY <2>2, <2>5, AlikeAttempts
<1> QED
  BY <1>1, RulesStayCompiled, PTL

=============================================================================
