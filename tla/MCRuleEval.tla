----------------------------- MODULE MCRuleEval -----------------------------
(***************************************************************************)
(* Instances of RuleEval for TLC: rules that exercise every kind of        *)
(* expression and every way to fail, and payloads that are of the right    *)
(* type, of the wrong type, incomplete, no object, or no payload at all.   *)
(***************************************************************************)
EXTENDS RuleEval, FiniteSetsExt, TLC

Name(path)   == [node |-> "name", path |-> path]
A            == Name(<<"a">>)
Level(e)     == [node |-> "topic_level", level |-> e]
Property(e)  == [node |-> "property", key |-> e]
One          == Const(Num(1))
Two          == Const(Num(2))
Always       == Const(Bool(TRUE))
Above1       == Binary(A, ">", One)
Star         == [expr |-> [node |-> "star"], alias |-> "star"]
As(e, alias) == [expr |-> e, alias |-> alias]

Predicates == {
    Above1,
    A,
    Binary(Binary(A, "+", Binary(One, "+", One)), ">=", Const(Num(4))),
    Binary(Above1, "or", Binary(Name(<<"b">>), "=", One)),
    Binary(Binary(A, "!=", Const(Str("x"))), "and", Binary(Name(<<"qos">>), "=", One)),
    Binary(Level(Two), "=", Const(Str("y"))),
    Binary(Property(Const(Str("k"))), "=", Const(Str("v"))),
    Binary(Const(Bool(FALSE)), "or", Binary(One, "<", Const(Num(0)))),
    Binary(A, "%", Two),
    [node |-> "function"] }

Selections == {
    <<As(A, "x")>>,
    <<As(A, "x"), As(Name(<<"a", "b">>), "x")>>,
    <<As(Level(A), "l"), As(Binary(Two, "/", Const(Num(0))), "q")>>,
    <<As(Level(Const(Num(0))), "l"), As(Name(<<"qos">>), "q")>>,
    <<As(Binary(A, "=", A), "x")>>,
    <<As(Name(<<"clientId">>), "id")>>,
    <<As(A, "x"), Star>> }

MCSchemas == {"s1", "s2"}

MCDefinitions ==
    [select : {<<Star>>}, where : Predicates \cup {Always},
     schema : {NoSchema, "s1"}]
    \cup [select : Selections, where : {Always}, schema : {NoSchema, "s1"}]
    \cup [select : {<<Star>>, <<As(Name(<<"a", "b">>), "x")>>}, where : {Always},
          schema : {"s2", "s3"}]

Payloads == {
    Object([a |-> Num(2), b |-> Num(1)]),
    Object([a |-> Num(1)]),
    Object([a |-> Str("x")]),
    Object([a |-> Bool(TRUE), b |-> Num(1)]),
    Object([a |-> Null, b |-> Array]),
    Object([a |-> Object([b |-> Num(1)])]),
    Array,
    Garbage }

\* The expressions of the definitions, and how high they are.
RECURSIVE Parts(_), HeightOf(_)
Parts(x)    == {x} \cup UNION {Parts(part) : part \in Children(x)}
HeightOf(x) == IF Children(x) = {} THEN 0
               ELSE 1 + Max({HeightOf(part) : part \in Children(x)})

MCExpressions ==
    UNION {Parts(def.where) : def \in MCDefinitions}
    \cup UNION {UNION {Parts(def.select[i].expr) : i \in DOMAIN def.select} :
                   def \in MCDefinitions}
MCHeight == [x \in MCExpressions |-> HeightOf(x)]

\* The same bytes under the schemas: s2 knows a map where s1 knows a message.
Bytes(p) ==
    LET object == p # Garbage /\ p # Array
    IN  NoSchema :> p
        @@ "s1" :> (IF object THEN p ELSE Garbage)
        @@ "s2" :> (IF object THEN Object([a |-> MapOf([b |-> Num(1)])]) ELSE Garbage)
        @@ "s3" :> p

\* What run_event_loop fills in: no client id and no user name.
MCMessages ==
    {[payload |-> Bytes(p), topic |-> topic, properties |-> properties,
      meta |-> [qos |-> Num(1), retain |-> Bool(FALSE), dup |-> Bool(FALSE),
                timestamp |-> Num(9)]] :
        p \in Payloads, topic \in {<<"x">>, <<"x", "y">>},
        properties \in {[k |-> "v"], [n \in {} |-> ""]}}
=============================================================================
