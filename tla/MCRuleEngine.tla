---------------------------- MODULE MCRuleEngine ----------------------------
(***************************************************************************)
(* Instances of RuleEngine for TLC.  The filters share prefixes and use    *)
(* both wildcards; the last one has a level after "#", which insert and    *)
(* remove treat differently.                                               *)
(***************************************************************************)
EXTENDS RuleEngine

MCFilterOf == [literal |-> <<"a", "b">>,
               plus    |-> <<"a", "+">>,
               hash    |-> <<"a", "#">>,
               short   |-> <<"a">>,
               odd     |-> <<"a", "#", "b">>]

MCExpressions == DOMAIN MCFilterOf

MCTopics == {<<"a">>, <<"a", "b">>, <<"a", "c">>, <<"b">>}
=============================================================================
