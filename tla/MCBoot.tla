------------------------------- MODULE MCBoot -------------------------------
(***************************************************************************)
(* An instance of Boot for TLC: two processes, three starts, and besides   *)
(* the provisioned configuration one with a node id and eleven clients,    *)
(* enough for an id with two digits, and one that asks for no client.      *)
(***************************************************************************)
EXTENDS Boot, TLC
CONSTANTS p1, p2, n1, NodeUnset

MCConfigs == {[node |-> n1, count |-> 11, rules |-> "own"],
              [node |-> NodeUnset, count |-> 0, rules |-> "provisioned"]}

Symmetry == Permutations(Procs)
=============================================================================
