----------------------------- MODULE MCPipeline -----------------------------
(***************************************************************************)
(* Instances of Pipeline for TLC: two clients as model values, a handful   *)
(* of messages, channels of one or two places.                             *)
(***************************************************************************)
EXTENDS Pipeline
CONSTANTS c1, c2
=============================================================================
