---------------------------- MODULE MCDepthGauge ----------------------------
(***************************************************************************)
(* Instances of DepthGauge for TLC: three event loops as model values and  *)
(* a counter of three bits instead of sixty-four.                           *)
(***************************************************************************)
EXTENDS DepthGauge

CONSTANTS h1, h2, h3
=============================================================================
