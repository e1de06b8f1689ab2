--------------------------- MODULE MCMqttStartup ---------------------------
(***************************************************************************)
(* Instances of MqttStartup for TLC.  The request channel holds two        *)
(* requests instead of ten.                                                *)
(***************************************************************************)
EXTENDS MqttStartup
=============================================================================
