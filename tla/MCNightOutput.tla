---------------------------- MODULE MCNightOutput ----------------------------
(* Instances of NightOutput for TLC. *)
EXTENDS NightOutput
=============================================================================
