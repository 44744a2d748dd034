--------------------------- MODULE MCNightProcess ---------------------------
(* Instances of NightProcess for TLC. *)
EXTENDS NightProcess
=============================================================================
