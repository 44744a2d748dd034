---------------------------- MODULE MCNightTimers ----------------------------
(* Instances of NightTimers for TLC; the events are interchangeable. *)
EXTENDS NightTimers, TLC

Symmetry == Permutations(Events)
=============================================================================
