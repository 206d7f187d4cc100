------------------------------- MODULE MCWatchdog -------------------------------
(* Instance of Watchdog for TLC. *)
EXTENDS Watchdog, TLC

Symmetry == Permutations(Jobs)
=============================================================================
