------------------------------ MODULE MCShadowLog ------------------------------
(* Instances of ShadowLog for TLC. *)
EXTENDS ShadowLog, TLC

Symmetry == Permutations(Records)
=============================================================================
