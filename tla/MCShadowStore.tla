----------------------------- MODULE MCShadowStore -----------------------------
(* Instances of ShadowStore for TLC. *)
EXTENDS ShadowStore, TLC

Symmetry == Permutations(Tasks)
=============================================================================
