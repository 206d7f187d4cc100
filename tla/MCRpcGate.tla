------------------------------- MODULE MCRpcGate -------------------------------
(* Instances of RpcGate for TLC. *)
EXTENDS RpcGate, TLC

Symmetry == Permutations(Callers)
=============================================================================
