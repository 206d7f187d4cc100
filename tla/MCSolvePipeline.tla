---------------------------- MODULE MCSolvePipeline ----------------------------
(* The pipeline as a deployment wires it, for TLC. *)
EXTENDS SolvePipeline, Wiring

\* Everything but the long-tail router: two strategies that compete, naive
\* between them, and joint clearing, which the salvage does not know.
Production ==
    [edge |-> TRUE, longTail |-> FALSE, jointClearing |-> TRUE,
     ebbo |-> TRUE, gate |-> TRUE, gateBuilds |-> TRUE]

ProductionChain == StrategyChain(Production)
ProductionEbbo == EbboWired(Production)
ProductionGate == GateWired(Production)
=============================================================================
