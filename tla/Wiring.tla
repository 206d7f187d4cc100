-------------------------------- MODULE Wiring ---------------------------------
(***************************************************************************)
(* How a deployment is wired: from the settings and from what can be       *)
(* imported to the strategy chain, the validators and the salvage order of *)
(* load_default_orchestrator (src/solver/orchestrator.py).  The edge       *)
(* package is a submodule that a public clone does not have.               *)
(***************************************************************************)
EXTENDS Naturals, Sequences

Router == "router-v2"
NaiveName == "naive"
Bipartite == "cow-matching-bipartite"
MultiParty == "cow-matching-multi-party"
LongTail == "long-tail"
JointClearing == "joint-clearing"

\* What decides the wiring: the package on the path, switches of the
\* settings, and whether the gate's own dependencies can be constructed.
Deployments == [edge          : BOOLEAN,
                longTail      : BOOLEAN,   \* long_tail_enabled
                jointClearing : BOOLEAN,   \* joint_clearing_enabled
                ebbo          : BOOLEAN,   \* ebbo_enabled
                gate          : BOOLEAN,   \* feasibility_gate_enabled
                gateBuilds    : BOOLEAN]

AppendIf(chain, condition, name) == IF condition THEN Append(chain, name) ELSE chain

\* The order of execution: the router is built last and inserted first.
StrategyChain(d) ==
    LET cow  == AppendIf(AppendIf(<<Router, NaiveName>>, d.edge, Bipartite), d.edge, MultiParty)
        edge == AppendIf(cow, d.edge /\ d.longTail, LongTail)
    IN  AppendIf(edge, d.jointClearing, JointClearing)

\* EBBO runs when it is given the multicall.
EbboWired(d) == d.ebbo

\* A gate that cannot be built is left out, silently.
GateWired(d) == d.gate /\ d.gateBuilds

\* _SALVAGE_ORDER of main.py.
SalvageOrderOf == <<Router, Bipartite, MultiParty>>
=============================================================================
