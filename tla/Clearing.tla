--------------------------------- MODULE Clearing ---------------------------------
(***************************************************************************)
(* One auction after the other from its orders to a settlement: a strategy *)
(* filters, quotes and builds a solution, the EBBO check and the           *)
(* feasibility gate judge it, and the driver, external, settles it, all    *)
(* while the chain moves on.                                               *)
(***************************************************************************)
EXTENDS Solvers

CONSTANTS
    Auctions,       \* the sequences of uids an auction may list
    Chains,         \* the states the chain may be in, a sequence
    EdgeSolutions,  \* external: what the strategies of edge propose
    MaxMoves        \* bound: chain moves in one auction

\* What the chain holds of each order and token, and pools with reserves.
IsChain(c) ==
    /\ \A hop \in DOMAIN c.pools : c.pools[hop] \in (Nat \ {0}) \X (Nat \ {0})
    /\ c.filled \in [Uids -> Nat] /\ c.balance \in [Uids -> Nat] /\ c.allowance \in [Uids -> Nat]
    /\ c.buffer \in [Tokens -> Nat]

ASSUME ClearingAssumption ==
    /\ Auctions \subseteq Seq(Uids)
    /\ Len(Chains) \in Nat \ {0} /\ DOMAIN Chains = 1..Len(Chains)
    /\ \A c \in DOMAIN Chains : IsChain(Chains[c])
    /\ \A s \in EdgeSolutions : IsSolution(s)
    /\ MaxMoves \in Nat

VARIABLES
    phase,      \* "idle", "listed", "quoting", "funding", "ebbo", "gate", "submitted"
    uids,       \* the orders of the auction, then those still considered
    solver,     \* the strategy at work
    sim,        \* the simulation block of a replayed auction, 0 for a live one
    chain,      \* index of the current state
    moves,
    dropped,    \* the orders the validity filter took out of the auction last
    readAt,     \* the chain state those readings should be of
    sol,        \* the solution
    quotedAt,   \* the chain state its quotes are of, 0 once a quote was lost
    ebbo,       \* [passes, at, failed]
    gate,       \* [verdict, at]
    outcome     \* "none", "settled", "reverted"

vars == <<phase, uids, solver, sim, chain, moves, dropped, readAt, sol, quotedAt, ebbo, gate,
          outcome>>

Phases == {"idle", "listed", "quoting", "funding", "ebbo", "gate", "submitted"}
NoEbbo == [passes |-> TRUE, at |-> 0, failed |-> {}]
NoVerdict == [verdict |-> "none", at |-> 0]

TypeOK ==
    /\ phase \in Phases
    /\ ToSet(uids) \subseteq Uids
    /\ solver \in {"joint", "router", "naive", "edge"}
    /\ {sim, quotedAt, readAt, ebbo.at, gate.at} \subseteq 0..Len(Chains)
    /\ chain \in DOMAIN Chains
    /\ moves \in 0..MaxMoves
    /\ dropped \subseteq Uids
    /\ gate.verdict \in {"none", "feasible", "phantom", "unknown"}
    /\ outcome \in {"none", "settled", "reverted"}

Init ==
    /\ phase = "idle" /\ uids = <<>> /\ solver = "naive"
    /\ sim = 0 /\ chain = 1 /\ moves = 0
    /\ dropped = {} /\ readAt = 0
    /\ sol = NoSolution /\ quotedAt = 0
    /\ ebbo = NoEbbo /\ gate = NoVerdict /\ outcome = "none"

-----------------------------------------------------------------------------
(* An auction comes; the chain moves.                                      *)

\* A live auction, or one replayed at its simulation block by the poller.
\* Joint clearing and the router drop ghosts and rank; naive takes all. The
\* router goes on with three times as many as it can solve.
Start(a, s, replayed) ==
    /\ phase = "idle"
    /\ phase' = IF s = "router" THEN "listed" ELSE "quoting"
    /\ solver' = s
    /\ uids' = CASE s = "joint" -> Top(Candidates(a), MaxOrders)
                 [] s = "router" -> Top(Candidates(a), 3 * MaxOrders)
                 [] OTHER -> a
    /\ sim' = IF replayed THEN chain ELSE 0
    /\ moves' = 0 /\ dropped' = {} /\ readAt' = 0
    /\ sol' = NoSolution /\ quotedAt' = 0
    /\ ebbo' = NoEbbo /\ gate' = NoVerdict /\ outcome' = "none"
    /\ UNCHANGED chain

\* External: a block.
ChainMoves(c) ==
    /\ phase # "idle" /\ moves < MaxMoves /\ c # chain
    /\ chain' = c
    /\ moves' = moves + 1
    /\ UNCHANGED <<phase, uids, solver, sim, dropped, readAt, sol, quotedAt, ebbo, gate, outcome>>

-----------------------------------------------------------------------------
(* The filters.                                                            *)

\* The block the readings are taken at.
Block == IF sim = 0 THEN chain ELSE sim

\* The dead leave, and those there is no room for.
ValidityFilter(lost) ==
    /\ phase = "listed"
    /\ dropped' = Dropped(Chains[Block], uids, lost)
    /\ LET kept == FilterValidOrders(Chains[Block], uids, lost)
       IN  /\ uids' = Top(kept, MaxOrders)
           /\ phase' = IF kept = <<>> THEN "idle" ELSE "quoting"
    /\ readAt' = IF sim = 0 THEN chain ELSE sim
    /\ UNCHANGED <<solver, sim, chain, moves, sol, quotedAt, ebbo, gate, outcome>>

\* Every order of the router's solution once more.
FundingGate(lost) ==
    /\ phase = "funding"
    /\ dropped' = Dropped(Chains[Block], TradedUids(sol), lost)
    /\ phase' = IF dropped' = {} THEN "ebbo" ELSE "idle"
    /\ readAt' = IF sim = 0 THEN chain ELSE sim
    /\ UNCHANGED <<uids, solver, sim, chain, moves, sol, quotedAt, ebbo, gate, outcome>>

-----------------------------------------------------------------------------
(* Building.                                                               *)

Pools == Chains[chain].pools

\* A solution is built, or none is.
Built(s, after, lost) ==
    /\ sol' = s
    /\ quotedAt' = IF lost = {} THEN chain ELSE 0
    /\ phase' = IF s.trades = <<>> THEN "idle" ELSE after
    /\ UNCHANGED <<uids, solver, sim, chain, moves, dropped, readAt, ebbo, gate, outcome>>

JointClears(lost) ==
    /\ phase = "quoting" /\ solver = "joint"
    /\ Built(JointSolve(uids, Pools, lost), "ebbo", lost)

RouterSolves(lost) ==
    /\ phase = "quoting" /\ solver = "router"
    /\ Built(LegacySolve(uids, Pools, lost), "funding", lost)

\* Naive is on record, and never submitted.
NaiveSolves(lost) ==
    /\ phase = "quoting" /\ solver = "naive"
    /\ Built(RefineSolutionPrices(NaiveSolve(uids), Pools, lost), "idle", lost)

EdgeProposes(s) ==
    /\ phase = "quoting" /\ solver = "edge"
    /\ {s.trades[i].uid : i \in DOMAIN s.trades} \subseteq ToSet(uids)
    /\ Built(s, "ebbo", {})

-----------------------------------------------------------------------------
(* Judging and settling.                                                   *)

\* A failed quote leaves its trade unchecked.
EbboCheck(failed) ==
    /\ phase = "ebbo"
    /\ ebbo' = [passes |-> ValidateSolutionEbbo(Pools, sol, failed), at |-> chain,
                failed |-> failed]
    /\ phase' = IF ebbo'.passes THEN "gate" ELSE "idle"
    /\ UNCHANGED <<uids, solver, sim, chain, moves, dropped, readAt, sol, quotedAt, gate, outcome>>

\* Variant: at the block the solution was quoted at.
GateBlockQuoted == IF quotedAt = 0 THEN chain ELSE quotedAt

\* At the latest block, whatever the auction's.
GateBlock == chain

\* Only a feasible solution of a live auction is settled; the answer to a
\* replayed one goes nowhere.
GateCheck(known, answered) ==
    /\ phase = "gate"
    /\ gate' = [verdict |-> ValidateSolution(Chains[GateBlock], sol, known, answered),
                at |-> chain]
    /\ phase' = IF gate'.verdict = "feasible" /\ sim = 0 THEN "submitted" ELSE "idle"
    /\ UNCHANGED <<uids, solver, sim, chain, moves, dropped, readAt, sol, quotedAt, ebbo, outcome>>

\* External: the driver settles.
Settle ==
    /\ phase = "submitted"
    /\ outcome' = IF Settles(Chains[chain], DriverSettle(sol)) THEN "settled" ELSE "reverted"
    /\ phase' = "idle"
    /\ UNCHANGED <<uids, solver, sim, chain, moves, dropped, readAt, sol, quotedAt, ebbo, gate>>

\* The checks and calls that may be lost.
Checks == {"filled", "presig", "balance", "allowance"}
V3Calls == FeeTiers \X {"whole", "fraction", "group"}

Next ==
    \/ \E a \in Auctions, s \in {"joint", "router", "naive", "edge"}, replayed \in BOOLEAN :
          Start(a, s, replayed)
    \/ \E c \in DOMAIN Chains : ChainMoves(c)
    \/ \E lost \in SUBSET Checks : ValidityFilter(lost) \/ FundingGate(lost)
    \/ \E lost \in SUBSET V3Calls : JointClears(lost)
    \/ \E lost \in SUBSET ToSet(uids) : RouterSolves(lost)
    \/ \E lost \in SUBSET {PairOf(u) : u \in ToSet(uids)} : NaiveSolves(lost)
    \/ \E s \in EdgeSolutions \cup {NoSolution} : EdgeProposes(s)
    \/ \E failed \in SUBSET ToSet(TradedUids(sol)) : EbboCheck(failed)
    \/ \E known \in SUBSET ToSet(TradedUids(sol)), answered \in BOOLEAN : GateCheck(known, answered)
    \/ Settle

Spec == Init /\ [][Next]_vars

-----------------------------------------------------------------------------
(* Properties.                                                             *)

\* Whatever readings are lost, the validity filter and the funding gate take
\* out only orders that no execution of the router's could settle at their
\* limit, at the block the auction is solved for (order_validity.py).
DroppedAreDead == \A u \in dropped : Dead(Chains[readAt], u)

\* A solution the gate has passed reverts only if the chain has moved since:
\* the simulated call is as strict as the settlement the driver makes
\* (feasibility.py, validate_solution).
RevertNeedsMove == outcome = "reverted" => moves > 0 /\ chain # gate.at

\* A solution is called phantom only if its settlement would have reverted:
\* signatures, flags, token indices and prices are those GPv2 verifies. Orders
\* with hooks or funds in the vault are excepted: the simulated call has
\* neither (feasibility.py, validate_solution).
PhantomsRevert ==
    (/\ gate.verdict = "phantom"
     /\ \A u \in ToSet(TradedUids(sol)) : Orders[u].source = "erc20" /\ ~Orders[u].hooks)
        => ~Settles(Chains[gate.at], DriverSettle(sol))

\* While the pools stay as quoted and no call fails, the EBBO check rejects
\* no solution whose fills each have a quote of their own: it asks the venues
\* the solver asked, and rounds as the prices were made (ebbo.py).
SoloFillsPassEbbo ==
    (/\ ~ebbo.passes /\ quotedAt # 0
     /\ Chains[quotedAt].pools = Chains[ebbo.at].pools
     /\ solver \in {"joint", "router"}
     /\ \A i, j \in DOMAIN sol.trades :
            PairOf(sol.trades[i].uid) = PairOf(sol.trades[j].uid) => i = j)
        => FALSE

\* A trader of a settled solution gets what V3 alone would have paid, less
\* the tolerance and a unit, if the check saw the trade and the pools have
\* not moved (ebbo.py).
TradersGetExternalBest ==
    (outcome = "settled" /\ Chains[ebbo.at].pools = Chains[chain].pools) =>
        LET call == DriverSettle(sol)
        IN  \A i \in DOMAIN sol.trades :
              LET o == Orders[sol.trades[i].uid]
                  best == External(Pools, sol.trades[i])
              IN  (/\ o.kind = "sell" /\ sol.trades[i].uid \notin ebbo.failed
                   /\ {o.sellToken, o.buyToken} \subseteq DOMAIN sol.prices)
                    => (Paid(call, call.trades[i]) + 1) * Unit >= best * (Unit - ToleranceBps)

\* The orders of a solution of joint clearing are promised no more of a token
\* than its swaps are quoted to bring, but for less than a unit each
\* (joint_clearing.py).
ShortfallIsRounding ==
    (solver = "joint" /\ sol.trades # <<>> /\ ~DuplicateTokens(sol)) =>
        LET call == DriverSettle(sol)
            trades == call.trades
            paid(t) == SumSeq([i \in DOMAIN trades |->
                                 IF Buys(trades[i], t) THEN Paid(call, trades[i]) ELSE 0])
            fills(t) == SumSeq([i \in DOMAIN trades |-> IF Buys(trades[i], t) THEN 1 ELSE 0])
            quoted(t) == SumSeq([i \in DOMAIN sol.swaps |->
                                   IF sol.swaps[i].buy = t THEN sol.swaps[i].out ELSE 0])
        IN  \A t \in Tokens : fills(t) > 0 => paid(t) < quoted(t) + fills(t)

\* A solution that scores contains no whole fill that GPv2 would find more
\* than a unit outside its limit (scoring.py, the validity pass).
ScoredTradesNearLimit ==
    (sol.trades # <<>> /\ ~DuplicateTokens(sol) /\ ComputeSolutionScore(sol) > 0) =>
        LET call == DriverSettle(sol)
        IN  \A i \in DOMAIN call.trades :
              LET o == Orders[call.trades[i].uid]
              IN  call.trades[i].executed = Target(o) =>
                    IF o.kind = "sell"
                    THEN o.sellAmount * SellPrice(call, call.trades[i])
                            > (o.buyAmount - 1) * BuyPrice(call, call.trades[i])
                    ELSE (o.sellAmount + 1) * SellPrice(call, call.trades[i])
                            > o.buyAmount * BuyPrice(call, call.trades[i])

\* Sold alone, the order clears: by one hop, or by two when the first brings
\* one unit more.
ClearsAlone(pools, u) ==
    LET sell == PairOf(u)[1]
        buy == PairOf(u)[2]
        o == Orders[u]
    IN  \/ BestHop(pools, sell, buy, o.sellAmount) >= o.buyAmount
        \/ \E m \in Intermediates \ {sell, buy} :
              BestHop(pools, m, buy, BestHop(pools, sell, m, o.sellAmount) + 1) >= o.buyAmount

\* When the refinement has dropped a trade of naive's, each one that is left
\* and whose pair has a quote clears by a swap of its own, but for the rounding
\* between two hops: the quote for the largest order of the pair understates
\* what the others get (price_refiner.py).
RefinedTradesClear ==
    (/\ phase = "idle" /\ solver = "naive" /\ quotedAt = chain
     /\ sol.trades # NaiveSolve(uids).trades) =>
        \A u \in ToSet(TradedUids(sol)) :
            Quoted(NaiveSolve(uids), u, Pools, {}) => ClearsAlone(Pools, u)

\* The comment of joint_clearing.py, _all_limits_satisfied: every sell order of
\* a group clears its limit at the combined clearing price, as GPv2 checks it.
GroupFillsWithinLimit ==
    (solver = "joint" /\ sol.trades # <<>> /\ ~DuplicateTokens(sol)) =>
        LET call == DriverSettle(sol)
        IN  \A i \in DOMAIN call.trades : WithinLimit(call, call.trades[i])
=============================================================================
