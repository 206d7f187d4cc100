--------------------------------- MODULE Solvers ---------------------------------
(***************************************************************************)
(* How three strategies build a solution from their quotes: joint clearing *)
(* (src/solver/joint_clearing.py), the router's legacy path                *)
(* (src/solver/router.py) and the naive baseline with its refinement       *)
(* (src/solver/naive.py, src/solver/price_refiner.py).                     *)
(***************************************************************************)
EXTENDS Settlement

CONSTANT MinGroup       \* min_group_size

ASSUME GroupAssumption == MinGroup \in Nat \ {0}

NoQuote == [route |-> <<>>, out |-> 0]

\* The best answer to a set of routes.
BestQuote(pools, routes, amount) ==
    LET quotes == {[route |-> r, out |-> RouteOut(pools, r, amount)] : r \in routes}
        useful == {q \in quotes : q.out > 0}
    IN  IF useful = {} THEN NoQuote
        ELSE CHOOSE q \in useful : \A p \in useful : p.out <= q.out

-----------------------------------------------------------------------------
(* Clearing prices, in the order they are registered.                      *)

With(prices, t, p) == [s \in DOMAIN prices \cup {t} |-> IF s = t THEN p ELSE prices[s]]

Agrees(prices, sell, buy, bought, sold) ==
    /\ sell \in DOMAIN prices => prices[sell] = bought
    /\ buy \in DOMAIN prices => prices[buy] = sold

\* A fill at its own rate: the solution grows, or the rate does not fit.
Fill(sol, sell, buy, sold, quote, trades) ==
    IF ~Agrees(sol.prices, sell, buy, quote.out, sold) THEN sol
    ELSE [prices |-> With(With(sol.prices, sell, quote.out), buy, sold),
          trades |-> sol.trades \o trades,
          swaps |-> IF quote.route = <<>> THEN sol.swaps
                    ELSE Append(sol.swaps, [sell |-> Lower[sell], buy |-> Lower[buy], in |-> sold,
                                            out |-> quote.out, route |-> quote.route])]

WholeOf(u) == <<[uid |-> u, executed |-> Orders[u].sellAmount]>>

-----------------------------------------------------------------------------
(* Joint clearing.                                                         *)

PairOf(u) == <<Lower[Orders[u].sellToken], Lower[Orders[u].buyToken]>>

\* Sell orders that cannot be filled partially are grouped by their pair.
Groupable(u) == Orders[u].kind = "sell" /\ ~Orders[u].partial
Group(uids, pair) == Only(uids, {u \in ToSet(uids) : Groupable(u) /\ PairOf(u) = pair})

\* The groups come in the order of their first members.
OpensGroup(uids, n) ==
    /\ Groupable(uids[n])
    /\ \A i \in 1..(n - 1) : ~(Groupable(uids[i]) /\ PairOf(uids[i]) = PairOf(uids[n]))
    /\ Len(Group(uids, PairOf(uids[n]))) >= MinGroup

\* Variant: the largest order stands for the group.
CombinedLargest(group) == Largest({Orders[group[i]].sellAmount : i \in DOMAIN group})

Combined(group) == SumSeq([i \in DOMAIN group |-> Orders[group[i]].sellAmount])

\* The share of an order, rounded up.
Share(u, sold, bought) == CeilDiv(Orders[u].sellAmount * bought, sold)

AllLimitsSatisfied(group, sold, bought) ==
    \A i \in DOMAIN group : Share(group[i], sold, bought) >= Orders[group[i]].buyAmount

\* A group clears together when the one quote for all of it serves all.
FillGroup(sol, group, pools, tiers) ==
    LET pair == PairOf(Head(group))
        routes == {r \in V3Routes(pair[1], pair[2]) : r[1][3] \in tiers}
        sold == Combined(group)
        best == BestQuote(pools, routes, sold)
    IN  IF best.out = 0 THEN sol
        ELSE IF ~AllLimitsSatisfied(group, sold, best.out) THEN sol
        ELSE Fill(sol, pair[1], pair[2], sold, best,
                  [i \in DOMAIN group |-> WholeOf(group[i])[1]])

\* The best quote of an order is over its fractions too; lost has the calls
\* that failed, by fee tier and by what was asked.
SoloQuote(u, pools, lost) ==
    LET o == Orders[u]
        asked(what, amount) ==
          BestQuote(pools, {r \in V3Routes(Lower[o.sellToken], Lower[o.buyToken]) :
                              <<r[1][3], what>> \notin lost}, amount)
        whole == asked("whole", o.sellAmount)
        part == IF o.partial THEN asked("fraction", (3 * o.sellAmount) \div 4) ELSE NoQuote
    IN  IF part.out > whole.out THEN part ELSE whole

\* Orders no group has filled, sells only, whole only.
FillSolo(sol, u, pools, lost) ==
    LET o == Orders[u]
        best == SoloQuote(u, pools, lost)
        filled == \E i \in DOMAIN sol.trades : sol.trades[i].uid = u
    IN  IF filled \/ o.kind = "buy" \/ best.out = 0 \/ best.out < o.buyAmount THEN sol
        ELSE Fill(sol, o.sellToken, o.buyToken, o.sellAmount, best, WholeOf(u))

\* The solution after the first n orders have had their turn: each group at
\* its first member, then each order.
GroupFills(uids, pools, tiers) ==
    LET after[n \in 0..Len(uids)] ==
            IF n = 0 THEN NoSolution
            ELSE IF OpensGroup(uids, n)
            THEN FillGroup(after[n - 1], Group(uids, PairOf(uids[n])), pools, tiers)
            ELSE after[n - 1]
    IN  after

SoloFills(sol, uids, pools, lost) ==
    LET after[n \in 0..Len(uids)] ==
            IF n = 0 THEN sol ELSE FillSolo(after[n - 1], uids[n], pools, lost)
    IN  after

JointSolve(uids, pools, lost) ==
    LET tiers == {f \in FeeTiers : <<f, "group">> \notin lost}
        joint == GroupFills(uids, pools, tiers)[Len(uids)]
    IN  SoloFills(joint, uids, pools, lost)[Len(uids)]

-----------------------------------------------------------------------------
(* The router without batching: sells whole at the best path, no swaps.    *)

LegacyFill(sol, u, pools, lost) ==
    LET o == Orders[u]
        out == BestPath(pools, Lower[o.sellToken], Lower[o.buyToken], o.sellAmount)
    IN  IF o.kind = "buy" \/ u \in lost \/ out = 0 \/ out < o.buyAmount THEN sol
        ELSE Fill(sol, o.sellToken, o.buyToken, o.sellAmount, [route |-> <<>>, out |-> out],
                  WholeOf(u))

LegacyFills(uids, pools, lost) ==
    LET after[n \in 0..Len(uids)] ==
            IF n = 0 THEN NoSolution ELSE LegacyFill(after[n - 1], uids[n], pools, lost)
    IN  after

LegacySolve(uids, pools, lost) == LegacyFills(uids, pools, lost)[Len(uids)]

-----------------------------------------------------------------------------
(* Naive: sells that clear at the reference prices, then re-quoted.        *)

\* A sell both of whose tokens have a price, and clears at them.
NaiveTakes(u) ==
    LET o == Orders[u]
    IN  /\ o.kind = "sell" /\ Priced(o.sellToken) /\ Priced(o.buyToken)
        /\ Value(o.sellAmount, o.sellToken) \div Reference[Lower[o.buyToken]] >= o.buyAmount

AtReference(uids) ==
    [prices |-> [t \in UNION {{Orders[u].sellToken, Orders[u].buyToken} : u \in ToSet(uids)} |->
                    Reference[Lower[t]]],
     trades |-> [i \in DOMAIN uids |-> WholeOf(uids[i])[1]],
     swaps |-> <<>>]

NaiveSolve(uids) == AtReference(Only(uids, {u \in ToSet(uids) : NaiveTakes(u)}))

TradedUids(sol) == [i \in DOMAIN sol.trades |-> sol.trades[i].uid]

\* The largest sell of a pair stands for the pair.
PairAmount(sol, pair) ==
    Largest({Orders[u].sellAmount : u \in {v \in ToSet(TradedUids(sol)) : PairOf(v) = pair}})

PairPrice(sol, pair, pools, lost) ==
    IF pair \in lost THEN 0 ELSE BestPath(pools, pair[1], pair[2], PairAmount(sol, pair))

\* Variant: the smallest sell of the pair stands for it.
RealBuyOfSmallest(sol, u, pools, lost) ==
    LET amount == Smallest({Orders[v].sellAmount :
                              v \in {w \in ToSet(TradedUids(sol)) : PairOf(w) = PairOf(u)}})
        out == IF PairOf(u) \in lost THEN 0
               ELSE BestPath(pools, PairOf(u)[1], PairOf(u)[2], amount)
    IN  (Orders[u].sellAmount * out) \div amount

\* What the order buys at the quote for its pair.
RealBuy(sol, u, pools, lost) ==
    (Orders[u].sellAmount * PairPrice(sol, PairOf(u), pools, lost)) \div PairAmount(sol, PairOf(u))

Quoted(sol, u, pools, lost) == PairPrice(sol, PairOf(u), pools, lost) > 0

\* Trades whose pair could not be quoted stay, the others stay if they still
\* clear. Prices stay those of reference. When no trade stays the solution is
\* returned as it came.
RefineSolutionPrices(sol, pools, lost) ==
    LET stay == {u \in ToSet(TradedUids(sol)) :
                    Quoted(sol, u, pools, lost)
                        => RealBuy(sol, u, pools, lost) >= Orders[u].buyAmount}
        kept == Only(TradedUids(sol), stay)
    IN  IF kept = <<>> THEN sol ELSE AtReference(kept)
=============================================================================
