---------------------------------- MODULE Ebbo ----------------------------------
(***************************************************************************)
(* The check of a solution against the best external quote of each of its  *)
(* trades (src/solver/ebbo.py).                                            *)
(***************************************************************************)
EXTENDS Scoring

CONSTANTS
    ToleranceBps,   \* tolerance_bps, in parts of Unit
    Unit,           \* 10_000 in the code
    MaxTrades       \* _MAX_TRADES_PER_CHECK

ASSUME EbboAssumption == Unit \in Nat \ {0} /\ ToleranceBps \in 0..(Unit - 1) /\ MaxTrades \in Nat

\* Variant: the best of all venues, those no solver of ours routes through
\* included.
QuoteBestAnywhere(pools, sell, buy, amount) == BestPath(pools, sell, buy, amount)

\* The best of the V3 candidates, 0 for none.
QuoteBestExactInput(pools, sell, buy, amount) ==
    Largest({RouteOut(pools, r, amount) : r \in V3Routes(sell, buy)})

QuoteBestExactOutput(pools, sell, buy, amount) ==
    LET costs == {RouteIn(pools, r, amount) : r \in V3Routes(sell, buy)} \ {0}
    IN  IF costs = {} THEN 0 ELSE Smallest(costs)

External(pools, trade) ==
    LET o == Orders[trade.uid]
    IN  IF o.kind = "sell"
        THEN QuoteBestExactInput(pools, Lower[o.sellToken], Lower[o.buyToken], trade.executed)
        ELSE QuoteBestExactOutput(pools, Lower[o.sellToken], Lower[o.buyToken], trade.executed)

\* The price under the spelling of the order, 0 for none.
EbboPrice(sol, t) == IF t \in DOMAIN sol.prices THEN sol.prices[t] ELSE 0

\* Looked at: it has both prices, and an external quote that did not fail.
Checked(pools, sol, trade, failed) ==
    LET o == Orders[trade.uid]
    IN  /\ EbboPrice(sol, o.sellToken) # 0 /\ EbboPrice(sol, o.buyToken) # 0
        /\ trade.uid \notin failed
        /\ External(pools, trade) > 0

\* Variant: the limit stands for the outside.
ViolatesLimit(pools, sol, trade) == OutsideLimit(sol, trade)

\* The trader is worse off than outside, beyond the tolerance.
Violates(pools, sol, trade) ==
    LET o == Orders[trade.uid]
        ps == EbboPrice(sol, o.sellToken)
        pb == EbboPrice(sol, o.buyToken)
    IN  IF o.kind = "sell"
        THEN Bought(trade.executed, ps, pb)
               < (External(pools, trade) * (Unit - ToleranceBps)) \div Unit
        ELSE Sold(trade.executed, ps, pb)
               > (External(pools, trade) * (Unit + ToleranceBps)) \div Unit

ValidateSolutionEbbo(pools, sol, failed) ==
    /\ Len(sol.trades) <= MaxTrades
    /\ \A i \in DOMAIN sol.trades :
          Checked(pools, sol, sol.trades[i], failed) => ~Violates(pools, sol, sol.trades[i])
=============================================================================
