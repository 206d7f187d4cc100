-------------------------------- MODULE Scoring --------------------------------
(***************************************************************************)
(* Solutions, and the score of one (src/shadow/scoring.py).                *)
(***************************************************************************)
EXTENDS OrderValidity

\* Prices by token as it is spelled; a swap knows the route it takes.
Trade == [uid : Uids, executed : Nat]
Hop == Tokens \X Tokens \X (FeeTiers \cup Factories)
Swap == [sell : Tokens, buy : Tokens, in : Nat, out : Nat, route : Seq(Hop)]

\* A solution prices what it trades, and executes no more than was signed.
IsSolution(sol) ==
    /\ sol.prices \in [DOMAIN sol.prices -> Nat \ {0}] /\ DOMAIN sol.prices \subseteq DOMAIN Lower
    /\ sol.trades \in Seq(Trade) /\ sol.swaps \in Seq(Swap)
    /\ \A i \in DOMAIN sol.trades :
         LET o == Orders[sol.trades[i].uid]
         IN  /\ sol.trades[i].executed <= Target(o)
             /\ {Lower[o.sellToken], Lower[o.buyToken]} \subseteq {Lower[t] : t \in DOMAIN sol.prices}

NoSolution == [prices |-> [t \in {} |-> 0], trades |-> <<>>, swaps |-> <<>>]

\* Price of a token whatever its spelling, 0 for none.
ScorePrice(sol, t) ==
    LET spelled == {s \in DOMAIN sol.prices : Lower[s] = Lower[t]}
    IN  IF spelled = {} THEN 0 ELSE sol.prices[CHOOSE s \in spelled : TRUE]

\* What a sell pays its owner, what a buy costs its owner, in either's
\* favour by less than one unit.
Bought(executed, cpSell, cpBuy) == CeilDiv(executed * cpSell, cpBuy)
Sold(executed, cpSell, cpBuy) == (executed * cpBuy) \div cpSell

LimitBuy(o, executed) == CeilDiv(executed * o.buyAmount, o.sellAmount)
LimitSell(o, executed) == (executed * o.sellAmount) \div o.buyAmount

\* Variant: one unit short is let pass.
OutsideLimitLax(sol, trade) ==
    LET o == Orders[trade.uid]
        ps == ScorePrice(sol, o.sellToken)
        pb == ScorePrice(sol, o.buyToken)
    IN  ps # 0 /\ pb # 0 /\
        IF o.kind = "sell" THEN Bought(trade.executed, ps, pb) + 1 < LimitBuy(o, trade.executed)
        ELSE Sold(trade.executed, ps, pb) > LimitSell(o, trade.executed) + 1

OutsideLimit(sol, trade) ==
    LET o == Orders[trade.uid]
        ps == ScorePrice(sol, o.sellToken)
        pb == ScorePrice(sol, o.buyToken)
    IN  ps # 0 /\ pb # 0 /\
        IF o.kind = "sell" THEN Bought(trade.executed, ps, pb) < LimitBuy(o, trade.executed)
        ELSE Sold(trade.executed, ps, pb) > LimitSell(o, trade.executed)

\* The surplus of a trade, in the buy token.
SurplusOf(sol, trade) ==
    LET o == Orders[trade.uid]
        ps == ScorePrice(sol, o.sellToken)
        pb == ScorePrice(sol, o.buyToken)
        gain == IF o.kind = "sell"
                THEN Bought(trade.executed, ps, pb) - LimitBuy(o, trade.executed)
                ELSE LimitSell(o, trade.executed) - Sold(trade.executed, ps, pb)
    IN  IF gain <= 0 THEN 0
        ELSE IF o.kind = "sell" THEN gain ELSE (gain * o.buyAmount) \div o.sellAmount

\* The value of that surplus, 0 for a token without a price.
ScoreTrade(sol, trade) ==
    LET o == Orders[trade.uid]
    IN  IF 0 \in {ScorePrice(sol, o.sellToken), ScorePrice(sol, o.buyToken)} \/ ~Priced(o.buyToken)
        THEN 0 ELSE Value(SurplusOf(sol, trade), o.buyToken) \div PriceScale

\* One trade outside its limit voids the score. Orders without reference
\* prices anywhere leave nothing to score with.
ComputeSolutionScore(sol) ==
    IF \E i \in DOMAIN sol.trades : OutsideLimit(sol, sol.trades[i]) THEN 0
    ELSE SumSeq([i \in DOMAIN sol.trades |-> ScoreTrade(sol, sol.trades[i])])
=============================================================================
