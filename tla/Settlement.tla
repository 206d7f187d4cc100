------------------------------- MODULE Settlement -------------------------------
(***************************************************************************)
(* A solution as a settle() call (src/shadow/feasibility.py,               *)
(* src/encoder/settle.py), and, external, what GPv2Settlement makes of it. *)
(***************************************************************************)
EXTENDS Ebbo

CONSTANT SlippageBps    \* slippage_bps, in parts of Unit

ASSUME SlippageAssumption == SlippageBps \in 0..(Unit - 1)

-----------------------------------------------------------------------------
(* The settle() call of the feasibility gate.                              *)

\* Lower-case keys, sorted; equal ones make the verdict unknown.
SettleTokens(sol) == SetToSeq({Lower[t] : t \in DOMAIN sol.prices})
DuplicateTokens(sol) == \E s, t \in DOMAIN sol.prices : s # t /\ Lower[s] = Lower[t]

ClearingPrices(sol) ==
    LET tokens == SettleTokens(sol)
    IN  [i \in DOMAIN tokens |-> sol.prices[CHOOSE t \in DOMAIN sol.prices : Lower[t] = tokens[i]]]

TokenIndex(sol, t) ==
    LET tokens == SettleTokens(sol)
    IN  IF Lower[t] \in ToSet(tokens) THEN CHOOSE i \in DOMAIN tokens : tokens[i] = Lower[t] ELSE 0

\* The balance sources are left at their defaults.
EncodeTradeFlags(o) == [kind |-> o.kind, partial |-> o.partial, scheme |-> o.scheme,
                        sellBalance |-> "erc20"]

\* The signature the orderbook serves: of a presign order empty, of a
\* contract wallet without its owner, or, defensively, with.
ServedSignature(o) ==
    CASE o.scheme = "presign" -> <<>>
      [] o.scheme = "eip1271" /\ o.signature = "prefixed" -> <<"owner", "payload">>
      [] OTHER -> <<"payload">>

\* Variant: as served.
SigBytesVerbatim(o) == ServedSignature(o)

\* Framed as GPv2Signing reads it in each scheme.
SigBytes(o) ==
    LET raw == ServedSignature(o)
    IN  CASE o.scheme = "presign" -> <<"owner">>
          [] o.scheme = "eip1271" -> IF Head(raw) = "owner" THEN raw ELSE <<"owner">> \o raw
          [] OTHER -> raw

\* An order without its owner cannot be framed.
Framable(o) == o.scheme \in {"presign", "eip1271"} => o.owned

EncodeTrade(sol, trade) ==
    LET o == Orders[trade.uid]
    IN  [uid |-> trade.uid, sellIndex |-> TokenIndex(sol, o.sellToken),
         buyIndex |-> TokenIndex(sol, o.buyToken), executed |-> trade.executed,
         flags |-> EncodeTradeFlags(o), signature |-> SigBytes(o)]

\* No hooks: pre and post interactions are empty.
EncodeSettle(sol) ==
    [tokens |-> SettleTokens(sol), prices |-> ClearingPrices(sol),
     trades |-> [i \in DOMAIN sol.trades |-> EncodeTrade(sol, sol.trades[i])],
     intra |-> sol.swaps, hooks |-> FALSE]

\* External: the settlement the driver makes of the solution, with the flags
\* of the orders and their hooks.
DriverSettle(sol) ==
    [tokens |-> SettleTokens(sol),
     prices |-> [i \in DOMAIN SettleTokens(sol) |-> ScorePrice(sol, SettleTokens(sol)[i])],
     trades |-> [i \in DOMAIN sol.trades |->
        LET o == Orders[sol.trades[i].uid]
        IN  [uid |-> sol.trades[i].uid, executed |-> sol.trades[i].executed,
             sellIndex |-> TokenIndex(sol, o.sellToken), buyIndex |-> TokenIndex(sol, o.buyToken),
             flags |-> [kind |-> o.kind, partial |-> o.partial, scheme |-> o.scheme,
                        sellBalance |-> o.source],
             signature |-> CASE o.scheme = "presign" -> <<"owner">>
                             [] o.scheme = "eip1271" -> <<"owner", "payload">>
                             [] OTHER -> <<"payload">>]],
     intra |-> sol.swaps, hooks |-> TRUE]

-----------------------------------------------------------------------------
(* External: GPv2Settlement.settle().                                      *)

Authentic(trade) ==
    LET o == Orders[trade.uid]
    IN  /\ trade.flags = [kind |-> o.kind, partial |-> o.partial, scheme |-> o.scheme,
                          sellBalance |-> o.source]
        /\ trade.signature = CASE o.scheme = "presign" -> <<"owner">>
                               [] o.scheme = "eip1271" -> <<"owner", "payload">>
                               [] OTHER -> <<"payload">>

SellPrice(call, trade) == call.prices[trade.sellIndex]
BuyPrice(call, trade) == call.prices[trade.buyIndex]

\* The limit check, by cross-multiplication of the signed amounts.
WithinLimit(call, trade) ==
    LET o == Orders[trade.uid]
    IN  o.sellAmount * SellPrice(call, trade) >= o.buyAmount * BuyPrice(call, trade)

Whole(trade) == IF Orders[trade.uid].partial THEN trade.executed ELSE Target(Orders[trade.uid])

Pulled(call, trade) ==
    IF Orders[trade.uid].kind = "sell" THEN Whole(trade)
    ELSE Sold(Whole(trade), SellPrice(call, trade), BuyPrice(call, trade))

Paid(call, trade) ==
    IF Orders[trade.uid].kind = "buy" THEN Whole(trade)
    ELSE Bought(Whole(trade), SellPrice(call, trade), BuyPrice(call, trade))

\* The simulation runs no hooks, so what they would approve is not there.
Funded(chain, call, trade) ==
    /\ Fillable(chain, trade.uid, Whole(trade), Pulled(call, trade))
    /\ ~call.hooks /\ Orders[trade.uid].source = "erc20"
            => chain.allowance[trade.uid] >= Pulled(call, trade)

SlippageDown(amount) == (amount * (Unit - SlippageBps)) \div Unit

\* What a swap brings, 0 when that is below its floor and it reverts.
SwapOut(chain, swap) ==
    LET got == RouteOut(chain.pools, swap.route, swap.in)
    IN  IF got < SlippageDown(swap.out) THEN 0 ELSE got

\* A settlement pulls, swaps and pays, and must never run short of a token.
Sells(trade, t) == Lower[Orders[trade.uid].sellToken] = t
Buys(trade, t) == Lower[Orders[trade.uid].buyToken] = t

Settles(chain, call) ==
    LET trades == call.trades
        swaps == call.intra
        pulled(t) == SumSeq([i \in DOMAIN trades |->
                               IF Sells(trades[i], t) THEN Pulled(call, trades[i]) ELSE 0])
        paid(t) == SumSeq([i \in DOMAIN trades |->
                             IF Buys(trades[i], t) THEN Paid(call, trades[i]) ELSE 0])
        spent(t) == SumSeq([i \in DOMAIN swaps |-> IF swaps[i].sell = t THEN swaps[i].in ELSE 0])
        brought(t) == SumSeq([i \in DOMAIN swaps |->
                                IF swaps[i].buy = t THEN SwapOut(chain, swaps[i]) ELSE 0])
    IN  /\ \A i \in DOMAIN trades :
             /\ Authentic(trades[i])
             /\ WithinLimit(call, trades[i])
             /\ Funded(chain, call, trades[i])
        /\ \A i \in DOMAIN swaps : SwapOut(chain, swaps[i]) > 0
        /\ \A t \in Tokens :
             /\ spent(t) <= chain.buffer[t] + pulled(t)
             /\ paid(t) <= chain.buffer[t] + pulled(t) - spent(t) + brought(t)

-----------------------------------------------------------------------------
(* The verdict of the gate.                                                *)

\* Served by the cache, or fetched and put there; unfetchable otherwise.
\* Neither an order that could not be fetched, nor one that cannot be
\* encoded, nor a failed call counts against the solution.
Encodable(sol, known) ==
    /\ sol.trades # <<>> /\ ~DuplicateTokens(sol)
    /\ \A i \in DOMAIN sol.trades :
          LET o == Orders[sol.trades[i].uid]
          IN  /\ sol.trades[i].uid \in known
              /\ TokenIndex(sol, o.sellToken) # 0 /\ TokenIndex(sol, o.buyToken) # 0
              /\ Framable(o)

ValidateSolution(chain, sol, known, answered) ==
    IF ~Encodable(sol, known) \/ ~answered THEN "unknown"
    ELSE IF Settles(chain, EncodeSettle(sol)) THEN "feasible" ELSE "phantom"
=============================================================================
