------------------------------ MODULE RouterBatch ------------------------------
(***************************************************************************)
(* How RouterSolver assembles a solution (src/solver/router.py): order by  *)
(* order, each from the best quote of any venue, under one clearing price  *)
(* for each token; then once more over the misses, from the V2 sources.    *)
(* Quotes are any the venues may give, chosen when the order is looked at. *)
(***************************************************************************)
EXTENDS Integers, Sequences

CONSTANTS
    Tokens,
    Orders,        \* the orders to fill, in rank order
    MaxOut,        \* bound: largest amount a venue quotes
    V2Fallback     \* router_v2_fallback_enabled, and there are sources

Order == [kind : {"sell", "buy"}, sellToken : Tokens, buyToken : Tokens,
          sellAmount : Nat \ {0}, buyAmount : Nat \ {0}, partial : BOOLEAN]

ASSUME OrdersAssumption ==
    /\ Orders \in Seq(Order)
    /\ \A i \in DOMAIN Orders : Orders[i].sellToken # Orders[i].buyToken
    /\ MaxOut \in Nat
    /\ V2Fallback \in BOOLEAN

VARIABLES
    phase,      \* "v3" (with V4 and Curve), "v2", "done"
    next,       \* index of the order looked at
    prices,     \* clearing prices registered so far
    trades,     \* the trades, each with the swap that goes with it
    filled      \* filled_uids

vars == <<phase, next, prices, trades, filled>>

\* A trade of order number order: what it executes, and what its swap sells
\* and buys.
Trade == [order : DOMAIN Orders, executed : Nat, sold : Nat, bought : Nat]

TypeOK ==
    /\ phase \in {"v3", "v2", "done"}
    /\ next \in 1..(Len(Orders) + 1)
    /\ \E known \in SUBSET Tokens : prices \in [known -> Nat]
    /\ trades \in Seq(Trade)
    /\ filled \subseteq DOMAIN Orders

Init ==
    /\ phase = "v3"
    /\ next = 1
    /\ prices = [t \in {} |-> 0]
    /\ trades = <<>>
    /\ filled = {}

-----------------------------------------------------------------------------
(* Clearing prices: the first rate of a token stands.                      *)

Known(t) == t \in DOMAIN prices

\* Variant: only the sell token is compared.
FitsSellSide(o, bought, sold) == Known(o.sellToken) => prices[o.sellToken] = bought

\* The rate of this fill agrees with what earlier fills have registered.
Fits(o, bought, sold) ==
    /\ Known(o.sellToken) => prices[o.sellToken] = bought
    /\ Known(o.buyToken) => prices[o.buyToken] = sold

Register(o, bought, sold) ==
    prices' = [t \in DOMAIN prices \cup {o.sellToken, o.buyToken} |->
                 IF t = o.sellToken THEN bought
                 ELSE IF t = o.buyToken THEN sold ELSE prices[t]]

Skip ==
    /\ next' = next + 1
    /\ UNCHANGED <<phase, prices, trades, filled>>

Emit(executed, bought, sold) ==
    LET o == Orders[next]
    IN  /\ Fits(o, bought, sold)
        /\ Register(o, bought, sold)
        /\ trades' = Append(trades, [order |-> next, executed |-> executed, sold |-> sold,
                                     bought |-> bought])
        /\ filled' = filled \cup {next}
        /\ next' = next + 1
        /\ UNCHANGED phase

-----------------------------------------------------------------------------
(* Sell orders: the best quotes of the venues                              *)

Fractions(o) == <<(3 * o.sellAmount) \div 4, o.sellAmount \div 2>>
Limits(o) == <<(3 * o.buyAmount) \div 4, o.buyAmount \div 2>>

Amounts(o) ==
    {o.sellAmount} \cup
        (IF o.partial THEN {Fractions(o)[1], Fractions(o)[2]} ELSE {})

\* For each amount that is quoted, the best a venue offers; 0: no quote.
Quotes(o) == [Amounts(o) -> 0..MaxOut]

\* The best over all amounts: best_per_order does not filter by amount.  Of
\* equals either may win: the first does, in the order of the venues.
IsBest(q, a) == \A b \in DOMAIN q : q[b] <= q[a]

ClearsFull(o, q) == \E a \in DOMAIN q : q[a] >= o.buyAmount

\* Variant: a fraction is taken at any price.
TakesAnyFraction(o, q, k) ==
    LET a == Fractions(o)[k]
    IN  q[a] > 0 /\ Fits(o, q[a], a)

\* Fraction k has a quote, within its share of the limit, at a rate that
\* fits.
TakesFraction(o, q, k) ==
    LET a == Fractions(o)[k]
    IN  q[a] > 0 /\ q[a] >= Limits(o)[k] /\ Fits(o, q[a], a)

FillSell ==
    LET o == Orders[next]
    IN  /\ phase = "v3" /\ next \in DOMAIN Orders /\ o.kind = "sell"
        /\ \E q \in Quotes(o) :
             \/ /\ ClearsFull(o, q)
                /\ \E a \in DOMAIN q :
                     /\ IsBest(q, a)
                     /\ \/ Emit(o.sellAmount, q[a], o.sellAmount)
                        \/ ~Fits(o, q[a], o.sellAmount) /\ Skip
             \/ /\ ~ClearsFull(o, q) /\ o.partial
                /\ \E k \in {1, 2} :
                     /\ TakesFraction(o, q, k)
                     /\ k = 2 => ~TakesFraction(o, q, 1)
                     /\ LET a == Fractions(o)[k] IN Emit(a, q[a], a)
             \/ /\ ~ClearsFull(o, q)
                /\ o.partial => \A k \in {1, 2} : ~TakesFraction(o, q, k)
                /\ Skip

\* Variant: the sell side that was signed is not looked at.
AffordsAnything(o, amountIn) == TRUE

\* The venue demands no more than was signed away.
Affords(o, amountIn) == amountIn <= o.sellAmount

\* Buy orders are quoted for the exact amount they buy.
FillBuy ==
    LET o == Orders[next]
    IN  /\ phase = "v3" /\ next \in DOMAIN Orders /\ o.kind = "buy"
        /\ \E amountIn \in 1..MaxOut :
             \/ Affords(o, amountIn) /\ Emit(o.buyAmount, o.buyAmount, amountIn)
             \/ ~(Affords(o, amountIn) /\ Fits(o, o.buyAmount, amountIn)) /\ Skip

BuyWithoutQuote ==
    /\ phase = "v3" /\ next \in DOMAIN Orders /\ Orders[next].kind = "buy"
    /\ Skip

\* batched_v3_quote raises: the router gives up.  V4 and Curve may fail
\* without that.
QuotingFails ==
    /\ phase = "v3" /\ next = 1
    /\ phase' = "done"
    /\ UNCHANGED <<next, prices, trades, filled>>

-----------------------------------------------------------------------------
(* The V2 fallback                                                         *)

FallbackDue == phase = "v3" /\ V2Fallback /\ filled # DOMAIN Orders

StartFallback ==
    /\ phase = "v3" /\ next > Len(Orders)
    /\ FallbackDue
    /\ phase' = "v2" /\ next' = 1
    /\ UNCHANGED <<prices, trades, filled>>

\* A source quotes within the limit, and at a rate that fits, or does not.
FillFromV2 ==
    LET o == Orders[next]
    IN  /\ phase = "v2" /\ next \in DOMAIN Orders
        /\ \/ /\ next \notin filled /\ o.kind = "sell"
              /\ \E out \in o.buyAmount..MaxOut :
                   Emit(o.sellAmount, out, o.sellAmount)
           \/ /\ next \notin filled /\ o.kind = "buy"
              /\ \E amountIn \in 1..o.sellAmount :
                   Emit(o.buyAmount, o.buyAmount, amountIn)
           \/ Skip

Finish ==
    /\ phase # "done" /\ next > Len(Orders)
    /\ ~FallbackDue
    /\ phase' = "done"
    /\ UNCHANGED <<next, prices, trades, filled>>

Next ==
    \/ FillSell \/ FillBuy \/ BuyWithoutQuote \/ QuotingFails
    \/ StartFallback \/ FillFromV2 \/ Finish

Spec == Init /\ [][Next]_vars

-----------------------------------------------------------------------------
(* Properties                                                              *)

\* One clearing price for each token (CIP-67): at the prices of the solution
\* every swap comes out even, the first one's as well as the last one's.
PricesRealised ==
    \A i \in DOMAIN trades :
        LET o == Orders[trades[i].order]
        IN  /\ Known(o.sellToken) /\ prices[o.sellToken] = trades[i].bought
            /\ Known(o.buyToken) /\ prices[o.buyToken] = trades[i].sold

\* No token has a price that no trade uses: an order that was turned down,
\* at whatever point, has left nothing behind.
PricesNeeded ==
    \A t \in Tokens : Known(t) =>
        \E i \in DOMAIN trades :
            t \in {Orders[trades[i].order].sellToken, Orders[trades[i].order].buyToken}

\* No order is filled by both passes.
FilledOnce ==
    \A i, j \in DOMAIN trades : trades[i].order = trades[j].order => i = j

\* The limit check of GPv2Settlement, at the clearing prices.
WithinLimit(t) ==
    LET o == Orders[t.order]
    IN  o.sellAmount * prices[o.sellToken] >= o.buyAmount * prices[o.buyToken]

IsFull(t) ==
    t.executed = IF Orders[t.order].kind = "sell" THEN Orders[t.order].sellAmount
                                                  ELSE Orders[t.order].buyAmount

\* No complete fill breaks the limit its owner signed.
FullFillsWithinLimit == \A i \in DOMAIN trades : IsFull(trades[i]) => WithinLimit(trades[i])

\* A partial fill misses the signed limit by rounding at most: one more unit
\* of the bought token would meet it.
PartialFillsNearLimit ==
    \A i \in DOMAIN trades :
        LET t == trades[i]
            o == Orders[t.order]
        IN  ~IsFull(t) => o.sellAmount * (t.bought + 1) > o.buyAmount * t.sold
=============================================================================
