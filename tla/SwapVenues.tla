------------------------------- MODULE SwapVenues -------------------------------
(***************************************************************************)
(* The pools. The constant-product arithmetic is the code's own            *)
(* (src/routing/amm_v2.py, src/liquidity/v2.py); the other pools the code  *)
(* only asks and calls, so they are external and pay at a rate.            *)
(* A market gives the state of every pool:                                 *)
(*   v3[<<in, out, fee>>] and curve[pool][<<i, j>>] are rates in quarters, *)
(*   v4[<<currency0, currency1, fee>>][zeroForOne] too; outside of their   *)
(*   domains there is no pool;                                             *)
(*   v2[{a, b}] is [token0, reserve0, reserve1], reserves 0 for no pair.   *)
(***************************************************************************)
EXTENDS Integers, FiniteSets, Sequences

CONSTANTS
    FeeTiers,       \* FEE_TIERS, also the fees of STANDARD_V4_TIERS, in order
    Intermediates,  \* the intermediate tokens, in configured order
    Rank,           \* the tokens as integers: Rank[t]; the native currency is lowest
    Weth,           \* the wrapped native token
    CurvePools,     \* CURVE_POOLS: pool name -> sequence of coins
    FeeBps,         \* fee of the constant-product pools, in parts of Unit
    SlippageBps,    \* slippage_bps, in parts of Unit
    Unit            \* 10_000 in the code

Native == "native"
Tokens == DOMAIN Rank \ {Native}

\* The tiers and the coins of pools are configured lists; the swap contracts are
\* no pools; fee and slippage are parts of a whole.
ASSUME VenueAssumption ==
    /\ FeeTiers \in Seq(Nat)
    /\ Intermediates \in Seq(Tokens)
    /\ IsFiniteSet(DOMAIN CurvePools)
    /\ {"swapRouter", "v2Router", "permit2"} \cap DOMAIN CurvePools = {}
    /\ \A p \in DOMAIN CurvePools : CurvePools[p] \in Seq(Tokens)
    /\ Unit \in Nat \ {0} /\ FeeBps \in 0..(Unit - 1) /\ SlippageBps \in 0..Unit

\* A market knows the rates of its pools, and a pair for any two tokens.
IsMarket(market) ==
    /\ \A h \in DOMAIN market.v3 : market.v3[h] \in Nat
    /\ \A k \in DOMAIN market.v4 : market.v4[k] \in [BOOLEAN -> Nat]
    /\ \A p \in DOMAIN CurvePools : \A i, j \in DOMAIN CurvePools[p] :
         i # j => market.curve[p][<<i, j>>] \in Nat
    /\ \A a, b \in Tokens :
         a # b => market.v2[{a, b}] \in [token0 : Tokens, reserve0 : Nat, reserve1 : Nat]

-----------------------------------------------------------------------------
(* External pools.                                                         *)

\* What amount buys at a rate, and what must be paid for amount.
Yield(amount, rate) == (amount * rate) \div 4
Cost(amount, rate) == IF rate = 0 THEN 0 ELSE (4 * amount + rate - 1) \div rate

-----------------------------------------------------------------------------
(* Constant product.                                                       *)

\* Output of a swap of amountIn, after the fee, rounded down.
QuoteV2Swap(amountIn, reserveIn, reserveOut) ==
    IF amountIn <= 0 \/ reserveIn <= 0 \/ reserveOut <= 0 THEN 0
    ELSE LET afterFee == amountIn * (Unit - FeeBps)
         IN  (afterFee * reserveOut) \div (reserveIn * Unit + afterFee)

\* Input that yields amountOut, 0 when the pool does not hold as much.
GetAmountIn(amountOut, reserveIn, reserveOut) ==
    IF amountOut <= 0 \/ reserveIn <= 0 \/ reserveOut <= 0 \/ amountOut >= reserveOut THEN 0
    ELSE (reserveIn * amountOut * Unit) \div ((reserveOut - amountOut) * (Unit - FeeBps)) + 1

\* The reserves in the direction of the swap.
Oriented(pair, tokenIn) ==
    IF pair.token0 = tokenIn THEN <<pair.reserve0, pair.reserve1>>
                             ELSE <<pair.reserve1, pair.reserve0>>

\* One hop after the other, forward for a sell and backward for a buy. A hop
\* without a pair, or too small a pair, makes the amount 0, and 0 stays 0.
ComputePath(market, path, exactOut, amount) ==
    LET n == Len(path)
        reserves(i) == Oriented(market.v2[{path[i], path[i + 1]}], path[i])
        forward[i \in 1..n] ==
          IF i = 1 THEN amount
          ELSE QuoteV2Swap(forward[i - 1], reserves(i - 1)[1], reserves(i - 1)[2])
        backward[i \in 1..n] ==
          IF i = n THEN amount
          ELSE GetAmountIn(backward[i + 1], reserves(i)[1], reserves(i)[2])
    IN  IF exactOut THEN backward[1] ELSE forward[n]

\* What an input pays after the fee, and the least input that pays amountOut.
PairPays(amountIn, reserveIn, reserveOut) ==
    IF reserveIn = 0 THEN 0
    ELSE (amountIn * (Unit - FeeBps) * reserveOut)
             \div (reserveIn * Unit + amountIn * (Unit - FeeBps))

PairTakes(amountOut, reserveIn, reserveOut) ==
    IF amountOut = 0 \/ amountOut >= reserveOut THEN 0
    ELSE LET least == (reserveOut - amountOut) * (Unit - FeeBps)
         IN  (reserveIn * amountOut * Unit + least - 1) \div least

\* External: what the pair contracts take or pay on the same path.
ChainPath(market, path, exactOut, amount) ==
    LET n == Len(path)
        reserves(i) == Oriented(market.v2[{path[i], path[i + 1]}], path[i])
        forward[i \in 1..n] ==
          IF i = 1 THEN amount
          ELSE PairPays(forward[i - 1], reserves(i - 1)[1], reserves(i - 1)[2])
        backward[i \in 1..n] ==
          IF i = n THEN amount
          ELSE PairTakes(backward[i + 1], reserves(i)[1], reserves(i)[2])
    IN  IF exactOut THEN backward[1] ELSE forward[n]

-----------------------------------------------------------------------------
(* Slippage.                                                               *)

SlippageDown(amount) == (amount * (Unit - SlippageBps)) \div Unit
SlippageUp(amount) == (amount * (Unit + SlippageBps) + Unit - 1) \div Unit
=============================================================================
