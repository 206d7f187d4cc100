------------------------------- MODULE SwapQuotes -------------------------------
(***************************************************************************)
(* The quotes the solver asks for: the candidate paths of an order, the    *)
(* call that asks for each, and how the answer is read.                    *)
(* src/solver/router.py builds the paths; src/routing/v3_batched.py,       *)
(* v4_quoter.py and curve_quoter.py build the calls and read the answers.  *)
(***************************************************************************)
EXTENDS SwapVenues, SequencesExt

-----------------------------------------------------------------------------
(* Candidate paths. A path swaps amount of tokenIn, or buys amount of      *)
(* tokenOut when exactOut.                                                 *)

Fractions(o) == << (3 * o.sellAmount) \div 4, o.sellAmount \div 2 >>

\* The amounts the router asks about: fractions too of a sell that may be
\* filled partially.
Amounts(o) ==
    IF o.kind = "buy" THEN <<o.buyAmount>>
    ELSE <<o.sellAmount>> \o (IF o.partial THEN Fractions(o) ELSE <<>>)

V3Path(o, amount, fee, mid, feeOut) ==
    [venue |-> "v3", tokenIn |-> o.sellToken, tokenOut |-> o.buyToken, fee |-> fee,
     mid |-> mid, feeOut |-> feeOut, exactOut |-> o.kind = "buy", amount |-> amount]

Direct == "none"

\* The intermediates that are neither end of the swap.
Mids(o) ==
    LET others[n \in 0..Len(Intermediates)] ==
            IF n = 0 THEN <<>>
            ELSE IF Intermediates[n] \in {o.sellToken, o.buyToken} THEN others[n - 1]
            ELSE Append(others[n - 1], Intermediates[n])
    IN  others[Len(Intermediates)]

Directs(o, amount) ==
    [i \in DOMAIN FeeTiers |-> V3Path(o, amount, FeeTiers[i], Direct, 0)]

\* The router's candidates: each tier direct, then each tier twice through
\* each intermediate.
RouterPaths(o) ==
    LET through(amount, mid) ==
          [i \in DOMAIN FeeTiers |-> V3Path(o, amount, FeeTiers[i], mid, FeeTiers[i])]
        mids == Mids(o)
        paths(amount) ==
          Directs(o, amount) \o FlattenSeq([m \in DOMAIN mids |-> through(amount, mids[m])])
    IN  FlattenSeq([a \in DOMAIN Amounts(o) |-> paths(Amounts(o)[a])])

\* V3Source's candidates: one amount, every pair of tiers through each
\* intermediate.
SourcePaths(o) ==
    LET amount == Amounts(o)[1]
        through(mid, i) ==
          [j \in DOMAIN FeeTiers |-> V3Path(o, amount, FeeTiers[i], mid, FeeTiers[j])]
        mids == Mids(o)
    IN  Directs(o, amount) \o
        FlattenSeq([m \in DOMAIN mids |->
            FlattenSeq([i \in DOMAIN FeeTiers |-> through(mids[m], i)])])

V4Tiers(o, amount, native) ==
    [i \in DOMAIN FeeTiers |->
        [venue |-> "v4", tokenIn |-> o.sellToken, tokenOut |-> o.buyToken, fee |-> FeeTiers[i],
         native |-> native, exactOut |-> FALSE, amount |-> amount]]

\* The native variant: exactly one side is the wrapped token.
NativeTiers(o, amount) ==
    IF (o.sellToken = Weth) = (o.buyToken = Weth) THEN <<>> ELSE V4Tiers(o, amount, TRUE)

\* Sell orders only: the V4 encoder has no exact output.
V4Paths(o) ==
    IF o.kind = "buy" THEN <<>>
    ELSE FlattenSeq([a \in DOMAIN Amounts(o) |-> V4Tiers(o, Amounts(o)[a], FALSE)])

\* The native probe: the whole amount only.
NativePaths(o) == IF o.kind = "buy" THEN <<>> ELSE NativeTiers(o, o.sellAmount)

CoinIndex(pool, token) == CHOOSE i \in DOMAIN CurvePools[pool] : CurvePools[pool][i] = token

\* One path for each pool that holds both tokens.
MakeCurvePaths(o, amount) ==
    LET holding == {p \in DOMAIN CurvePools :
                      {o.sellToken, o.buyToken} \subseteq ToSet(CurvePools[p])}
    IN  SetToSeq({[venue |-> "curve", tokenIn |-> o.sellToken, tokenOut |-> o.buyToken,
                   pool |-> p, i |-> CoinIndex(p, o.sellToken), j |-> CoinIndex(p, o.buyToken),
                   exactOut |-> FALSE, amount |-> amount] : p \in holding})

CurvePaths(o) ==
    IF o.kind = "buy" THEN <<>>
    ELSE FlattenSeq([a \in DOMAIN Amounts(o) |-> MakeCurvePaths(o, Amounts(o)[a])])

\* A V2 source's paths: direct, then through each intermediate.
V2Paths(o) ==
    LET via(tokens) == [venue |-> "v2", tokenIn |-> o.sellToken, tokenOut |-> o.buyToken,
                        path |-> tokens, exactOut |-> o.kind = "buy", amount |-> Amounts(o)[1]]
        mids == Mids(o)
    IN  << via(<<o.sellToken, o.buyToken>>) >>
        \o [m \in DOMAIN mids |-> via(<<o.sellToken, mids[m], o.buyToken>>)]

-----------------------------------------------------------------------------
(* Calls.                                                                  *)

\* The tokens and fees of a packed V3 path, as a swap in this direction
\* reads them.
PackForward(p) == [tokens |-> <<p.tokenIn, p.mid, p.tokenOut>>, fees |-> <<p.fee, p.feeOut>>]
PackReversed(p) == [tokens |-> <<p.tokenOut, p.mid, p.tokenIn>>, fees |-> <<p.feeOut, p.fee>>]

\* A single hop names its two tokens in swap order; a packed path starts at
\* the output token when the output is exact.
V3Call(p) ==
    [to |-> "v3", exactOut |-> p.exactOut, amount |-> p.amount,
     path |-> IF p.mid = Direct THEN [tokens |-> <<p.tokenIn, p.tokenOut>>, fees |-> <<p.fee>>]
              ELSE IF p.exactOut THEN PackReversed(p) ELSE PackForward(p)]

\* The currency of a token in the pool key of the path.
Currency(p, token) == IF p.native /\ token = Weth THEN Native ELSE token

PoolKey(a, b, fee) == IF Rank[a] < Rank[b] THEN <<a, b, fee>> ELSE <<b, a, fee>>

V4Call(p) ==
    LET in == Currency(p, p.tokenIn)
        out == Currency(p, p.tokenOut)
    IN  [to |-> "v4", exactOut |-> p.exactOut, key |-> PoolKey(in, out, p.fee),
         zeroForOne |-> Rank[in] < Rank[out], amount |-> p.amount]

CurveCall(p) == [to |-> "curve", pool |-> p.pool, i |-> p.i, j |-> p.j, amount |-> p.amount]

CallOf(p) == CASE p.venue = "v3" -> V3Call(p)
               [] p.venue = "v4" -> V4Call(p)
               [] p.venue = "curve" -> CurveCall(p)

-----------------------------------------------------------------------------
(* Answers: external, what the quoter contracts return, 0 for a revert.    *)

\* Exact input walks the packed path from its first token, exact output
\* pays for its first token out of its last; of a single hop both read the
\* tokens in swap order.
WalkV3(market, path, exactOut, amount) ==
    LET n == Len(path.fees)
        hop(i) == IF exactOut /\ n > 1 THEN <<path.tokens[i + 1], path.tokens[i], path.fees[i]>>
                  ELSE <<path.tokens[i], path.tokens[i + 1], path.fees[i]>>
        walked[i \in 0..n] ==
          IF i = 0 THEN amount
          ELSE IF hop(i) \notin DOMAIN market.v3 THEN 0
          ELSE IF exactOut THEN Cost(walked[i - 1], market.v3[hop(i)])
               ELSE Yield(walked[i - 1], market.v3[hop(i)])
    IN  walked[n]

Answer(market, call) ==
    CASE call.to = "v3" -> WalkV3(market, call.path, call.exactOut, call.amount)
      [] call.to = "v4" ->
           IF call.key \notin DOMAIN market.v4 THEN 0
           ELSE LET rate == market.v4[call.key][call.zeroForOne]
                IN  IF call.exactOut THEN Cost(call.amount, rate) ELSE Yield(call.amount, rate)
      [] call.to = "curve" -> Yield(call.amount, market.curve[call.pool][<<call.i, call.j>>])

\* What the path is meant to ask: hop after hop in the direction of the swap.
Meant(market, p) ==
    CASE p.venue = "v3" ->
           LET first == <<p.tokenIn, IF p.mid = Direct THEN p.tokenOut ELSE p.mid, p.fee>>
               second == <<p.mid, p.tokenOut, p.feeOut>>
               rate(h) == IF h \in DOMAIN market.v3 THEN market.v3[h] ELSE 0
           IN  IF p.mid = Direct
               THEN IF p.exactOut THEN Cost(p.amount, rate(first)) ELSE Yield(p.amount, rate(first))
               ELSE IF p.exactOut THEN Cost(Cost(p.amount, rate(second)), rate(first))
                    ELSE Yield(Yield(p.amount, rate(first)), rate(second))
      [] OTHER -> Answer(market, CallOf(p))

-----------------------------------------------------------------------------
(* Selection.                                                              *)

\* A quote is a path and the amount of its variable side, 0 for none.
Better(q, best) == IF q.path.exactOut THEN q.amount < best.amount ELSE q.amount > best.amount

NoQuote == [path |-> [venue |-> "none", exactOut |-> FALSE], amount |-> 0]

\* The first of the best quotes among those at the indices.
BestAmong(quotes, indices) ==
    LET viable == {i \in indices : quotes[i].amount # 0}
        isBest(i) == \A j \in viable : /\ ~Better(quotes[j], quotes[i])
                                       /\ j < i => Better(quotes[i], quotes[j])
    IN  IF viable = {} THEN NoQuote ELSE quotes[CHOOSE i \in viable : isBest(i)]

SelectBest(quotes) == BestAmong(quotes, DOMAIN quotes)

\* The V2 source's answer to a request.
QuoteV2(market, o) ==
    LET paths == V2Paths(o)
    IN  SelectBest([i \in DOMAIN paths |->
                      [path |-> paths[i],
                       amount |-> ComputePath(market, paths[i].path, paths[i].exactOut,
                                              paths[i].amount)]])
=============================================================================
