-------------------------------- MODULE SwapPlans --------------------------------
(***************************************************************************)
(* From a quote to the interactions that settle it, and, external, what    *)
(* the settlement contract, the tokens and the pools make of them.         *)
(* src/encoder builds the calls, RouterSolver._encode_path_interaction and *)
(* the liquidity sources choose and order them.                            *)
(***************************************************************************)
EXTENDS SwapQuotes

CONSTANT
    StrictTokens    \* tokens whose approve refuses to replace an allowance by another

-----------------------------------------------------------------------------
(* Interactions.                                                           *)

Approve(token, spender, amount) ==
    [op |-> "approve", token |-> token, spender |-> spender, amount |-> amount]

\* The Universal Router's part of a grant to Permit2, until the deadline.
PermitApprove(token, amount) == [op |-> "permit", token |-> token, amount |-> amount]

\* A call that pulls tokenIn through spender, and reverts beyond its limit.
Swap(p, call, spender, limit, deadline) ==
    [op |-> "swap", call |-> call, token |-> p.tokenIn, spender |-> spender,
     exactOut |-> p.exactOut, limit |-> limit, deadline |-> deadline]

\* exactInputSingle and exactOutputSingle: both name the tokens in swap order.
ExactSingle(p, sell, buy) ==
    [to |-> "v3", exactOut |-> p.exactOut, amount |-> IF p.exactOut THEN buy ELSE sell,
     path |-> [tokens |-> <<p.tokenIn, p.tokenOut>>, fees |-> <<p.fee>>]]

\* exactInput and exactOutput over a packed path.
ExactPacked(p, path, sell, buy) ==
    [to |-> "v3", exactOut |-> p.exactOut, amount |-> IF p.exactOut THEN buy ELSE sell,
     path |-> path]

\* Variant: the output may fall to nothing.
EncodeV3SwapUnguarded(p, sell, buy) ==
    Swap(p, IF p.mid = Direct THEN ExactSingle(p, sell, buy)
            ELSE ExactPacked(p, IF p.exactOut THEN PackReversed(p) ELSE PackForward(p), sell, buy),
         "swapRouter", IF p.exactOut THEN SlippageUp(sell) ELSE 0, TRUE)

\* Variant: the packed path of an exact output is not reversed.
EncodeV3SwapForward(p, sell, buy) ==
    Swap(p, IF p.mid = Direct THEN ExactSingle(p, sell, buy)
            ELSE ExactPacked(p, PackForward(p), sell, buy),
         "swapRouter", IF p.exactOut THEN SlippageUp(sell) ELSE SlippageDown(buy), TRUE)

\* encode_v3_swap: the table of sell or buy, single or multi hop.
EncodeV3Swap(p, sell, buy) ==
    Swap(p, IF p.mid = Direct THEN ExactSingle(p, sell, buy)
            ELSE ExactPacked(p, IF p.exactOut THEN PackReversed(p) ELSE PackForward(p), sell, buy),
         "swapRouter", IF p.exactOut THEN SlippageUp(sell) ELSE SlippageDown(buy), TRUE)

\* The V2 router's two swaps along path.
EncodeV2Swap(p, sell, buy) ==
    Swap(p, [to |-> "v2", path |-> p.path, exactOut |-> p.exactOut,
             amount |-> IF p.exactOut THEN buy ELSE sell],
         "v2Router", IF p.exactOut THEN SlippageUp(sell) ELSE SlippageDown(buy), TRUE)

\* The V4 swap action inside V4_SWAP: exact input of one pool.
V4SwapInput(p, sell) ==
    [to |-> "v4", exactOut |-> FALSE, key |-> PoolKey(p.tokenIn, p.tokenOut, p.fee),
     zeroForOne |-> Rank[p.tokenIn] < Rank[p.tokenOut], amount |-> sell]

\* Token to Permit2, Permit2 to the Universal Router, then the swap.
EncodeV4Swap(p, sell, buy) ==
    << Approve(p.tokenIn, "permit2", sell), PermitApprove(p.tokenIn, sell),
       Swap(p, V4SwapInput(p, sell), "permit2", SlippageDown(buy), TRUE) >>

\* exchange has no deadline.
EncodeCurveSwap(p, sell, buy) ==
    << Approve(p.tokenIn, p.pool, sell),
       Swap(p, [to |-> "curve", pool |-> p.pool, i |-> p.i, j |-> p.j, amount |-> sell],
            p.pool, SlippageDown(buy), FALSE) >>

\* The router's interactions for the winning path.
EncodePath(p, sell, buy) ==
    CASE p.venue = "curve" -> EncodeCurveSwap(p, sell, buy)
      [] p.venue = "v4" -> EncodeV4Swap(p, sell, buy)
      [] p.venue = "v3" ->
           << Approve(p.tokenIn, "swapRouter", IF p.exactOut THEN SlippageUp(sell) ELSE sell),
              EncodeV3Swap(p, sell, buy) >>

\* The sources' interactions: the swap alone.
EncodeSource(p, sell, buy) ==
    << IF p.venue = "v2" THEN EncodeV2Swap(p, sell, buy) ELSE EncodeV3Swap(p, sell, buy) >>

-----------------------------------------------------------------------------
(* External: the settlement contract runs the interactions in one          *)
(* transaction. It holds allow[<<token, spender>>] and permit[token].      *)

Realised(market, call) ==
    IF call.to = "v2" THEN ChainPath(market, call.path, call.exactOut, call.amount)
    ELSE Answer(market, call)

\* A plan is grants, and a swap last.
SwapOf(plan) == plan[Len(plan)]
Grants(plan) == {plan[n] : n \in 1..(Len(plan) - 1)}

\* A grant overwrites.
Allowed(plan, allow) ==
    [k \in DOMAIN allow |->
        LET given == {g \in Grants(plan) : g.op = "approve" /\ <<g.token, g.spender>> = k}
        IN  IF given = {} THEN allow[k] ELSE (CHOOSE g \in given : TRUE).amount]

Permitted(plan, permit) ==
    [t \in DOMAIN permit |->
        LET given == {g \in Grants(plan) : g.op = "permit" /\ g.token = t}
        IN  IF given = {} THEN permit[t] ELSE (CHOOSE g \in given : TRUE).amount]

Refused(plan, allow) ==
    \E g \in Grants(plan) : /\ g.op = "approve" /\ g.token \in StrictTokens
                            /\ g.amount > 0 /\ allow[<<g.token, g.spender>>] > 0

\* All of the plan or none of it.
Settlement(market, late, plan, allow, permit) ==
    LET swap == SwapOf(plan)
        key == <<swap.token, swap.spender>>
        realised == Realised(market, swap.call)
        paid == IF swap.exactOut THEN realised ELSE swap.call.amount
        viaPermit == swap.spender = "permit2"
    IN  [ok |-> /\ ~Refused(plan, allow)
                /\ realised > 0
                /\ IF swap.exactOut THEN realised <= swap.limit ELSE realised >= swap.limit
                /\ swap.deadline => ~late
                /\ Allowed(plan, allow)[key] >= paid
                /\ viaPermit => Permitted(plan, permit)[swap.token] >= paid,
         paid |-> paid,
         got |-> IF swap.exactOut THEN swap.call.amount ELSE realised,
         allow |-> [Allowed(plan, allow) EXCEPT ![key] = @ - paid],
         permit |-> IF viaPermit THEN [Permitted(plan, permit) EXCEPT ![swap.token] = @ - paid]
                    ELSE permit]
=============================================================================
