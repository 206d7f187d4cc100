------------------------------ MODULE MCSwapRound ------------------------------
(* An instance of SwapRound for TLC. *)
EXTENDS SwapRound

Ranks == (Native :> 0) @@ ("usdt" :> 1) @@ ("weth" :> 2) @@ ("usdc" :> 3)
Pools == [twopool |-> <<"usdc", "usdt">>]
Tiers == <<5, 30>>
Hubs == <<"weth", "usdc">>

O(kind, sell, sellAmount, buy, buyAmount, partial) ==
    [kind |-> kind, sellToken |-> sell, buyToken |-> buy, sellAmount |-> sellAmount,
     buyAmount |-> buyAmount, partial |-> partial]

\* A sell that may be filled partially, a buy, and a sell of the wrapped
\* native token that no single venue may meet.
Three == { O("sell", "usdt", 12, "usdc", 11, TRUE), O("buy", "usdt", 20, "usdc", 10, FALSE),
           O("sell", "weth", 9, "usdc", 10, FALSE) }

Pair(token0, reserve0, reserve1) == [token0 |-> token0, reserve0 |-> reserve0, reserve1 |-> reserve1]
Dry == Pair("usdt", 0, 0)

\* The tiers differ in both directions, so that a path read backwards, or by
\* the wrong tier, does not pay the same.
Calm ==
    [v3 |-> (<<"usdt", "weth", 5>> :> 3) @@ (<<"weth", "usdc", 5>> :> 6)
            @@ (<<"weth", "usdt", 5>> :> 5) @@ (<<"usdc", "weth", 5>> :> 2)
            @@ (<<"usdt", "weth", 30>> :> 4) @@ (<<"weth", "usdc", 30>> :> 4)
            @@ (<<"usdt", "usdc", 30>> :> 3) @@ (<<"usdc", "usdt", 30>> :> 5),
     v4 |-> (<<"usdt", "usdc", 5>> :> [z \in BOOLEAN |-> IF z THEN 4 ELSE 3])
            @@ (<<Native, "usdc", 5>> :> [z \in BOOLEAN |-> IF z THEN 7 ELSE 1])
            @@ (<<"weth", "usdc", 30>> :> [z \in BOOLEAN |-> IF z THEN 5 ELSE 2]),
     curve |-> [twopool |-> (<<1, 2>> :> 4) @@ (<<2, 1>> :> 3)],
     v2 |-> ({"usdt", "usdc"} :> Pair("usdt", 30, 60)) @@ ({"weth", "usdt"} :> Dry)
            @@ ({"weth", "usdc"} :> Pair("usdc", 60, 30))]

\* A little worse than Calm in the direct pools.
Rough ==
    [Calm EXCEPT !.v3[<<"weth", "usdc", 5>>] = 4,
                 !.v4[<<"usdt", "usdc", 5>>] = [z \in BOOLEAN |-> 3],
                 !.v2[{"usdt", "usdc"}] = Pair("usdt", 31, 57)]
TwoMarkets == <<Calm, Rough>>
=============================================================================
