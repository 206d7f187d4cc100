----------------------------- MODULE MCRouterBatch -----------------------------
(* Instances of RouterBatch for TLC. *)
EXTENDS RouterBatch

O(kind, sell, sellAmount, buy, buyAmount, partial) ==
    [kind |-> kind, sellToken |-> sell, buyToken |-> buy, sellAmount |-> sellAmount,
     buyAmount |-> buyAmount, partial |-> partial]

\* Three orders around a common token, and one against the first.
Mixed ==
    << O("sell", "weth", 4, "usdc", 5, TRUE), O("buy", "arb", 4, "usdc", 3, FALSE),
       O("sell", "arb", 3, "weth", 2, FALSE), O("sell", "usdc", 5, "weth", 3, TRUE) >>
=============================================================================
