-------------------------------- MODULE MCClearing --------------------------------
EXTENDS Clearing, TLC

O(sell, buy, sold, bought, kind) ==
    [sellToken |-> sell, buyToken |-> buy, sellAmount |-> sold, buyAmount |-> bought,
     kind |-> kind, partial |-> FALSE, scheme |-> "eip712", source |-> "erc20", hooks |-> FALSE,
     signature |-> "plain", owned |-> TRUE]

MCOrders ==
    "plain" :> O("a", "b", 21, 13, "sell")
    @@ "presign" :> [O("a", "b", 29, 18, "sell") EXCEPT !.scheme = "presign"]
    @@ "spelled" :> O("A", "B", 23, 15, "sell")
    @@ "part" :> [O("b", "c", 20, 9, "sell") EXCEPT !.partial = TRUE, !.scheme = "eip1271",
                                                  !.signature = "prefixed"]
    @@ "buy" :> [O("a", "b", 35, 25, "buy") EXCEPT !.scheme = "eip1271"]
    @@ "vault" :> [O("a", "b", 25, 15, "sell") EXCEPT !.source = "internal"]
    @@ "hooked" :> [O("a", "c", 25, 12, "sell") EXCEPT !.hooks = TRUE]
    @@ "tight" :> O("a", "b", 11, 9, "sell")
    @@ "back" :> [O("b", "a", 15, 15, "sell") EXCEPT !.scheme = "presign", !.owned = FALSE]
    @@ "large" :> O("a", "b", 40, 39, "sell")
    @@ "ghost" :> O("a", "b", 45, 5, "sell")

MCLower == [t \in {"a", "b", "c", "A", "B"} |->
              CASE t = "A" -> "a" [] t = "B" -> "b" [] OTHER -> t]
MCReference == "a" :> 3 @@ "b" :> 3
MCAuctions == {<<"plain", "presign">>, <<"plain", "tight", "ghost">>, <<"part", "spelled", "plain">>,
               <<"buy", "hooked">>, <<"vault", "presign", "part">>, <<"back", "plain", "buy">>,
               <<"back", "tight", "large">>}

MCPools == <<"a", "b", "low">> :> <<100, 110>> @@ <<"a", "b", "high">> :> <<150, 155>>
           @@ <<"a", "b", "sushi">> :> <<200, 230>> @@ <<"a", "c", "low">> :> <<125, 100>>
           @@ <<"c", "b", "low">> :> <<100, 150>> @@ <<"b", "c", "low">> :> <<150, 100>>
           @@ <<"b", "a", "high">> :> <<150, 150>>
Well == [u \in DOMAIN MCOrders |-> 40]
Base == [pools |-> MCPools, filled |-> [u \in DOMAIN MCOrders |-> 0],
         presigned |-> DOMAIN MCOrders, balance |-> Well, allowance |-> Well,
         buffer |-> [t \in {"a", "b", "c"} |-> 1]]
MCChains ==
    << Base,
       [Base EXCEPT !.filled = [@ EXCEPT !["plain"] = 21, !["part"] = 5], !.presigned = {"back"},
                    !.balance = [@ EXCEPT !["part"] = 12, !["vault"] = 0],
                    !.allowance = [@ EXCEPT !["hooked"] = 0],
                    !.buffer = [t \in {"a", "b", "c"} |-> 20]],
       [Base EXCEPT !.pools = [@ EXCEPT ![<<"a", "b", "high">>] = <<160, 140>>],
                    !.balance = [@ EXCEPT !["buy"] = 20, !["part"] = 5],
                    !.allowance = [@ EXCEPT !["tight"] = 10],
                    !.buffer = [t \in {"a", "b", "c"} |-> 0]] >>

Swapped(sell, buy, sold, bought, fee) ==
    [sell |-> sell, buy |-> buy, in |-> sold, out |-> bought, route |-> << <<sell, buy, fee>> >>]
MCEdgeSolutions ==
    {[prices |-> "a" :> p @@ "b" :> 30,
      trades |-> <<[uid |-> "buy", executed |-> 25]>>,
      swaps |-> <<Swapped("a", "b", 29, 25, "high")>>] : p \in {24, 28}}
    \cup {[prices |-> "a" :> 15 @@ "b" :> p,
           trades |-> <<[uid |-> "back", executed |-> 15], [uid |-> "plain", executed |-> 21]>>,
           swaps |-> <<>>] : p \in {14, 15, 20}}
    \cup {[prices |-> "b" :> 9 @@ "c" :> 15, trades |-> <<[uid |-> "part", executed |-> 15]>>,
           swaps |-> <<Swapped("b", "c", 15, 9, "low")>>]}
=============================================================================
