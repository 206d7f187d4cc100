-------------------------------- MODULE Auction --------------------------------
(***************************************************************************)
(* What an auction brings (src/models), how the solvers rank its orders    *)
(* (src/solver/router.py), and, external, the pools and wallets behind it. *)
(* A chain is [pools, filled, presigned, balance, allowance, buffer]:      *)
(*   pools[<<in, out, venue>>] = <<x, y>>, constant product, no pool       *)
(*   elsewhere; filled, balance and allowance by order uid; buffer is what *)
(*   the settlement contract holds of each token.                          *)
(***************************************************************************)
EXTENDS Integers, SequencesExt

CONSTANTS
    Orders,         \* uid -> order
    Lower,          \* a token as it is spelled -> the token (its lower-case address)
    Reference,      \* tokens with a reference price -> that price
    PriceScale,     \* 10 ** 18 in the code
    Ghosts,         \* the uids the ghost detector knows (external: edge)
    FeeTiers,       \* FEE_TIERS
    Factories,      \* the constant-product factories of src/routing/amm_v2.py
    Intermediates,  \* the intermediate tokens
    MaxOrders       \* max_orders

Uids == DOMAIN Orders
Tokens == {Lower[t] : t \in DOMAIN Lower}

Order == [sellToken : DOMAIN Lower, buyToken : DOMAIN Lower, sellAmount : Nat \ {0},
          buyAmount : Nat \ {0}, kind : {"sell", "buy"}, partial : BOOLEAN,
          scheme : {"eip712", "presign", "eip1271"}, source : {"erc20", "internal"},
          hooks : BOOLEAN, signature : {"plain", "prefixed"}, owned : BOOLEAN]

ASSUME AuctionAssumption ==
    /\ \A u \in Uids : Orders[u] \in Order
    /\ \A u \in Uids : Lower[Orders[u].sellToken] # Lower[Orders[u].buyToken]
    /\ PriceScale \in Nat \ {0} /\ MaxOrders \in Nat \ {0}
    /\ Lower \in [DOMAIN Lower -> DOMAIN Lower] /\ IsFiniteSet(DOMAIN Lower)
    /\ \A t \in DOMAIN Lower : Lower[Lower[t]] = Lower[t]
    /\ Reference \in [DOMAIN Reference -> Nat \ {0}]
    /\ FeeTiers # {} /\ IsFiniteSet(FeeTiers) /\ IsFiniteSet(Factories)
    /\ IsFiniteSet(Intermediates) /\ Intermediates \subseteq Tokens

CeilDiv(a, b) == (a + b - 1) \div b

\* The elements of s that are in S, in their order, and the sum of s: as
\* functions of the length of a prefix of s.
OnlyUpTo(s, S) ==
    LET only[n \in 0..Len(s)] ==
            IF n = 0 THEN <<>>
            ELSE IF s[n] \in S THEN Append(only[n - 1], s[n]) ELSE only[n - 1]
    IN  only
Only(s, S) == OnlyUpTo(s, S)[Len(s)]

SumUpTo(s) == LET sum[n \in 0..Len(s)] == IF n = 0 THEN 0 ELSE sum[n - 1] + s[n] IN sum
SumSeq(s) == SumUpTo(s)[Len(s)]

-----------------------------------------------------------------------------
(* Ranking.                                                                *)

Priced(t) == Lower[t] \in DOMAIN Reference
Value(amount, t) == amount * Reference[Lower[t]]

\* The value of the order in the native token, the bare amount when the
\* token has no price.
EthValue(o) ==
    IF Priced(o.sellToken) THEN Value(o.sellAmount, o.sellToken) \div PriceScale ELSE o.sellAmount

\* How far the limit lies off the reference price, then the size.
SortKey(o) ==
    IF ~(Priced(o.sellToken) /\ Priced(o.buyToken)) THEN <<EthValue(o), EthValue(o)>>
    ELSE LET headroom == Value(o.sellAmount, o.sellToken) - Value(o.buyAmount, o.buyToken)
         IN  <<IF headroom > 0 THEN headroom \div PriceScale ELSE 0, EthValue(o)>>

\* Largest key first, the earlier of equals first: each order goes behind
\* those whose keys are no smaller.
Smaller(u, v) ==
    LET key(w) == SortKey(Orders[w])
    IN  \/ key(u)[1] < key(v)[1]
        \/ key(u)[1] = key(v)[1] /\ key(u)[2] < key(v)[2]

Ahead(s, u) == Cardinality({i \in DOMAIN s : ~Smaller(s[i], u)})
RankedUpTo(uids) ==
    LET ranked[n \in 0..Len(uids)] ==
            IF n = 0 THEN <<>>
            ELSE LET before == ranked[n - 1]
                 IN  InsertAt(before, 1 + Ahead(before, uids[n]), uids[n])
    IN  ranked
Ranked(uids) == RankedUpTo(uids)[Len(uids)]

\* The ranked orders that are no ghosts.
Candidates(uids) == Ranked(Only(uids, Uids \ Ghosts))

Top(uids, n) == SubSeq(uids, 1, IF Len(uids) < n THEN Len(uids) ELSE n)

-----------------------------------------------------------------------------
(* External: what a pool pays for amount, and takes for it; 0 for no pool. *)

PoolOut(pools, hop, amount) ==
    IF hop \notin DOMAIN pools THEN 0
    ELSE (amount * pools[hop][2]) \div (pools[hop][1] + amount)

PoolIn(pools, hop, amount) ==
    IF hop \notin DOMAIN pools \/ amount = 0 THEN 0
    ELSE IF amount >= pools[hop][2] THEN 0
    ELSE CeilDiv(pools[hop][1] * amount, pools[hop][2] - amount)

-----------------------------------------------------------------------------
(* Routes. A route is a sequence of hops <<in, out, venue>>.               *)

\* The V3 candidates: each tier direct and, the same tier twice, through each
\* intermediate.
V3Routes(sell, buy) ==
    {<< <<sell, buy, f>> >> : f \in FeeTiers} \cup
    {<< <<sell, m, f>>, <<m, buy, f>> >> : f \in FeeTiers, m \in Intermediates \ {sell, buy}}

RouteOut(pools, route, amount) ==
    IF Len(route) = 1 THEN PoolOut(pools, route[1], amount)
    ELSE PoolOut(pools, route[2], PoolOut(pools, route[1], amount))

RouteIn(pools, route, amount) ==
    IF Len(route) = 1 THEN PoolIn(pools, route[1], amount)
    ELSE PoolIn(pools, route[1], PoolIn(pools, route[2], amount))

Largest(S) == CHOOSE x \in S : \A y \in S : y <= x
Smallest(S) == CHOOSE x \in S : \A y \in S : x <= y

\* One hop at the best tier, or at the best factory that has a pool.
BestV3Quote(pools, a, b, amount) ==
    Largest({0} \cup {PoolOut(pools, <<a, b, f>>, amount) : f \in FeeTiers})

BestV2Quote(pools, a, b, amount) ==
    Largest({0} \cup {PoolOut(pools, <<a, b, f>>, amount) : f \in Factories})

BestHop(pools, a, b, amount) ==
    Largest({BestV3Quote(pools, a, b, amount), BestV2Quote(pools, a, b, amount)})

\* quote_best_path: the best hop, or two best hops one after the other.
BestPath(pools, sell, buy, amount) ==
    Largest({BestHop(pools, sell, buy, amount)} \cup
            {BestHop(pools, m, buy, BestHop(pools, sell, m, amount)) :
                m \in Intermediates \ {sell, buy}})
=============================================================================
