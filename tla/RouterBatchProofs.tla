--------------------------- MODULE RouterBatchProofs ---------------------------
(***************************************************************************)
(* The solution of the router, for every list of orders, every quote of    *)
(* the venues and every bound: one price for each token, and one fill for  *)
(* each order.                                                             *)
(***************************************************************************)
EXTENDS RouterBatch, TLAPS

\* Why no order is filled twice: every trade is on filled_uids, and the first
\* pass has filled only orders that lie behind it.
FilledIsCurrent ==
    /\ \A i \in DOMAIN trades : trades[i].order \in filled
    /\ phase = "v3" => \A n \in filled : n < next

IInv ==
    /\ TypeOK
    /\ PricesRealised
    /\ PricesNeeded
    /\ FilledOnce
    /\ FilledIsCurrent

-----------------------------------------------------------------------------
(* Facts about the orders                                                  *)

\* What is known of the order looked at, whichever it is.
LEMMA OrderFacts ==
    ASSUME NEW n \in DOMAIN Orders
    PROVE  /\ Orders[n] \in Order
           /\ Orders[n].sellToken \in Tokens /\ Orders[n].buyToken \in Tokens
           /\ Orders[n].sellAmount \in Nat \ {0} /\ Orders[n].buyAmount \in Nat \ {0}
           /\ Orders[n].sellToken # Orders[n].buyToken
  <1>1. Orders[n] \in Order
    BY OrdersAssumption
  <1>2. QED  BY <1>1, OrdersAssumption DEF Order

\* The amounts a sell order is quoted for are natural numbers.
LEMMA FractionsAreNat ==
    ASSUME NEW n \in DOMAIN Orders, NEW k \in {1, 2}
    PROVE  Fractions(Orders[n])[k] \in Nat /\ Fractions(Orders[n])[k] \in Int
  <1>1. Orders[n].sellAmount \in Nat
    BY OrderFacts
  <1>2. (3 * Orders[n].sellAmount) \div 4 \in Nat /\ Orders[n].sellAmount \div 2 \in Nat
    BY <1>1
  <1>3. QED  BY <1>2 DEF Fractions

\* Whatever is quoted is quoted as a natural number, for one too.
LEMMA QuotesAreNat ==
    ASSUME NEW n \in DOMAIN Orders, NEW q \in Quotes(Orders[n])
    PROVE  /\ DOMAIN q \subseteq Nat
           /\ \A a \in DOMAIN q : q[a] \in Nat
  <1>1. Amounts(Orders[n]) \subseteq Nat
    BY OrderFacts, FractionsAreNat DEF Amounts
  <1>2. QED  BY <1>1, OrdersAssumption DEF Quotes

-----------------------------------------------------------------------------
(* The two ways in which an order is dealt with                            *)

\* A skipped order leaves everything but the position alone.
LEMMA SkipKeeps ==
    ASSUME IInv, next \in DOMAIN Orders, Skip
    PROVE  IInv'
  <1>1. next' \in 1..(Len(Orders) + 1)
    BY OrdersAssumption DEF Skip
  <1>2. TypeOK'
    BY <1>1 DEF Skip, IInv, TypeOK
  <1>3. PricesRealised' /\ PricesNeeded' /\ FilledOnce'
    BY DEF Skip, IInv, PricesRealised, PricesNeeded, FilledOnce, Known
  <1>4. FilledIsCurrent'
    <2>1. \A n \in filled : n < next => n < next'
      BY OrdersAssumption DEF Skip, IInv, TypeOK
    <2>2. QED  BY <2>1 DEF Skip, IInv, FilledIsCurrent
  <1>5. QED  BY <1>2, <1>3, <1>4 DEF IInv

\* A fill agrees with the prices there are, so it changes none of them, and
\* its order has not been filled before.
LEMMA EmitKeeps ==
    ASSUME IInv, next \in DOMAIN Orders, next \notin filled,
           NEW executed \in Nat, NEW bought \in Nat, NEW sold \in Nat,
           Emit(executed, bought, sold)
    PROVE  IInv'
  <1> DEFINE o == Orders[next]
             t == [order |-> next, executed |-> executed, sold |-> sold,
                   bought |-> bought]
  <1>1. /\ o.sellToken \in Tokens /\ o.buyToken \in Tokens
        /\ o.sellToken # o.buyToken
    BY OrderFacts
  <1>2. /\ Fits(o, bought, sold)
        /\ prices' = [c \in DOMAIN prices \cup {o.sellToken, o.buyToken} |->
                        IF c = o.sellToken THEN bought
                        ELSE IF c = o.buyToken THEN sold ELSE prices[c]]
        /\ trades' = Append(trades, t)
        /\ filled' = filled \cup {next}
        /\ next' = next + 1
        /\ phase' = phase
    BY DEF Emit, Register
  <1>3. t \in Trade /\ trades \in Seq(Trade)
    BY DEF Trade, IInv, TypeOK
  <1>4. /\ DOMAIN trades' = 1..(Len(trades) + 1) /\ DOMAIN trades = 1..Len(trades)
        /\ trades'[Len(trades) + 1] = t
        /\ \A i \in 1..Len(trades) : trades'[i] = trades[i]
        /\ Len(trades) \in Nat
    BY <1>2, <1>3
  <1>5. \A c \in DOMAIN prices : c \in DOMAIN prices' /\ prices'[c] = prices[c]
    BY <1>2 DEF Fits, Known
  <1>6. /\ o.sellToken \in DOMAIN prices' /\ prices'[o.sellToken] = bought
        /\ o.buyToken \in DOMAIN prices' /\ prices'[o.buyToken] = sold
    BY <1>1, <1>2
  <1>7. TypeOK'
    <2>1. next' \in 1..(Len(Orders) + 1) /\ phase' \in {"v3", "v2", "done"}
      BY <1>2, OrdersAssumption DEF IInv, TypeOK
    <2>2. trades' \in Seq(Trade)
      BY <1>2, <1>3
    <2>3. filled' \subseteq DOMAIN Orders
      BY <1>2 DEF IInv, TypeOK
    <2>4. \E known \in SUBSET Tokens : prices' \in [known -> Nat]
      <3>1. PICK known \in SUBSET Tokens : prices \in [known -> Nat]
        BY DEF IInv, TypeOK
      <3>2. prices' \in [known \cup {o.sellToken, o.buyToken} -> Nat]
        BY <1>2, <3>1
      <3>3. known \cup {o.sellToken, o.buyToken} \in SUBSET Tokens
        BY <1>1, <3>1
      <3>4. QED  BY <3>2, <3>3
    <2>5. QED  BY <2>1, <2>2, <2>3, <2>4 DEF TypeOK
  <1>8. PricesRealised'
    <2>1. ASSUME NEW i \in DOMAIN trades'
          PROVE  LET p == Orders[trades'[i].order]
                 IN  /\ p.sellToken \in DOMAIN prices'
                     /\ prices'[p.sellToken] = trades'[i].bought
                     /\ p.buyToken \in DOMAIN prices'
                     /\ prices'[p.buyToken] = trades'[i].sold
      <3>1. CASE i = Len(trades) + 1
        BY <3>1, <1>4, <1>6
      <3>2. CASE i \in 1..Len(trades)
        BY <3>2, <1>4, <1>5 DEF IInv, PricesRealised, Known
      <3>3. QED  BY <3>1, <3>2, <1>4
    <2>2. QED  BY <2>1 DEF PricesRealised, Known
  <1>9. PricesNeeded'
    <2>1. ASSUME NEW c \in Tokens, c \in DOMAIN prices'
          PROVE  \E i \in DOMAIN trades' :
                   c \in {Orders[trades'[i].order].sellToken, Orders[trades'[i].order].buyToken}
      <3>1. CASE c \in {o.sellToken, o.buyToken}
        <4>1. trades'[Len(trades) + 1].order = next /\ Len(trades) + 1 \in DOMAIN trades'
          BY <1>4
        <4>2. QED  BY <3>1, <4>1
      <3>2. CASE c \in DOMAIN prices
        BY <3>2, <1>4 DEF IInv, PricesNeeded, Known
      <3>3. QED  BY <2>1, <3>1, <3>2, <1>2
    <2>2. QED  BY <2>1 DEF PricesNeeded, Known
  <1>10. FilledOnce'
    <2>1. \A i \in 1..Len(trades) : trades[i].order # next
      BY <1>4 DEF IInv, FilledIsCurrent
    <2>2. QED  BY <2>1, <1>4 DEF IInv, FilledOnce
  <1>11. FilledIsCurrent'
    <2>1. \A i \in DOMAIN trades' : trades'[i].order \in filled'
      BY <1>2, <1>4 DEF IInv, FilledIsCurrent
    <2>2. phase' = "v3" => \A n \in filled' : n < next'
      <3>1. next \in Nat /\ filled \subseteq Nat
        BY OrdersAssumption DEF IInv, TypeOK
      <3>2. QED  BY <3>1, <1>2 DEF IInv, FilledIsCurrent
    <2>3. QED  BY <2>1, <2>2 DEF FilledIsCurrent
  <1>12. QED  BY <1>7, <1>8, <1>9, <1>10, <1>11 DEF IInv

-----------------------------------------------------------------------------
(* The invariant                                                           *)

\* Nothing is priced or filled at first.
LEMMA InitEstablishes == Init => IInv
  <1> SUFFICES ASSUME Init PROVE IInv
    OBVIOUS
  <1>1. TypeOK
    <2>1. prices \in [{} -> Nat] /\ {} \in SUBSET Tokens
      BY DEF Init
    <2>2. Len(Orders) \in Nat
      BY OrdersAssumption
    <2>3. QED  BY <2>1, <2>2 DEF Init, TypeOK
  <1>2. PricesRealised /\ PricesNeeded /\ FilledOnce /\ FilledIsCurrent
    BY DEF Init, PricesRealised, PricesNeeded, FilledOnce, FilledIsCurrent, Known
  <1>3. QED  BY <1>1, <1>2 DEF IInv

\* Every step deals with the order looked at, or turns to another phase.
LEMMA NextKeeps == IInv /\ [Next]_vars => IInv'
  <1> SUFFICES ASSUME IInv, [Next]_vars PROVE IInv'
    OBVIOUS
  <1> USE DEF IInv
  <1>1. phase = "v3" => next \notin filled
    BY OrdersAssumption DEF FilledIsCurrent, TypeOK
  <1>2. CASE FillSell
    <2> DEFINE o == Orders[next]
    <2>1. phase = "v3" /\ next \in DOMAIN Orders /\ o.sellAmount \in Nat
      BY <1>2, OrderFacts DEF FillSell
    <2>2. PICK q \in Quotes(o) :
             \/ \E a \in DOMAIN q : Emit(o.sellAmount, q[a], o.sellAmount)
             \/ \E k \in {1, 2} : LET a == Fractions(o)[k]
                                  IN  Fits(o, q[a], a) /\ k \in {1, 2} /\ o.partial
                                      /\ Emit(a, q[a], a)
             \/ Skip
      BY <1>2 DEF FillSell, TakesFraction
    <2>3. CASE \E a \in DOMAIN q : Emit(o.sellAmount, q[a], o.sellAmount)
      BY <2>1, <2>3, <1>1, QuotesAreNat, EmitKeeps
    <2>4. CASE \E k \in {1, 2} : LET a == Fractions(o)[k]
                                 IN  Fits(o, q[a], a) /\ k \in {1, 2} /\ o.partial
                                     /\ Emit(a, q[a], a)
      <3>1. PICK k \in {1, 2} :
               o.partial /\ Emit(Fractions(o)[k], q[Fractions(o)[k]], Fractions(o)[k])
        BY <2>4
      <3>2. Fractions(o)[k] \in Nat
        BY <2>1, FractionsAreNat
      <3>3. Fractions(o)[k] \in DOMAIN q
        BY <3>1, <2>2 DEF Quotes, Amounts
      <3>4. q[Fractions(o)[k]] \in Nat
        BY <3>3, <2>1, QuotesAreNat
      <3>5. QED  BY <3>1, <3>2, <3>4, <2>1, <1>1, EmitKeeps
    <2>5. CASE Skip
      BY <2>1, <2>5, SkipKeeps
    <2>6. QED  BY <2>2, <2>3, <2>4, <2>5
  <1>3. CASE FillBuy
    <2>1. phase = "v3" /\ next \in DOMAIN Orders /\ Orders[next].buyAmount \in Nat
      BY <1>3, OrderFacts DEF FillBuy
    <2>2. PICK amountIn \in 1..MaxOut :
             \/ Emit(Orders[next].buyAmount, Orders[next].buyAmount, amountIn)
             \/ Skip
      BY <1>3 DEF FillBuy
    <2>3. amountIn \in Nat
      BY OrdersAssumption
    <2>4. QED  BY <2>1, <2>2, <2>3, <1>1, EmitKeeps, SkipKeeps
  <1>4. CASE BuyWithoutQuote
    BY <1>4, SkipKeeps DEF BuyWithoutQuote
  <1>5. CASE QuotingFails
    BY <1>5 DEF QuotingFails, TypeOK, PricesRealised, PricesNeeded, FilledOnce,
                FilledIsCurrent, Known
  <1>6. CASE StartFallback
    <2>1. 1 \in 1..(Len(Orders) + 1)
      BY OrdersAssumption
    <2>2. QED  BY <1>6, <2>1 DEF StartFallback, TypeOK, PricesRealised, PricesNeeded,
                                 FilledOnce, FilledIsCurrent, Known
  <1>7. CASE FillFromV2
    <2> DEFINE o == Orders[next]
    <2>1. next \in DOMAIN Orders /\ o.sellAmount \in Nat /\ o.buyAmount \in Nat
      BY <1>7, OrderFacts DEF FillFromV2
    <2>2. \/ /\ next \notin filled
             /\ \E out \in o.buyAmount..MaxOut :
                  Emit(o.sellAmount, out, o.sellAmount)
          \/ /\ next \notin filled
             /\ \E amountIn \in 1..o.sellAmount :
                  Emit(o.buyAmount, o.buyAmount, amountIn)
          \/ Skip
      BY <1>7 DEF FillFromV2
    <2>3. o.buyAmount..MaxOut \subseteq Nat /\ 1..o.sellAmount \subseteq Nat
      BY <2>1, OrdersAssumption
    <2>4. CASE next \notin filled /\ \E out \in o.buyAmount..MaxOut :
                 Emit(o.sellAmount, out, o.sellAmount)
      BY <2>1, <2>3, <2>4, EmitKeeps
    <2>5. CASE next \notin filled /\ \E amountIn \in 1..o.sellAmount :
                 Emit(o.buyAmount, o.buyAmount, amountIn)
      BY <2>1, <2>3, <2>5, EmitKeeps
    <2>6. QED  BY <2>1, <2>2, <2>4, <2>5, SkipKeeps
  <1>8. CASE Finish
    BY <1>8 DEF Finish, TypeOK, PricesRealised, PricesNeeded, FilledOnce,
                FilledIsCurrent, Known
  <1>9. CASE UNCHANGED vars
    BY <1>9 DEF vars, TypeOK, PricesRealised, PricesNeeded, FilledOnce,
                FilledIsCurrent, Known
  <1>10. QED
    BY <1>2, <1>3, <1>4, <1>5, <1>6, <1>7, <1>8, <1>9 DEF Next

\* The inductive invariant, in every state.
THEOREM Invariance == Spec => []IInv
  BY InitEstablishes, NextKeeps, PTL DEF Spec

-----------------------------------------------------------------------------
(* What follows                                                            *)

\* The maps and lists that _solve_v3_batched builds are of their types.
THEOREM TypeCorrect == Spec => []TypeOK
  <1>1. IInv => TypeOK
    BY DEF IInv
  <1>2. QED  BY <1>1, Invariance, PTL

\* CIP-67, as _register_prices guards it: at the prices of the solution every
\* swap of every trade comes out even, however the orders share tokens.
THEOREM OnePriceForEachToken == Spec => []PricesRealised
  <1>1. IInv => PricesRealised
    BY DEF IInv
  <1>2. QED  BY <1>1, Invariance, PTL

\* An order that is turned down, at whatever point, leaves no price behind.
THEOREM NoPriceWithoutTrade == Spec => []PricesNeeded
  <1>1. IInv => PricesNeeded
    BY DEF IInv
  <1>2. QED  BY <1>1, Invariance, PTL

\* No order is filled twice, by one pass or by both.
THEOREM NoOrderIsFilledTwice == Spec => []FilledOnce
  <1>1. IInv => FilledOnce
    BY DEF IInv
  <1>2. QED  BY <1>1, Invariance, PTL
-----------------------------------------------------------------------------
(* Limits                                                                  *)

\* What is known of a trade when it is emitted, and no later step changes: it
\* fills its order in full, at a quote within the limit, or one of the two
\* fractions, at a quote within the fraction's share of the limit.
FillsSell(t) ==
    LET o == Orders[t.order]
    IN  /\ o.kind = "sell"
        /\ t.executed = o.sellAmount /\ t.sold = o.sellAmount
        /\ t.bought >= o.buyAmount
FillsBuy(t) ==
    LET o == Orders[t.order]
    IN  /\ o.kind = "buy"
        /\ t.executed = o.buyAmount /\ t.bought = o.buyAmount
        /\ t.sold <= o.sellAmount
FillsFraction(t, k) ==
    LET o == Orders[t.order]
    IN  /\ o.kind = "sell"
        /\ t.executed = Fractions(o)[k] /\ t.sold = Fractions(o)[k]
        /\ t.bought >= Limits(o)[k]
Quoted(t) == FillsSell(t) \/ FillsBuy(t) \/ \E k \in {1, 2} : FillsFraction(t, k)

TradesAreQuoted == \A i \in DOMAIN trades : Quoted(trades[i])

\* Products of amounts grow with their factors.
LEMMA ProductsGrow ==
    ASSUME NEW a \in Nat, NEW b \in Nat, NEW c \in Nat, a <= b
    PROVE  /\ a * c \in Nat /\ b * c \in Nat /\ c * a \in Nat /\ c * b \in Nat
           /\ a * c <= b * c /\ c * a <= c * b
  <1>1. a * c \in Nat /\ b * c \in Nat /\ c * a \in Nat /\ c * b \in Nat
    OBVIOUS
  <1>2. PICK d \in Nat : b = a + d
    <2>1. b - a \in Nat /\ b = a + (b - a)
      OBVIOUS
    <2>2. QED  BY <2>1
  <1>3. d * c \in Nat /\ b * c = a * c + d * c /\ c * b = c * a + c * d /\ c * d = d * c
    BY <1>2
  <1>4. QED  BY <1>1, <1>3

\* The rounded fraction a of s, and the rounded share l of the limit b: who
\* pays a and gets at least l is less than a unit away from s for b.
LEMMA RoundedShare ==
    ASSUME NEW s \in Nat \ {0}, NEW b \in Nat \ {0}, NEW m \in {2, 3},
           NEW a \in Nat, 4 * a <= m * s,
           NEW l \in Nat, m * b < 4 * (l + 1),
           NEW got \in Nat, l <= got
    PROVE  s * (got + 1) > b * a
  <1>1. m \in Nat /\ s \in Nat /\ b \in Nat /\ m * b \in Nat /\ m * s \in Nat
    OBVIOUS
  <1>2. m * b + 1 <= 4 * (got + 1)
    BY <1>1
  <1>3. (m * b + 1) * s <= (4 * (got + 1)) * s
    BY <1>1, <1>2, ProductsGrow
  <1>4. b * (4 * a) <= b * (m * s)
    BY <1>1, ProductsGrow
  <1>5. /\ (m * b + 1) * s = (b * (m * s)) + s
        /\ (4 * (got + 1)) * s = 4 * (s * (got + 1))
        /\ b * (4 * a) = 4 * (b * a)
    BY <1>1
  <1>6. s * (got + 1) \in Nat /\ b * a \in Nat /\ b * (m * s) \in Nat
    BY <1>1
  <1>7. QED  BY <1>3, <1>4, <1>5, <1>6

\* The rounded fractions and limits of an order.
LEMMA FractionFacts ==
    ASSUME NEW n \in DOMAIN Orders, NEW k \in {1, 2}
    PROVE  LET o == Orders[n]
           IN  /\ Fractions(o)[k] \in Nat /\ Limits(o)[k] \in Nat
               /\ Fractions(o)[k] < o.sellAmount
               /\ \E m \in {2, 3} :
                     /\ 4 * Fractions(o)[k] <= m * o.sellAmount
                     /\ m * o.buyAmount < 4 * (Limits(o)[k] + 1)
  <1> DEFINE s == Orders[n].sellAmount
             b == Orders[n].buyAmount
  <1>1. s \in Nat \ {0} /\ b \in Nat \ {0}
    BY OrderFacts
  <1>2. /\ (3 * s) \div 4 \in Nat /\ (3 * b) \div 4 \in Nat /\ (3 * s) \div 4 < s
        /\ 4 * ((3 * s) \div 4) <= 3 * s /\ 3 * b < 4 * (((3 * b) \div 4) + 1)
    BY <1>1
  <1>3. /\ s \div 2 \in Nat /\ b \div 2 \in Nat /\ s \div 2 < s
        /\ 4 * (s \div 2) <= 2 * s /\ 2 * b < 4 * ((b \div 2) + 1)
    BY <1>1
  <1>4. CASE k = 1
    BY <1>2, <1>4 DEF Fractions, Limits
  <1>5. CASE k = 2
    BY <1>3, <1>5 DEF Fractions, Limits
  <1>6. QED  BY <1>4, <1>5

\* A new trade that is quoted keeps all of them so.
LEMMA EmitQuoted ==
    ASSUME TypeOK, TradesAreQuoted, next \in DOMAIN Orders,
           NEW executed \in Nat, NEW bought \in Nat, NEW sold \in Nat,
           Emit(executed, bought, sold),
           Quoted([order |-> next, executed |-> executed, sold |-> sold, bought |-> bought])
    PROVE  TradesAreQuoted'
  <1> DEFINE t == [order |-> next, executed |-> executed, sold |-> sold, bought |-> bought]
  <1>1. t \in Trade /\ trades \in Seq(Trade) /\ trades' = Append(trades, t)
    BY DEF Trade, TypeOK, Emit
  <1>2. /\ DOMAIN trades' = 1..(Len(trades) + 1) /\ DOMAIN trades = 1..Len(trades)
        /\ trades'[Len(trades) + 1] = t
        /\ \A i \in 1..Len(trades) : trades'[i] = trades[i]
        /\ Len(trades) \in Nat
    BY <1>1
  <1> HIDE DEF t
  <1>3. \A i \in DOMAIN trades' : i \in DOMAIN trades \/ i = Len(trades) + 1
    BY <1>2
  <1>4. \A i \in DOMAIN trades' : Quoted(trades'[i])
    BY <1>2, <1>3 DEF TradesAreQuoted, t
  <1>5. QED  BY <1>4 DEF TradesAreQuoted, Quoted, FillsSell, FillsBuy, FillsFraction

\* Every fill is emitted with a quote that clears its limit.
LEMMA NextQuotes == IInv /\ TradesAreQuoted /\ [Next]_vars => TradesAreQuoted'
  <1> SUFFICES ASSUME IInv, TradesAreQuoted, [Next]_vars PROVE TradesAreQuoted'
    OBVIOUS
  <1> DEFINE o == Orders[next]
  <1>1. TypeOK
    BY DEF IInv
  <1>2. trades' = trades => TradesAreQuoted'
    BY DEF TradesAreQuoted, Quoted, FillsSell, FillsBuy, FillsFraction
  <1>3. CASE FillSell
    <2>1. /\ next \in DOMAIN Orders /\ o.kind = "sell"
          /\ o.sellAmount \in Nat /\ o.buyAmount \in Nat
      BY <1>3, OrderFacts DEF FillSell
    <2>2. PICK q \in Quotes(o) :
             \/ /\ ClearsFull(o, q)
                /\ \E a \in DOMAIN q : IsBest(q, a) /\ Emit(o.sellAmount, q[a], o.sellAmount)
             \/ /\ o.partial
                /\ \E k \in {1, 2} :
                      TakesFraction(o, q, k)
                      /\ Emit(Fractions(o)[k], q[Fractions(o)[k]], Fractions(o)[k])
             \/ Skip
      BY <1>3 DEF FillSell
    <2>3. DOMAIN q \subseteq Nat /\ \A a \in DOMAIN q : q[a] \in Nat
      BY <2>1, <2>2, QuotesAreNat
    <2>4. ASSUME ClearsFull(o, q), NEW a \in DOMAIN q, IsBest(q, a),
                 Emit(o.sellAmount, q[a], o.sellAmount)
          PROVE  TradesAreQuoted'
      <3>1. q[a] >= o.buyAmount /\ q[a] \in Nat
        BY <2>1, <2>3, <2>4 DEF ClearsFull, IsBest
      <3>2. Quoted([order |-> next, executed |-> o.sellAmount, sold |-> o.sellAmount,
                    bought |-> q[a]])
        BY <3>1, <2>1 DEF Quoted, FillsSell
      <3>3. QED  BY <1>1, <2>1, <2>4, <3>1, <3>2, EmitQuoted
    <2>5. ASSUME o.partial, NEW k \in {1, 2}, TakesFraction(o, q, k),
                 Emit(Fractions(o)[k], q[Fractions(o)[k]], Fractions(o)[k])
          PROVE  TradesAreQuoted'
      <3> DEFINE a == Fractions(o)[k]
      <3>1. a \in DOMAIN q
        BY <2>5 DEF Quotes, Amounts
      <3>2. a \in Nat /\ q[a] \in Nat /\ q[a] >= Limits(o)[k]
        BY <2>3, <2>5, <3>1 DEF TakesFraction
      <3>3. Quoted([order |-> next, executed |-> a, sold |-> a, bought |-> q[a]])
        BY <3>2, <2>1 DEF Quoted, FillsFraction
      <3>4. QED  BY <1>1, <2>1, <2>5, <3>2, <3>3, EmitQuoted
    <2>6. CASE Skip
      BY <1>2, <2>6 DEF Skip
    <2>7. QED  BY <2>2, <2>4, <2>5, <2>6
  <1>4. CASE FillBuy
    <2>1. /\ next \in DOMAIN Orders /\ o.kind = "buy"
          /\ o.sellAmount \in Nat /\ o.buyAmount \in Nat
      BY <1>4, OrderFacts DEF FillBuy
    <2>2. PICK amountIn \in 1..MaxOut :
             \/ Affords(o, amountIn) /\ Emit(o.buyAmount, o.buyAmount, amountIn)
             \/ Skip
      BY <1>4 DEF FillBuy
    <2>3. amountIn \in Nat
      BY OrdersAssumption
    <2>4. CASE Affords(o, amountIn) /\ Emit(o.buyAmount, o.buyAmount, amountIn)
      <3>1. Quoted([order |-> next, executed |-> o.buyAmount, sold |-> amountIn,
                    bought |-> o.buyAmount])
        BY <2>1, <2>4 DEF Quoted, FillsBuy, Affords
      <3>2. QED  BY <1>1, <2>1, <2>3, <2>4, <3>1, EmitQuoted
    <2>5. QED  BY <1>2, <2>2, <2>4 DEF Skip
  <1>5. CASE FillFromV2
    <2>1. /\ next \in DOMAIN Orders /\ o.sellAmount \in Nat /\ o.buyAmount \in Nat
      BY <1>5, OrderFacts DEF FillFromV2
    <2>2. \/ o.kind = "sell" /\ \E out \in o.buyAmount..MaxOut :
                                   Emit(o.sellAmount, out, o.sellAmount)
          \/ o.kind = "buy" /\ \E amountIn \in 1..o.sellAmount :
                                  Emit(o.buyAmount, o.buyAmount, amountIn)
          \/ Skip
      BY <1>5 DEF FillFromV2
    <2>3. ASSUME o.kind = "sell", NEW out \in o.buyAmount..MaxOut,
                 Emit(o.sellAmount, out, o.sellAmount)
          PROVE  TradesAreQuoted'
      <3>1. out \in Nat /\ out >= o.buyAmount
        BY <2>1, OrdersAssumption
      <3>2. Quoted([order |-> next, executed |-> o.sellAmount, sold |-> o.sellAmount,
                    bought |-> out])
        BY <2>3, <3>1 DEF Quoted, FillsSell
      <3>3. QED  BY <1>1, <2>1, <2>3, <3>1, <3>2, EmitQuoted
    <2>4. ASSUME o.kind = "buy", NEW amountIn \in 1..o.sellAmount,
                 Emit(o.buyAmount, o.buyAmount, amountIn)
          PROVE  TradesAreQuoted'
      <3>1. amountIn \in Nat /\ amountIn <= o.sellAmount
        BY <2>1
      <3>2. Quoted([order |-> next, executed |-> o.buyAmount, sold |-> amountIn,
                    bought |-> o.buyAmount])
        BY <2>4, <3>1 DEF Quoted, FillsBuy
      <3>3. QED  BY <1>1, <2>1, <2>4, <3>1, <3>2, EmitQuoted
    <2>5. QED  BY <1>2, <2>2, <2>3, <2>4 DEF Skip
  <1>6. QED
    BY <1>2, <1>3, <1>4, <1>5 DEF Next, BuyWithoutQuote, Skip, QuotingFails, StartFallback,
       Finish, vars

\* Every trade of every state was emitted with such a quote.
THEOREM FillsAreQuoted == Spec => []TradesAreQuoted
  <1>1. Init => TradesAreQuoted
    BY DEF Init, TradesAreQuoted
  <1>2. QED  BY <1>1, NextQuotes, Invariance, PTL DEF Spec

\* At the prices of the solution, the quote of a trade is what its order gets.
LEMMA QuotedWithinLimit ==
    ASSUME IInv, TradesAreQuoted, NEW i \in DOMAIN trades
    PROVE  /\ IsFull(trades[i]) => WithinLimit(trades[i])
           /\ LET o == Orders[trades[i].order]
              IN  ~IsFull(trades[i])
                    => o.sellAmount * (trades[i].bought + 1) > o.buyAmount * trades[i].sold
  <1> DEFINE t == trades[i]
             o == Orders[t.order]
  <1>1. t \in Trade
    BY DEF IInv, TypeOK
  <1>2. t.order \in DOMAIN Orders /\ t.sold \in Nat /\ t.bought \in Nat
    BY <1>1 DEF Trade
  <1>3. o.sellAmount \in Nat \ {0} /\ o.buyAmount \in Nat \ {0}
    BY <1>2, OrderFacts
  <1>4. prices[o.sellToken] = t.bought /\ prices[o.buyToken] = t.sold
    BY DEF IInv, PricesRealised
  <1>5. Quoted(t)
    BY DEF TradesAreQuoted
  <1> HIDE DEF t
  <1>6. CASE FillsSell(t)
    <2>1. o.sellAmount * t.bought >= o.sellAmount * o.buyAmount
      BY <1>2, <1>3, <1>6, ProductsGrow DEF FillsSell
    <2>2. o.sellAmount * o.buyAmount = o.buyAmount * t.sold
      BY <1>3, <1>6 DEF FillsSell
    <2>3. IsFull(t)
      BY <1>6 DEF FillsSell, IsFull
    <2>4. QED  BY <1>4, <2>1, <2>2, <2>3 DEF WithinLimit, t
  <1>7. CASE FillsBuy(t)
    <2>1. o.buyAmount * o.sellAmount >= o.buyAmount * t.sold
      BY <1>2, <1>3, <1>7, ProductsGrow DEF FillsBuy
    <2>2. o.sellAmount * t.bought = o.buyAmount * o.sellAmount
      BY <1>3, <1>7 DEF FillsBuy
    <2>3. IsFull(t)
      BY <1>7 DEF FillsBuy, IsFull
    <2>4. QED  BY <1>4, <2>1, <2>2, <2>3 DEF WithinLimit, t
  <1>8. ASSUME NEW k \in {1, 2}, FillsFraction(t, k)
        PROVE  ~IsFull(t) /\ o.sellAmount * (t.bought + 1) > o.buyAmount * t.sold
    <2>1. t.executed = Fractions(o)[k] /\ o.kind = "sell" /\ Fractions(o)[k] < o.sellAmount
      BY <1>2, <1>8, FractionFacts DEF FillsFraction
    <2>2. ~IsFull(t)
      BY <2>1, <1>2, <1>3, FractionFacts DEF IsFull
    <2>3. PICK m \in {2, 3} :
             /\ 4 * Fractions(o)[k] <= m * o.sellAmount
             /\ m * o.buyAmount < 4 * (Limits(o)[k] + 1)
      BY <1>2, FractionFacts
    <2>4. t.sold = Fractions(o)[k] /\ t.bought >= Limits(o)[k] /\ Limits(o)[k] \in Nat
      BY <1>2, <1>8, FractionFacts DEF FillsFraction
    <2>5. o.sellAmount * (t.bought + 1) > o.buyAmount * t.sold
      BY <1>2, <1>3, <2>3, <2>4, RoundedShare
    <2>6. QED  BY <2>2, <2>5
  <1>9. QED  BY <1>5, <1>6, <1>7, <1>8 DEF Quoted, t

\* A complete fill of either pass is within the limit its owner signed, at the
\* clearing prices: the check of GPv2Settlement passes.
THEOREM FullFillsAreWithinLimit == Spec => []FullFillsWithinLimit
  <1>1. IInv /\ TradesAreQuoted => FullFillsWithinLimit
    BY QuotedWithinLimit DEF FullFillsWithinLimit
  <1>2. QED  BY <1>1, Invariance, FillsAreQuoted, PTL

\* A partial fill misses the signed limit by rounding at most, whatever the
\* amounts (the comment at the partial limits of _solve_v3_batched).
THEOREM PartialFillsAreNearLimit == Spec => []PartialFillsNearLimit
  <1>1. IInv /\ TradesAreQuoted => PartialFillsNearLimit
    BY QuotedWithinLimit DEF PartialFillsNearLimit
  <1>2. QED  BY <1>1, Invariance, FillsAreQuoted, PTL

=============================================================================
