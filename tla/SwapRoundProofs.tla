---------------------------- MODULE SwapRoundProofs ----------------------------
(***************************************************************************)
(* For any orders, pools and markets: an answer stays with its call, a     *)
(* plan does what was quoted, and a late settlement costs the slippage at  *)
(* most.                                                                   *)
(***************************************************************************)
EXTENDS SwapRound, FiniteSetTheorems, SequenceTheorems, WellFoundedInduction, TLAPS

-----------------------------------------------------------------------------
(* Recursion over a sequence.                                              *)

\* A set with 0 and with every successor of its members holds every natural
\* number.
LEMMA NatSetInduction ==
    ASSUME NEW S, 0 \in S, \A n \in Nat : n \in S => n + 1 \in S
    PROVE  Nat \subseteq S
  <1> SUFFICES ASSUME Nat \ S # {} PROVE FALSE
    OBVIOUS
  <1> DEFINE Below == OpToRel(<, Nat)
  <1>1. IsWellFoundedOn(Below, Nat)
    BY NatLessThanWellFounded
  <1>2. Below = {p \in Nat \X Nat : p[1] < p[2]}
    BY DEF OpToRel
  <1> HIDE DEF Below
  <1>3. PICK x \in Nat \ S : \A y \in Nat \ S : <<y, x>> \notin Below
    BY <1>1, WFMin
  <1>4. x # 0 /\ x - 1 \in Nat
    OBVIOUS
  <1>5. <<x - 1, x>> \in Below
    BY <1>2, <1>4
  <1>6. x - 1 \in S
    BY <1>3, <1>4, <1>5
  <1>7. QED
    BY <1>4, <1>6

\* The same for the numbers up to a bound.
Inductive(S, m) == 0 \in S /\ \A n \in 1..m : n - 1 \in S => n \in S

\* The same up to a bound.
LEMMA UpToInduction ==
    ASSUME NEW m \in Nat, NEW S, Inductive(S, m)
    PROVE  0..m \subseteq S
  <1> DEFINE T == {n \in Nat : n <= m => n \in S}
  <1>1. 0 \in T
    BY DEF Inductive
  <1>2. ASSUME NEW n \in Nat, n \in T PROVE n + 1 \in T
    <2>1. CASE n + 1 > m
      BY <2>1
    <2>2. CASE n + 1 <= m
      <3>1. n + 1 \in 1..m /\ (n + 1) - 1 = n /\ n \in S
        BY <1>2, <2>2
      <3>2. n + 1 \in S
        BY <3>1 DEF Inductive
      <3>3. QED
        BY <3>2
    <2>3. QED
      BY <2>1, <2>2
  <1>3. Nat \subseteq T
    <2> HIDE DEF T
    <2>1. QED
      BY <1>1, <1>2, NatSetInduction
  <1>4. QED
    BY <1>3

\* A step that stays in D can be taken any number of times.
StepsIn(D, m, step) == step \in [1..m -> [D -> D]]
\* f runs through the steps from base.
IsRun(f, D, m, base, step) ==
    f \in [0..m -> D] /\ f[0] = base /\ \A n \in 1..m : f[n] = step[n][f[n - 1]]

\* The recursive function that CHOOSE picks does so.
LEMMA Recursion ==
    ASSUME NEW m \in Nat, NEW D, NEW base \in D, NEW step, StepsIn(D, m, step)
    PROVE  \E f : IsRun(f, D, m, base, step)
  <1> DEFINE Steps(f, k) == /\ f \in [0..k -> D]
                            /\ f[0] = base
                            /\ \A n \in 1..k : f[n] = step[n][f[n - 1]]
             S == {k \in 0..m : \E f : Steps(f, k)}
  <1>1. 0 \in S
    <2> DEFINE f == [n \in 0..0 |-> base]
    <2>1. Steps(f, 0)
      OBVIOUS
    <2> HIDE DEF Steps, f
    <2>2. QED
      BY <2>1
  <1>2. ASSUME NEW k \in 1..m, k - 1 \in S PROVE k \in S
    <2>1. PICK f : Steps(f, k - 1)
      BY <1>2
    <2> DEFINE g == [n \in 0..k |-> IF n = k THEN step[k][f[k - 1]] ELSE f[n]]
    <2>2. f[k - 1] \in D /\ step[k][f[k - 1]] \in D
      BY <2>1 DEF StepsIn
    <2>3. g \in [0..k -> D]
      <3>1. ASSUME NEW n \in 0..k, n # k PROVE f[n] \in D
        <4>1. n \in 0..(k - 1)
          BY <3>1
        <4>2. QED
          BY <2>1, <4>1
      <3>2. QED
        BY <2>2, <3>1
    <2>4. g[0] = base
      <3>1. g[0] = f[0]
        OBVIOUS
      <3>2. QED
        BY <2>1, <3>1
    <2>5. ASSUME NEW n \in 1..k PROVE g[n] = step[n][g[n - 1]]
      <3>1. g[n - 1] = f[n - 1]
        OBVIOUS
      <3>2. CASE n = k
        <4>1. g[k] = step[k][f[k - 1]]
          OBVIOUS
        <4>2. QED
          <5> HIDE DEF g
          <5>1. QED
            BY <3>1, <3>2, <4>1
      <3>3. CASE n # k
        <4>1. n \in 1..(k - 1) /\ g[n] = f[n]
          BY <3>3
        <4>2. QED
          BY <2>1, <3>1, <4>1
      <3>4. QED
        BY <3>2, <3>3
    <2> HIDE DEF g
    <2>6. Steps(g, k)
      BY <2>3, <2>4, <2>5
    <2>7. QED
      BY <2>6
  <1>3. m \in S
    <2> HIDE DEF S
    <2>1. Inductive(S, m)
      BY <1>1, <1>2 DEF Inductive
    <2>2. m \in 0..m
      OBVIOUS
    <2>3. QED
      BY <2>1, <2>2, UpToInduction
  <1>4. PICK f : Steps(f, m)
    BY <1>3
  <1>5. QED
    BY <1>4 DEF IsRun

\* A run that stays in D never leaves it.
Stays(f, m, D) == f[0] \in D /\ \A n \in 1..m : f[n - 1] \in D => f[n] \in D

\* What every step keeps holds at the end.
LEMMA StaysIn ==
    ASSUME NEW m \in Nat, NEW D, NEW f, Stays(f, m, D)
    PROVE  \A n \in 0..m : f[n] \in D
  <1> DEFINE S == {n \in 0..m : f[n] \in D}
  <1>1. Inductive(S, m)
    <2>1. 0 \in S
      BY DEF Stays
    <2>2. ASSUME NEW n \in 1..m, n - 1 \in S PROVE n \in S
      BY <2>2 DEF Stays
    <2>3. QED
      BY <2>1, <2>2 DEF Inductive
  <1>2. 0..m \subseteq S
    <2> HIDE DEF S
    <2>1. QED
      BY <1>1, UpToInduction
  <1>3. QED
    BY <1>2

-----------------------------------------------------------------------------
(* Sequences.                                                              *)

\* Sequences put one behind the other.
LEMMA FlattenIn ==
    ASSUME NEW D, NEW seqs \in Seq(Seq(D))
    PROVE  FlattenSeq(seqs) \in Seq(D)
  <1> DEFINE m == Len(seqs)
             Grow(g) == [i \in 1..m |-> IF i = 1 THEN seqs[i] ELSE g[i - 1] \o seqs[i]]
             flatten == CHOOSE g : g = Grow(g)
  <1>1. m \in Nat /\ DOMAIN seqs = 1..m /\ \A i \in 1..m : seqs[i] \in Seq(D)
    OBVIOUS
  <1>2. CASE m = 0
    BY <1>2 DEF FlattenSeq
  <1>3. CASE m # 0
    <2> DEFINE step == [n \in 1..m |-> [x \in Seq(D) |-> x \o seqs[n]]]
    <2>1. StepsIn(Seq(D), m, step)
      BY <1>1 DEF StepsIn
    <2>2. <<>> \in Seq(D)
      OBVIOUS
    <2> HIDE DEF m
    <2>3. PICK f : IsRun(f, Seq(D), m, <<>>, step)
      <3> HIDE DEF step
      <3>1. QED
        BY <1>1, <2>1, <2>2, Recursion
    <2>4. f \in [0..m -> Seq(D)] /\ f[0] = <<>>
      BY <2>3 DEF IsRun
    <2>5. ASSUME NEW n \in 1..m PROVE f[n] = f[n - 1] \o seqs[n]
      <3>1. f[n - 1] \in Seq(D)
        BY <1>1, <2>4
      <3>2. f[n] = step[n][f[n - 1]]
        BY <2>3 DEF IsRun
      <3>3. QED
        BY <3>1, <3>2
    <2> HIDE DEF step
    <2> DEFINE g == [i \in 1..m |-> f[i]]
    <2>6. g = Grow(g)
      <3>1. ASSUME NEW i \in 1..m
            PROVE  f[i] = IF i = 1 THEN seqs[i] ELSE g[i - 1] \o seqs[i]
        <4>1. CASE i = 1
          <5>1. 1 \in 1..m /\ 1 - 1 = 0
            BY <1>1, <1>3
          <5>2. f[1] = f[1 - 1] \o seqs[1]
            BY <2>5, <5>1
          <5>3. f[1] = <<>> \o seqs[1] /\ seqs[1] \in Seq(D)
            BY <1>1, <2>4, <5>1, <5>2
          <5>4. QED
            BY <4>1, <5>3
        <4>2. CASE i # 1
          <5>1. i - 1 \in 1..m /\ g[i - 1] = f[i - 1]
            BY <1>1, <4>2
          <5>2. QED
            BY <2>5, <4>2, <5>1
        <4>3. QED
          BY <4>1, <4>2
      <3>2. QED
        BY <3>1
    <2>7. flatten = Grow(flatten)
      <3> HIDE DEF g, Grow
      <3>1. QED
        BY <2>6
    <2>8. Stays([n \in 0..m |-> IF n = 0 THEN <<>> ELSE flatten[n]], m, Seq(D))
      <3> HIDE DEF flatten
      <3>1. ASSUME NEW n \in 1..m, n = 1 \/ flatten[n - 1] \in Seq(D)
            PROVE  flatten[n] \in Seq(D)
        <4>1. flatten[n] = IF n = 1 THEN seqs[n] ELSE flatten[n - 1] \o seqs[n]
          BY <2>7
        <4>2. QED
          BY <1>1, <3>1, <4>1
      <3>2. ASSUME NEW n \in 1..m,
                   (IF n - 1 = 0 THEN <<>> ELSE flatten[n - 1]) \in Seq(D)
            PROVE  flatten[n] \in Seq(D)
        BY <3>1, <3>2
      <3>3. QED
        BY <1>1, <3>2 DEF Stays
    <2>9. flatten[m] \in Seq(D)
      <3> HIDE DEF flatten
      <3> DEFINE h == [n \in 0..m |-> IF n = 0 THEN <<>> ELSE flatten[n]]
      <3>1. h[m] \in Seq(D)
        <4> HIDE DEF h
        <4>1. QED
          BY <1>1, <2>8, StaysIn DEF h
      <3>2. h[m] = flatten[m]
        BY <1>1, <1>3
      <3>3. QED
        BY <3>1, <3>2
    <2>10. FlattenSeq(seqs) = flatten[m]
      BY <1>3 DEF FlattenSeq, m
    <2>11. QED
      BY <2>9, <2>10
  <1>4. QED
    BY <1>2, <1>3

\* A finite set put in a sequence.
LEMMA SetToSeqIn ==
    ASSUME NEW S, IsFiniteSet(S)
    PROVE  SetToSeq(S) \in Seq(S)
  <1> DEFINE n == Cardinality(S)
  <1>1. n \in Nat /\ ExistsBijection(1..n, S)
    BY FS_CardinalityType
  <1>2. PICK g \in Bijection(1..n, S) : TRUE
    BY <1>1 DEF ExistsBijection
  <1>3. g \in [1..n -> S] /\ IsInjective(g)
    BY <1>2 DEF Bijection, Injection, IsInjective
  <1>4. SetToSeq(S) \in [1..n -> S]
    BY <1>3 DEF SetToSeq
  <1>5. QED
    BY <1>1, <1>4

-----------------------------------------------------------------------------
(* Candidate paths.                                                        *)

\* What an order may be asked about: all that it buys, or some of what it sells.
AmountsOf(o) == IF o.kind = "buy" THEN {o.buyAmount} ELSE 0..o.sellAmount

Ends(o) == {o.sellToken, o.buyToken}
Coins(p) == {x \in (DOMAIN CurvePools[p]) \X (DOMAIN CurvePools[p]) : x[1] # x[2]}

\* The shapes of the candidates of an order.
V3Shapes(o) ==
    {V3Path(o, x[1], x[2], x[3], x[4]) : x \in AmountsOf(o) \X Nat \X (Tokens \cup {Direct}) \X Nat}

V4Path(o, a, f, native) ==
    [venue |-> "v4", tokenIn |-> o.sellToken, tokenOut |-> o.buyToken, fee |-> f,
     native |-> native, exactOut |-> FALSE, amount |-> a]
V4Shapes(o) ==
    {V4Path(o, x[1], x[2], x[3]) : x \in AmountsOf(o) \X Nat \X BOOLEAN}

CurvePath(o, a, p, coins) ==
    [venue |-> "curve", tokenIn |-> o.sellToken, tokenOut |-> o.buyToken,
     pool |-> p, i |-> coins[1], j |-> coins[2], exactOut |-> FALSE, amount |-> a]
CurveShape(o, p) == {CurvePath(o, x[1], p, x[2]) : x \in AmountsOf(o) \X Coins(p)}
CurveShapes(o) == UNION {CurveShape(o, p) : p \in DOMAIN CurvePools}

Via(o, tokens) ==
    [venue |-> "v2", tokenIn |-> o.sellToken, tokenOut |-> o.buyToken,
     path |-> tokens, exactOut |-> o.kind = "buy", amount |-> Amounts(o)[1]]
V2Shapes(o) ==
    {Via(o, <<o.sellToken, o.buyToken>>)}
    \cup {Via(o, <<o.sellToken, t, o.buyToken>>) : t \in Tokens \ Ends(o)}

\* Only V3 is asked what a purchase costs.
Shapes(o) ==
    V3Shapes(o) \cup (IF o.kind = "buy" THEN {} ELSE V4Shapes(o) \cup CurveShapes(o))

\* Orders as the assumption has them.
LEMMA RequestFacts ==
    ASSUME NEW o \in Requests
    PROVE  /\ o.kind \in {"sell", "buy"} /\ o.sellToken \in Tokens /\ o.buyToken \in Tokens
           /\ o.sellToken # o.buyToken
           /\ o.sellAmount \in Nat \ {0} /\ o.buyAmount \in Nat \ {0}
           /\ o.partial \in BOOLEAN
  BY RoundAssumption DEF SwapOrder

\* The whole amount comes first, and fractions are of a sell.
LEMMA AmountsIn ==
    ASSUME NEW o \in Requests
    PROVE  /\ Amounts(o) \in Seq(AmountsOf(o))
           /\ Amounts(o)[1] = IF o.kind = "buy" THEN o.buyAmount ELSE o.sellAmount
           /\ Amounts(o)[1] \in AmountsOf(o)
  <1>1. o.sellAmount \in Nat /\ o.buyAmount \in Nat
    BY RequestFacts
  <1>2. CASE o.kind = "buy"
    BY <1>1, <1>2 DEF Amounts, AmountsOf
  <1>3. CASE o.kind # "buy"
    <2> DEFINE half == o.sellAmount \div 2
               more == (3 * o.sellAmount) \div 4
               rest == IF o.partial THEN <<more, half>> ELSE <<>>
    <2>1. half \in 0..o.sellAmount /\ more \in 0..o.sellAmount /\ o.sellAmount \in 0..o.sellAmount
      BY <1>1
    <2> HIDE DEF half, more
    <2>2. rest \in Seq(0..o.sellAmount) /\ <<o.sellAmount>> \in Seq(0..o.sellAmount)
      <3>1. \A A : \A x, y \in A : <<x, y>> \in Seq(A) /\ <<x>> \in Seq(A) /\ <<>> \in Seq(A)
        OBVIOUS
      <3>2. <<more, half>> \in Seq(0..o.sellAmount) /\ <<o.sellAmount>> \in Seq(0..o.sellAmount)
            /\ <<>> \in Seq(0..o.sellAmount)
        BY <2>1, <3>1
      <3>3. QED
        BY <3>2
    <2>3. AmountsOf(o) = 0..o.sellAmount
      BY <1>3 DEF AmountsOf
    <2>4. Amounts(o) = <<o.sellAmount>> \o rest
      BY <1>3 DEF Amounts, Fractions, half, more
    <2> HIDE DEF rest
    <2>5. <<o.sellAmount>> \o rest \in Seq(0..o.sellAmount)
          /\ (<<o.sellAmount>> \o rest)[1] = o.sellAmount
      BY <2>2
    <2>6. QED
      BY <1>3, <2>1, <2>3, <2>4, <2>5
  <1>4. QED
    BY <1>2, <1>3

\* An intermediate is a token that is neither end.
LEMMA MidsIn ==
    ASSUME NEW o
    PROVE  Mids(o) \in Seq(Tokens \ Ends(o))
  <1> DEFINE D == Seq(Tokens \ Ends(o))
             m == Len(Intermediates)
             Grow(g) == [n \in 0..m |->
                           IF n = 0 THEN <<>>
                           ELSE IF Intermediates[n] \in {o.sellToken, o.buyToken} THEN g[n - 1]
                           ELSE Append(g[n - 1], Intermediates[n])]
             others == CHOOSE g : g = Grow(g)
             step == [n \in 1..m |-> [x \in D |-> IF Intermediates[n] \in Ends(o) THEN x
                                                  ELSE Append(x, Intermediates[n])]]
  <1>1. m \in Nat /\ \A n \in 1..m : Intermediates[n] \in Tokens
    BY VenueAssumption
  <1>2. StepsIn(D, m, step)
    <2>1. ASSUME NEW n \in 1..m, NEW x \in D, Intermediates[n] \notin Ends(o)
          PROVE  Append(x, Intermediates[n]) \in D
      <3>1. Intermediates[n] \in Tokens \ Ends(o)
        BY <1>1, <2>1
      <3>2. QED
        BY <3>1
    <2>2. QED
      BY <2>1 DEF StepsIn
  <1>3. <<>> \in D
    OBVIOUS
  <1> HIDE DEF m
  <1>4. PICK f : IsRun(f, D, m, <<>>, step)
    <2> HIDE DEF step, D
    <2>1. QED
      BY <1>1, <1>2, <1>3, Recursion
  <1>5. f \in [0..m -> D] /\ f[0] = <<>>
    BY <1>4 DEF IsRun
  <1>6. ASSUME NEW n \in 1..m
        PROVE  f[n] = IF Intermediates[n] \in Ends(o) THEN f[n - 1]
                      ELSE Append(f[n - 1], Intermediates[n])
    <2>1. f[n - 1] \in D
      BY <1>1, <1>5
    <2>2. f[n] = step[n][f[n - 1]]
      BY <1>4 DEF IsRun
    <2>3. QED
      BY <2>1, <2>2
  <1> HIDE DEF step
  <1>7. f = Grow(f)
    <2>1. f = [n \in 0..m |-> f[n]]
      BY <1>5
    <2>2. ASSUME NEW n \in 0..m
          PROVE  f[n] = IF n = 0 THEN <<>>
                        ELSE IF Intermediates[n] \in {o.sellToken, o.buyToken} THEN f[n - 1]
                        ELSE Append(f[n - 1], Intermediates[n])
      <3>1. n # 0 => n \in 1..m
        BY <1>1
      <3>2. QED
        BY <1>5, <1>6, <3>1 DEF Ends
    <2>3. QED
      BY <2>1, <2>2
  <1>8. others = Grow(others)
    <2> HIDE DEF Grow
    <2>1. QED
      BY <1>7
  <1>9. Stays(others, m, D)
    <2> HIDE DEF others
    <2>1. others[0] = <<>>
      BY <1>1, <1>8
    <2> HIDE DEF D
    <2>2. ASSUME NEW n \in 1..m, others[n - 1] \in D PROVE others[n] \in D
      <3>1. n \in 0..m /\ n # 0
        BY <1>1
      <3>2. others[n] = IF Intermediates[n] \in {o.sellToken, o.buyToken} THEN others[n - 1]
                        ELSE Append(others[n - 1], Intermediates[n])
        BY <1>8, <3>1
      <3>3. CASE Intermediates[n] \in Ends(o)
        BY <2>2, <3>2, <3>3 DEF Ends
      <3>4. CASE Intermediates[n] \notin Ends(o)
        <4>1. Intermediates[n] \in Tokens \ Ends(o)
          BY <1>1, <3>4
        <4>2. Append(others[n - 1], Intermediates[n]) \in D
          BY <2>2, <4>1 DEF D
        <4>3. QED
          BY <3>2, <3>4, <4>2 DEF Ends
      <3>5. QED
        BY <3>3, <3>4
    <2>3. QED
      BY <1>3, <2>1, <2>2 DEF Stays
  <1>10. others[m] \in D
    <2> HIDE DEF others, D
    <2>1. m \in 0..m
      BY <1>1
    <2>2. QED
      BY <1>1, <1>9, <2>1, StaysIn
  <1>11. QED
    BY <1>10 DEF Mids, m

\* A path of the right parts has its shape.
LEMMA V3PathIn ==
    ASSUME NEW o \in Requests, NEW a \in AmountsOf(o), NEW f \in Nat,
           NEW m \in Tokens \cup {Direct}, NEW g \in Nat
    PROVE  V3Path(o, a, f, m, g) \in V3Shapes(o)
  <1>1. <<a, f, m, g>> \in AmountsOf(o) \X Nat \X (Tokens \cup {Direct}) \X Nat
    OBVIOUS
  <1>2. QED
    BY <1>1 DEF V3Shapes

\* A configured fee tier is a number.
LEMMA TierIn ==
    ASSUME NEW i \in DOMAIN FeeTiers
    PROVE  FeeTiers[i] \in Nat
  BY VenueAssumption

\* A path for each tier is a sequence of paths.
LEMMA TiersIn ==
    ASSUME NEW D, NEW s, DOMAIN s = DOMAIN FeeTiers, s = [i \in DOMAIN s |-> s[i]],
           \A i \in DOMAIN FeeTiers : s[i] \in D
    PROVE  s \in Seq(D)
  <1>1. Len(FeeTiers) \in Nat /\ DOMAIN FeeTiers = 1..Len(FeeTiers)
    BY VenueAssumption
  <1>2. QED
    BY <1>1

\* The direct V3 candidates of an amount are V3 paths of the order.
LEMMA DirectsIn ==
    ASSUME NEW o \in Requests, NEW a \in AmountsOf(o)
    PROVE  Directs(o, a) \in Seq(V3Shapes(o))
  <1>1. ASSUME NEW i \in DOMAIN FeeTiers
        PROVE  V3Path(o, a, FeeTiers[i], Direct, 0) \in V3Shapes(o)
    BY TierIn, V3PathIn
  <1>2. QED
    BY <1>1, TiersIn DEF Directs

\* The candidates of the router and of the V3 source.
LEMMA RouterPathsIn ==
    ASSUME NEW o \in Requests
    PROVE  RouterPaths(o) \in Seq(V3Shapes(o))
  <1> DEFINE through(amount, mid) ==
               [i \in DOMAIN FeeTiers |-> V3Path(o, amount, FeeTiers[i], mid, FeeTiers[i])]
             mids == Mids(o)
             hops(amount) == [m \in DOMAIN mids |-> through(amount, mids[m])]
             found(amount) == Directs(o, amount) \o FlattenSeq(hops(amount))
             all == [a \in DOMAIN Amounts(o) |-> found(Amounts(o)[a])]
             S == V3Shapes(o)
  <1>1. ASSUME NEW a \in AmountsOf(o) PROVE found(a) \in Seq(S)
    <2>1. mids \in Seq(Tokens \ Ends(o))
      BY MidsIn
    <2>2. ASSUME NEW m \in DOMAIN mids PROVE through(a, mids[m]) \in Seq(S)
      <3>1. mids[m] \in Tokens
        BY <2>1
      <3>2. ASSUME NEW i \in DOMAIN FeeTiers
            PROVE  V3Path(o, a, FeeTiers[i], mids[m], FeeTiers[i]) \in S
        BY <3>1, TierIn, V3PathIn
      <3>3. QED
        BY <3>2, TiersIn
    <2> HIDE DEF through, mids, S
    <2>3. hops(a) \in Seq(Seq(S))
      BY <2>1, <2>2
    <2>4. FlattenSeq(hops(a)) \in Seq(S)
      BY <2>3, FlattenIn
    <2>5. Directs(o, a) \in Seq(S)
      BY DirectsIn DEF S
    <2>6. QED
      BY <2>4, <2>5
  <1>2. all \in Seq(Seq(S))
    <2>1. Amounts(o) \in Seq(AmountsOf(o))
      BY AmountsIn
    <2> HIDE DEF found, S
    <2>2. QED
      BY <1>1, <2>1
  <1>3. FlattenSeq(all) \in Seq(S)
    <2> HIDE DEF all, S
    <2>1. QED
      BY <1>2, FlattenIn
  <1>4. RouterPaths(o) = FlattenSeq(all)
    BY DEF RouterPaths
  <1>5. QED
    BY <1>3, <1>4

\* So are the candidates of the aggregator's V3 source.
LEMMA SourcePathsIn ==
    ASSUME NEW o \in Requests
    PROVE  SourcePaths(o) \in Seq(V3Shapes(o))
  <1> DEFINE amount == Amounts(o)[1]
             through(mid, i) ==
               [j \in DOMAIN FeeTiers |-> V3Path(o, amount, FeeTiers[i], mid, FeeTiers[j])]
             mids == Mids(o)
             tiers(mid) == [i \in DOMAIN FeeTiers |-> through(mid, i)]
             hops == [m \in DOMAIN mids |-> FlattenSeq(tiers(mids[m]))]
             S == V3Shapes(o)
  <1>1. amount \in AmountsOf(o)
    BY AmountsIn
  <1>2. mids \in Seq(Tokens \ Ends(o))
    BY MidsIn
  <1>3. Directs(o, amount) \in Seq(S)
    BY <1>1, DirectsIn
  <1> HIDE DEF amount, mids
  <1>4. ASSUME NEW mid \in Tokens PROVE FlattenSeq(tiers(mid)) \in Seq(S)
    <2>1. ASSUME NEW i \in DOMAIN FeeTiers PROVE through(mid, i) \in Seq(S)
      <3>1. ASSUME NEW j \in DOMAIN FeeTiers
            PROVE  V3Path(o, amount, FeeTiers[i], mid, FeeTiers[j]) \in S
        BY <1>1, TierIn, V3PathIn
      <3>2. QED
        BY <3>1, TiersIn
    <2> HIDE DEF through, S
    <2>2. tiers(mid) \in Seq(Seq(S))
      BY <2>1, TiersIn
    <2> HIDE DEF tiers
    <2>3. QED
      BY <2>2, FlattenIn
  <1> HIDE DEF tiers, S
  <1>5. hops \in Seq(Seq(S))
    BY <1>2, <1>4
  <1> HIDE DEF hops
  <1>6. Directs(o, amount) \o FlattenSeq(hops) \in Seq(S)
    BY <1>3, <1>5, FlattenIn
  <1>7. SourcePaths(o) = Directs(o, amount) \o FlattenSeq(hops)
    BY DEF SourcePaths, hops, tiers, mids, amount
  <1>8. QED
    BY <1>6, <1>7 DEF S

\* V4 pools, native ones included.
LEMMA V4TiersIn ==
    ASSUME NEW o \in Requests, NEW a \in AmountsOf(o), NEW native \in BOOLEAN
    PROVE  V4Tiers(o, a, native) \in Seq(V4Shapes(o))
  <1>1. ASSUME NEW i \in DOMAIN FeeTiers
        PROVE  V4Tiers(o, a, native)[i] \in V4Shapes(o)
    <2>1. <<a, FeeTiers[i], native>> \in AmountsOf(o) \X Nat \X BOOLEAN
      BY TierIn
    <2>2. V4Path(o, a, FeeTiers[i], native) \in V4Shapes(o)
      BY <2>1, Zenon DEF V4Shapes
    <2>3. V4Tiers(o, a, native)[i] = V4Path(o, a, FeeTiers[i], native)
      BY DEF V4Tiers, V4Path
    <2>4. QED
      BY <2>2, <2>3
  <1>2. DOMAIN V4Tiers(o, a, native) = DOMAIN FeeTiers
        /\ V4Tiers(o, a, native) = [i \in DOMAIN V4Tiers(o, a, native) |-> V4Tiers(o, a, native)[i]]
    BY DEF V4Tiers
  <1>3. QED
    BY <1>1, <1>2, TiersIn

\* The V4 candidates, with and without the native probe, are V4 paths of the
\* order.
LEMMA V4PathsIn ==
    ASSUME NEW o \in Requests, o.kind # "buy"
    PROVE  V4Paths(o) \o NativePaths(o) \in Seq(V4Shapes(o))
  <1> DEFINE S == V4Shapes(o)
             tiers(a) == V4Tiers(o, a, FALSE)
             probes == V4Tiers(o, o.sellAmount, TRUE)
             all == [a \in DOMAIN Amounts(o) |-> tiers(Amounts(o)[a])]
  <1>1. ASSUME NEW a \in AmountsOf(o) PROVE tiers(a) \in Seq(S)
    BY V4TiersIn, Zenon
  <1>2. o.sellAmount \in AmountsOf(o)
    BY RequestFacts DEF AmountsOf
  <1>3. probes \in Seq(S)
    BY <1>2, V4TiersIn, Zenon
  <1>4. V4Paths(o) = FlattenSeq(all)
    BY DEF V4Paths
  <1>5. NativePaths(o) = IF (o.sellToken = Weth) = (o.buyToken = Weth) THEN <<>> ELSE probes
    BY DEF NativePaths, NativeTiers
  <1>6. Amounts(o) \in Seq(AmountsOf(o))
    BY AmountsIn
  <1> HIDE DEF S, tiers, probes
  <1>7. all \in Seq(Seq(S))
    BY <1>1, <1>6
  <1>8. FlattenSeq(all) \in Seq(S)
    <2> HIDE DEF all
    <2>1. QED
      BY <1>7, FlattenIn
  <1>9. NativePaths(o) \in Seq(S)
    BY <1>3, <1>5
  <1>10. QED
    BY <1>4, <1>8, <1>9 DEF S

\* Curve pools that hold both tokens, each in its place.
LEMMA CurvePathsIn ==
    ASSUME NEW o \in Requests, o.kind # "buy"
    PROVE  CurvePaths(o) \in Seq(CurveShapes(o))
  <1> DEFINE holding == {p \in DOMAIN CurvePools :
                           {o.sellToken, o.buyToken} \subseteq ToSet(CurvePools[p])}
             path(p, a) == [venue |-> "curve", tokenIn |-> o.sellToken, tokenOut |-> o.buyToken,
                            pool |-> p, i |-> CoinIndex(p, o.sellToken),
                            j |-> CoinIndex(p, o.buyToken), exactOut |-> FALSE, amount |-> a]
             all == [a \in DOMAIN Amounts(o) |-> MakeCurvePaths(o, Amounts(o)[a])]
  <1>1. IsFiniteSet(holding)
    BY VenueAssumption, FS_Subset
  <1>2. ASSUME NEW a \in AmountsOf(o), NEW p \in holding PROVE path(p, a) \in CurveShapes(o)
    <2> DEFINE i == CoinIndex(p, o.sellToken)
               j == CoinIndex(p, o.buyToken)
    <2>1. \E n \in DOMAIN CurvePools[p] : CurvePools[p][n] = o.sellToken
      BY DEF ToSet
    <2>2. \E n \in DOMAIN CurvePools[p] : CurvePools[p][n] = o.buyToken
      BY DEF ToSet
    <2>3. i \in DOMAIN CurvePools[p] /\ CurvePools[p][i] = o.sellToken
      BY <2>1 DEF CoinIndex
    <2>4. j \in DOMAIN CurvePools[p] /\ CurvePools[p][j] = o.buyToken
      BY <2>2 DEF CoinIndex
    <2> HIDE DEF i, j
    <2>5. <<a, <<i, j>> >> \in AmountsOf(o) \X Coins(p)
      BY <2>3, <2>4, RequestFacts DEF Coins
    <2>6. CurvePath(o, a, p, <<i, j>>) \in CurveShape(o, p)
      <3> DEFINE x == <<a, <<i, j>> >>
      <3>1. x[1] = a /\ x[2] = <<i, j>> /\ x \in AmountsOf(o) \X Coins(p)
        BY <2>5
      <3> HIDE DEF x
      <3>2. CurvePath(o, x[1], p, x[2]) \in CurveShape(o, p)
        BY <3>1 DEF CurveShape
      <3>3. QED
        BY <3>1, <3>2
    <2>7. path(p, a) = CurvePath(o, a, p, <<i, j>>)
      BY DEF CurvePath, i, j
    <2>8. QED
      BY <2>6, <2>7 DEF CurveShapes
  <1>3. ASSUME NEW a \in AmountsOf(o) PROVE MakeCurvePaths(o, a) \in Seq(CurveShapes(o))
    <2> DEFINE S == {path(p, a) : p \in holding}
    <2>1. S \subseteq CurveShapes(o)
      BY <1>2
    <2>2. IsFiniteSet(S)
      <3> HIDE DEF holding
      <3> DEFINE f == [p \in holding |-> path(p, a)]
      <3>1. f \in Surjection(holding, S)
        BY DEF Surjection
      <3>2. QED
        BY <1>1, <3>1, FS_Surjection
    <2>3. MakeCurvePaths(o, a) = SetToSeq(S)
      BY DEF MakeCurvePaths
    <2> HIDE DEF S
    <2>4. SetToSeq(S) \in Seq(S)
      BY <2>2, SetToSeqIn
    <2>5. QED
      BY <2>1, <2>3, <2>4
  <1>4. all \in Seq(Seq(CurveShapes(o)))
    <2>1. Amounts(o) \in Seq(AmountsOf(o))
      BY AmountsIn
    <2>2. ASSUME NEW a \in DOMAIN Amounts(o)
          PROVE  MakeCurvePaths(o, Amounts(o)[a]) \in Seq(CurveShapes(o))
      <3>1. Amounts(o)[a] \in AmountsOf(o)
        BY <2>1
      <3>2. QED
        BY <1>3, <3>1
    <2>3. QED
      BY <2>1, <2>2
  <1>5. FlattenSeq(all) \in Seq(CurveShapes(o))
    <2> HIDE DEF all
    <2>1. QED
      BY <1>4, FlattenIn
  <1>6. QED
    BY <1>5 DEF CurvePaths

\* What a venue may be asked: all candidates have their shapes.
VenueShapes(o, v) ==
    CASE v = "v3" -> V3Shapes(o)
      [] v = "v4" -> IF o.kind = "buy" THEN {} ELSE V4Shapes(o)
      [] v = "curve" -> IF o.kind = "buy" THEN {} ELSE CurveShapes(o)

\* Each venue is asked for paths of its own kind, by the router and by the
\* aggregator, and the aggregator asks V3 alone.
LEMMA CandidatesIn ==
    ASSUME NEW o \in Requests, NEW v \in Venues
    PROVE  /\ RouterCandidates(o)[v] \in Seq(VenueShapes(o, v))
           /\ SourceCandidates(o)[v] \in Seq(VenueShapes(o, v))
           /\ v # "v3" => SourceCandidates(o)[v] = <<>>
  <1>1. CASE v = "v3"
    BY <1>1, RouterPathsIn, SourcePathsIn DEF RouterCandidates, SourceCandidates, VenueShapes
  <1>2. CASE v = "v4"
    <2>1. CASE o.kind = "buy"
      <3>1. V4Paths(o) \o NativePaths(o) = <<>>
        BY <2>1 DEF V4Paths, NativePaths
      <3>2. QED
        BY <1>2, <3>1 DEF RouterCandidates, SourceCandidates
    <2>2. CASE o.kind # "buy"
      BY <1>2, <2>2, V4PathsIn DEF RouterCandidates, SourceCandidates, VenueShapes
    <2>3. QED
      BY <2>1, <2>2
  <1>3. CASE v = "curve"
    <2>1. CASE o.kind = "buy"
      BY <1>3, <2>1 DEF RouterCandidates, SourceCandidates, CurvePaths
    <2>2. CASE o.kind # "buy"
      BY <1>3, <2>2, CurvePathsIn DEF RouterCandidates, SourceCandidates, VenueShapes
    <2>3. QED
      BY <2>1, <2>2
  <1>4. QED
    BY <1>1, <1>2, <1>3 DEF Venues

-----------------------------------------------------------------------------
(* Answers.                                                                *)

\* What a pool pays, and what it costs.
LEMMA YieldIs ==
    ASSUME NEW a \in Nat, NEW b \in Nat, NEW r \in Nat, a <= b
    PROVE  Yield(a, r) \in Nat /\ Yield(b, r) \in Nat /\ Yield(a, r) <= Yield(b, r)
  <1>1. a * r \in Nat /\ b * r \in Nat /\ a * r <= b * r
    OBVIOUS
  <1>2. QED
    BY <1>1 DEF Yield

\* What an exact output costs is an amount.
LEMMA CostIs ==
    ASSUME NEW a \in Nat, NEW r \in Nat
    PROVE  Cost(a, r) \in Nat
  <1>1. CASE r = 0
    BY <1>1 DEF Cost
  <1>2. CASE r # 0
    <2>1. 4 * a + r - 1 \in Nat /\ r \in Nat \ {0}
      BY <1>2
    <2>2. (4 * a + r - 1) \div r \in Nat
      BY <2>1
    <2>3. QED
      BY <1>2, <2>2 DEF Cost
  <1>3. QED
    BY <1>1, <1>2

\* The rate of a hop, 0 without a pool.
Rate(m, h) == IF h \in DOMAIN m.v3 THEN m.v3[h] ELSE 0

\* What a hop makes of an amount.
Hopped(m, h, exactOut, a) == IF exactOut THEN Cost(a, Rate(m, h)) ELSE Yield(a, Rate(m, h))

\* A V3 pool has a rate, zero if there is no pool.
LEMMA RateIs ==
    ASSUME NEW m, IsMarket(m), NEW h
    PROVE  Rate(m, h) \in Nat
  BY DEF IsMarket, Rate

\* One hop turns an amount into an amount.
LEMMA HoppedIs ==
    ASSUME NEW m, IsMarket(m), NEW h, NEW x \in BOOLEAN, NEW a \in Nat
    PROVE  Hopped(m, h, x, a) \in Nat
  BY RateIs, YieldIs, CostIs DEF Hopped

\* A hop as the quoter walks it.
LEMMA HopIs ==
    ASSUME NEW m, NEW h, NEW x \in BOOLEAN, NEW a \in Nat
    PROVE  (IF h \notin DOMAIN m.v3 THEN 0
            ELSE IF x THEN Cost(a, m.v3[h]) ELSE Yield(a, m.v3[h])) = Hopped(m, h, x, a)
  <1>1. Cost(a, 0) = 0 /\ Yield(a, 0) = 0
    BY DEF Cost, Yield
  <1>2. CASE h \in DOMAIN m.v3
    BY <1>2 DEF Hopped, Rate
  <1>3. CASE h \notin DOMAIN m.v3
    BY <1>1, <1>3 DEF Hopped, Rate
  <1>4. QED
    BY <1>2, <1>3

\* A walk of one hop, and one of two.
LEMMA WalkOne ==
    ASSUME NEW m, IsMarket(m), NEW a, NEW b, NEW f, NEW x \in BOOLEAN, NEW amount \in Nat
    PROVE  WalkV3(m, [tokens |-> <<a, b>>, fees |-> <<f>>], x, amount)
             = Hopped(m, <<a, b, f>>, x, amount)
  <1> DEFINE path == [tokens |-> <<a, b>>, fees |-> <<f>>]
             n == Len(path.fees)
             hop(i) == IF x /\ n > 1 THEN <<path.tokens[i + 1], path.tokens[i], path.fees[i]>>
                       ELSE <<path.tokens[i], path.tokens[i + 1], path.fees[i]>>
             Walk(g) == [i \in 0..n |->
                           IF i = 0 THEN amount
                           ELSE IF hop(i) \notin DOMAIN m.v3 THEN 0
                           ELSE IF x THEN Cost(g[i - 1], m.v3[hop(i)])
                                ELSE Yield(g[i - 1], m.v3[hop(i)])]
             walked == CHOOSE g : g = Walk(g)
  <1>1. n = 1 /\ hop(1) = <<a, b, f>>
    OBVIOUS
  <1>2. WalkV3(m, path, x, amount) = walked[n]
    BY DEF WalkV3
  <1> HIDE DEF n, hop, path
  <1> DEFINE w == [i \in 0..1 |-> IF i = 0 THEN amount ELSE Hopped(m, hop(1), x, amount)]
  <1>3. \A i \in 0..1 : i # 0 => i = 1 /\ i - 1 = 0
    OBVIOUS
  <1>4. w[0] = amount /\ w[1] = Hopped(m, hop(1), x, amount) /\ w = [i \in 0..1 |-> w[i]]
    OBVIOUS
  <1> HIDE DEF w
  <1>5. w = Walk(w)
    <2>1. ASSUME NEW i \in 0..1
          PROVE  w[i] = IF i = 0 THEN amount
                        ELSE IF hop(i) \notin DOMAIN m.v3 THEN 0
                        ELSE IF x THEN Cost(w[i - 1], m.v3[hop(i)])
                             ELSE Yield(w[i - 1], m.v3[hop(i)])
      <3>1. CASE i = 0
        BY <1>4, <3>1
      <3>2. CASE i # 0
        <4>1. i = 1 /\ w[i - 1] = amount
          BY <1>3, <1>4, <3>2
        <4>2. w[i] = Hopped(m, hop(i), x, w[i - 1])
          BY <1>4, <4>1
        <4>3. QED
          BY <3>2, <4>1, <4>2, HopIs
      <3>3. QED
        BY <3>1, <3>2
    <2>2. QED
      BY <1>1, <1>4, <2>1
  <1>6. walked = Walk(walked)
    <2> HIDE DEF Walk
    <2>1. QED
      BY <1>5
  <1> HIDE DEF walked
  <1>7. walked[0] = amount
    BY <1>1, <1>6
  <1>8. walked[1] = IF hop(1) \notin DOMAIN m.v3 THEN 0
                    ELSE IF x THEN Cost(walked[0], m.v3[hop(1)]) ELSE Yield(walked[0], m.v3[hop(1)])
    BY <1>1, <1>3, <1>6
  <1>9. walked[1] = Hopped(m, hop(1), x, amount)
    BY <1>7, <1>8, HopIs
  <1>10. QED
    BY <1>1, <1>2, <1>9 DEF path

\* The V3 quoter walks a path of two hops pool by pool, from the far end for an
\* exact output.
LEMMA WalkTwo ==
    ASSUME NEW m, IsMarket(m), NEW a, NEW b, NEW c, NEW f, NEW g, NEW x \in BOOLEAN,
           NEW amount \in Nat
    PROVE  WalkV3(m, [tokens |-> <<a, b, c>>, fees |-> <<f, g>>], x, amount)
             = IF x THEN Hopped(m, <<c, b, g>>, x, Hopped(m, <<b, a, f>>, x, amount))
               ELSE Hopped(m, <<b, c, g>>, x, Hopped(m, <<a, b, f>>, x, amount))
  <1> DEFINE path == [tokens |-> <<a, b, c>>, fees |-> <<f, g>>]
             n == Len(path.fees)
             hop(i) == IF x /\ n > 1 THEN <<path.tokens[i + 1], path.tokens[i], path.fees[i]>>
                       ELSE <<path.tokens[i], path.tokens[i + 1], path.fees[i]>>
             Walk(h) == [i \in 0..n |->
                           IF i = 0 THEN amount
                           ELSE IF hop(i) \notin DOMAIN m.v3 THEN 0
                           ELSE IF x THEN Cost(h[i - 1], m.v3[hop(i)])
                                ELSE Yield(h[i - 1], m.v3[hop(i)])]
             walked == CHOOSE h : h = Walk(h)
  <1>1. /\ n = 2
        /\ hop(1) = IF x THEN <<b, a, f>> ELSE <<a, b, f>>
        /\ hop(2) = IF x THEN <<c, b, g>> ELSE <<b, c, g>>
    OBVIOUS
  <1>2. WalkV3(m, path, x, amount) = walked[n]
    BY DEF WalkV3
  <1> HIDE DEF n, hop, path
  <1> DEFINE one == Hopped(m, hop(1), x, amount)
             two == Hopped(m, hop(2), x, one)
             w == [i \in 0..2 |-> IF i = 0 THEN amount ELSE IF i = 1 THEN one ELSE two]
  <1>3. one \in Nat
    BY HoppedIs
  <1>4. \A i \in 0..2 : i = 0 \/ (i = 1 /\ i - 1 = 0) \/ (i = 2 /\ i - 1 = 1)
    OBVIOUS
  <1> HIDE DEF one, two
  <1>5. w[0] = amount /\ w[1] = one /\ w[2] = two /\ w = [i \in 0..2 |-> w[i]]
    OBVIOUS
  <1> HIDE DEF w
  <1>6. w = Walk(w)
    <2>1. ASSUME NEW i \in 0..2
          PROVE  w[i] = IF i = 0 THEN amount
                        ELSE IF hop(i) \notin DOMAIN m.v3 THEN 0
                        ELSE IF x THEN Cost(w[i - 1], m.v3[hop(i)])
                             ELSE Yield(w[i - 1], m.v3[hop(i)])
      <3>1. CASE i = 0
        BY <1>5, <3>1
      <3>2. CASE i # 0
        <4>1. w[i - 1] \in Nat /\ w[i] = Hopped(m, hop(i), x, w[i - 1])
          BY <1>3, <1>4, <1>5, <3>2 DEF one, two
        <4>2. QED
          BY <3>2, <4>1, HopIs
      <3>3. QED
        BY <3>1, <3>2
    <2>2. QED
      BY <1>1, <1>5, <2>1
  <1>7. walked = Walk(walked)
    <2> HIDE DEF Walk
    <2>1. QED
      BY <1>6
  <1> HIDE DEF walked
  <1>8. walked[0] = amount
    BY <1>1, <1>7
  <1>9. ASSUME NEW i \in 1..2
        PROVE  walked[i] = IF hop(i) \notin DOMAIN m.v3 THEN 0
                           ELSE IF x THEN Cost(walked[i - 1], m.v3[hop(i)])
                                ELSE Yield(walked[i - 1], m.v3[hop(i)])
    <2>1. i \in 0..n /\ i # 0
      BY <1>1
    <2>2. QED
      BY <1>7, <2>1
  <1>10. walked[1] = one
    <2>1. 1 \in 1..2 /\ 1 - 1 = 0
      OBVIOUS
    <2>2. walked[1] = IF hop(1) \notin DOMAIN m.v3 THEN 0
                      ELSE IF x THEN Cost(amount, m.v3[hop(1)]) ELSE Yield(amount, m.v3[hop(1)])
      BY <1>8, <1>9, <2>1
    <2>3. QED
      BY <2>2, HopIs DEF one
  <1>11. walked[2] = two
    <2>1. 2 \in 1..2 /\ 2 - 1 = 1
      OBVIOUS
    <2>2. walked[2] = IF hop(2) \notin DOMAIN m.v3 THEN 0
                      ELSE IF x THEN Cost(one, m.v3[hop(2)]) ELSE Yield(one, m.v3[hop(2)])
      BY <1>9, <1>10, <2>1
    <2>3. QED
      BY <1>3, <2>2, HopIs DEF two
  <1>12. QED
    BY <1>1, <1>2, <1>11 DEF path, one, two

\* What the shapes have in common.
LEMMA AmountIs ==
    ASSUME NEW o \in Requests, NEW a \in AmountsOf(o)
    PROVE  /\ a \in Nat
           /\ o.kind = "buy" => a = o.buyAmount
           /\ o.kind # "buy" => a <= o.sellAmount
  BY RequestFacts DEF AmountsOf

\* What a V3 path of an order says of the order.
LEMMA V3Facts ==
    ASSUME NEW o \in Requests, NEW p \in V3Shapes(o)
    PROVE  /\ p.venue = "v3" /\ p.tokenIn = o.sellToken /\ p.tokenOut = o.buyToken
           /\ p.exactOut \in BOOLEAN /\ (p.exactOut <=> o.kind = "buy")
           /\ p.amount \in AmountsOf(o)
  <1>1. PICK x \in AmountsOf(o) \X Nat \X (Tokens \cup {Direct}) \X Nat :
          p = V3Path(o, x[1], x[2], x[3], x[4])
    BY DEF V3Shapes
  <1>2. x[1] \in AmountsOf(o)
    OBVIOUS
  <1>3. QED
    BY <1>1, <1>2 DEF V3Path

\* What a V4 path of an order says of the order.
LEMMA V4Facts ==
    ASSUME NEW o \in Requests, NEW p \in V4Shapes(o)
    PROVE  /\ p.venue = "v4" /\ p.tokenIn = o.sellToken /\ p.tokenOut = o.buyToken
           /\ p.exactOut = FALSE /\ p.native \in BOOLEAN
           /\ p.amount \in AmountsOf(o)
  <1>1. PICK x \in AmountsOf(o) \X Nat \X BOOLEAN : p = V4Path(o, x[1], x[2], x[3])
    BY DEF V4Shapes
  <1>2. x[1] \in AmountsOf(o) /\ x[3] \in BOOLEAN
    OBVIOUS
  <1>3. QED
    BY <1>1, <1>2 DEF V4Path

\* What a Curve path of an order says of the order: its coins are two coins of
\* its pool.
LEMMA CurveFacts ==
    ASSUME NEW o \in Requests, NEW p \in CurveShapes(o)
    PROVE  /\ p.venue = "curve" /\ p.tokenIn = o.sellToken /\ p.tokenOut = o.buyToken
           /\ p.exactOut = FALSE /\ p.pool \in DOMAIN CurvePools
           /\ p.i \in DOMAIN CurvePools[p.pool] /\ p.j \in DOMAIN CurvePools[p.pool]
           /\ p.i # p.j
           /\ p.amount \in AmountsOf(o)
  <1>1. PICK q \in DOMAIN CurvePools : p \in CurveShape(o, q)
    BY DEF CurveShapes
  <1>2. PICK x \in AmountsOf(o) \X Coins(q) : p = CurvePath(o, x[1], q, x[2])
    BY <1>1 DEF CurveShape
  <1> DEFINE coins == x[2]
  <1>3. x[1] \in AmountsOf(o) /\ coins \in Coins(q)
    OBVIOUS
  <1> HIDE DEF coins
  <1>4. /\ coins[1] \in DOMAIN CurvePools[q] /\ coins[2] \in DOMAIN CurvePools[q]
        /\ coins[1] # coins[2]
    BY <1>3 DEF Coins
  <1>5. /\ p.venue = "curve" /\ p.tokenIn = o.sellToken /\ p.tokenOut = o.buyToken
        /\ p.exactOut = FALSE /\ p.pool = q /\ p.i = coins[1] /\ p.j = coins[2] /\ p.amount = x[1]
    BY <1>2 DEF CurvePath, coins
  <1>6. QED
    BY <1>3, <1>4, <1>5

\* What path p makes of n: the output of an exact input, or the input of an
\* exact output.
V4Rate(m, p) ==
    LET call == V4Call(p)
    IN  IF call.key \in DOMAIN m.v4 THEN m.v4[call.key][call.zeroForOne] ELSE 0

For(m, p, n) ==
    CASE p.venue = "v3" ->
           IF p.mid = Direct THEN Hopped(m, <<p.tokenIn, p.tokenOut, p.fee>>, p.exactOut, n)
           ELSE IF p.exactOut
                THEN Hopped(m, <<p.tokenIn, p.mid, p.fee>>, p.exactOut,
                            Hopped(m, <<p.mid, p.tokenOut, p.feeOut>>, p.exactOut, n))
                ELSE Hopped(m, <<p.mid, p.tokenOut, p.feeOut>>, p.exactOut,
                            Hopped(m, <<p.tokenIn, p.mid, p.fee>>, p.exactOut, n))
      [] p.venue = "v4" -> Yield(n, V4Rate(m, p))
      [] p.venue = "curve" -> Yield(n, m.curve[p.pool][<<p.i, p.j>>])

\* A V4 pool has a rate, zero if there is no pool.
LEMMA V4RateIs ==
    ASSUME NEW m, IsMarket(m), NEW p
    PROVE  V4Rate(m, p) \in Nat
  <1> DEFINE call == V4Call(p)
             z == Rank[Currency(p, p.tokenIn)] < Rank[Currency(p, p.tokenOut)]
  <1>1. call.zeroForOne = z /\ z \in BOOLEAN
    BY DEF V4Call
  <1>2. call.zeroForOne \in BOOLEAN
    BY <1>1
  <1> HIDE DEF call
  <1>3. ASSUME call.key \in DOMAIN m.v4 PROVE m.v4[call.key][call.zeroForOne] \in Nat
    <2>1. m.v4[call.key] \in [BOOLEAN -> Nat]
      BY <1>3 DEF IsMarket
    <2>2. QED
      BY <1>2, <2>1
  <1>4. QED
    BY <1>3 DEF V4Rate, call

\* It is an amount, and more is paid for more.
LEMMA HoppedGrows ==
    ASSUME NEW m, IsMarket(m), NEW h, NEW a \in Nat, NEW b \in Nat, a <= b
    PROVE  Hopped(m, h, FALSE, a) <= Hopped(m, h, FALSE, b)
  BY RateIs, YieldIs DEF Hopped

\* What a path brings is an amount, and more sold brings no less.
LEMMA ForIs ==
    ASSUME NEW o \in Requests, NEW p \in Shapes(o), NEW m, IsMarket(m), NEW n \in Nat
    PROVE  /\ For(m, p, n) \in Nat
           /\ o.kind # "buy" => \A l \in Nat : l <= n => For(m, p, l) <= For(m, p, n)
  <1>1. CASE p \in V3Shapes(o)
    <2>1. p.venue = "v3" /\ p.exactOut \in BOOLEAN /\ (p.exactOut <=> o.kind = "buy")
      BY <1>1, V3Facts
    <2> DEFINE whole == <<p.tokenIn, p.tokenOut, p.fee>>
               first == <<p.tokenIn, p.mid, p.fee>>
               second == <<p.mid, p.tokenOut, p.feeOut>>
    <2> HIDE DEF whole, first, second
    <2>2. \A l \in Nat : For(m, p, l) = IF p.mid = Direct THEN Hopped(m, whole, p.exactOut, l)
               ELSE IF p.exactOut
                    THEN Hopped(m, first, p.exactOut, Hopped(m, second, p.exactOut, l))
                    ELSE Hopped(m, second, p.exactOut, Hopped(m, first, p.exactOut, l))
      BY <2>1 DEF For, whole, first, second
    <2>3. For(m, p, n) \in Nat
      <3>1. \A h : \A l \in Nat : Hopped(m, h, p.exactOut, l) \in Nat
        BY <2>1, HoppedIs
      <3>2. QED
        BY <2>2, <3>1
    <2>4. ASSUME o.kind # "buy", NEW l \in Nat, l <= n PROVE For(m, p, l) <= For(m, p, n)
      <3>1. p.exactOut = FALSE
        BY <2>1, <2>4
      <3>2. \A h : \A a, b \in Nat : /\ Hopped(m, h, p.exactOut, a) \in Nat
                                     /\ a <= b => Hopped(m, h, p.exactOut, a)
                                                    <= Hopped(m, h, p.exactOut, b)
        BY <3>1, HoppedIs, HoppedGrows
      <3>3. QED
        BY <2>2, <2>4, <3>1, <3>2
    <2>5. QED
      BY <2>3, <2>4
  <1>2. CASE p \in V4Shapes(o)
    <2>1. \A l : For(m, p, l) = Yield(l, V4Rate(m, p))
      BY <1>2, V4Facts DEF For
    <2>2. QED
      BY <2>1, V4RateIs, YieldIs
  <1>3. CASE p \in CurveShapes(o)
    <2> DEFINE rate == m.curve[p.pool][<<p.i, p.j>>]
    <2>1. \A l : For(m, p, l) = Yield(l, rate)
      BY <1>3, CurveFacts DEF For
    <2>2. rate \in Nat
      BY <1>3, CurveFacts DEF IsMarket
    <2> HIDE DEF rate
    <2>3. QED
      BY <2>1, <2>2, YieldIs
  <1>4. QED
    BY <1>1, <1>2, <1>3 DEF Shapes

\* The call of a path asks what the path means.
LEMMA V3Answers ==
    ASSUME NEW o \in Requests, NEW p \in V3Shapes(o), NEW m, IsMarket(m), NEW n \in Nat
    PROVE  LET path == IF p.mid = Direct
                       THEN [tokens |-> <<p.tokenIn, p.tokenOut>>, fees |-> <<p.fee>>]
                       ELSE IF p.exactOut THEN PackReversed(p) ELSE PackForward(p)
           IN  WalkV3(m, path, p.exactOut, n) = For(m, p, n)
  <1>1. p.venue = "v3" /\ p.exactOut \in BOOLEAN
    BY V3Facts
  <1>2. CASE p.mid = Direct
    BY <1>1, <1>2, WalkOne DEF For
  <1>3. CASE p.mid # Direct /\ p.exactOut
    <2>1. WalkV3(m, PackReversed(p), p.exactOut, n)
            = Hopped(m, <<p.tokenIn, p.mid, p.fee>>, p.exactOut,
                     Hopped(m, <<p.mid, p.tokenOut, p.feeOut>>, p.exactOut, n))
      <3> DEFINE x == p.exactOut
                 whole == [tokens |-> <<p.tokenOut, p.mid, p.tokenIn>>,
                            fees |-> <<p.feeOut, p.fee>>]
      <3>1. WalkV3(m, whole, x, n)
              = IF x THEN Hopped(m, <<p.tokenIn, p.mid, p.fee>>, x,
                                 Hopped(m, <<p.mid, p.tokenOut, p.feeOut>>, x, n))
                ELSE Hopped(m, <<p.mid, p.tokenIn, p.fee>>, x,
                            Hopped(m, <<p.tokenOut, p.mid, p.feeOut>>, x, n))
        <4>1. x \in BOOLEAN
          BY <1>1
        <4> HIDE DEF x
        <4>2. QED
          BY <4>1, WalkTwo
      <3>2. PackReversed(p) = whole
        BY DEF PackReversed
      <3> HIDE DEF whole
      <3>3. QED
        BY <1>3, <3>1, <3>2
    <2>2. QED
      BY <1>1, <1>3, <2>1 DEF For
  <1>4. CASE p.mid # Direct /\ ~p.exactOut
    <2>1. WalkV3(m, PackForward(p), p.exactOut, n)
            = Hopped(m, <<p.mid, p.tokenOut, p.feeOut>>, p.exactOut,
                     Hopped(m, <<p.tokenIn, p.mid, p.fee>>, p.exactOut, n))
      <3> DEFINE x == p.exactOut
                 whole == [tokens |-> <<p.tokenIn, p.mid, p.tokenOut>>,
                            fees |-> <<p.fee, p.feeOut>>]
      <3>1. WalkV3(m, whole, x, n)
              = IF x THEN Hopped(m, <<p.tokenOut, p.mid, p.feeOut>>, x,
                                 Hopped(m, <<p.mid, p.tokenIn, p.fee>>, x, n))
                ELSE Hopped(m, <<p.mid, p.tokenOut, p.feeOut>>, x,
                            Hopped(m, <<p.tokenIn, p.mid, p.fee>>, x, n))
        <4>1. x \in BOOLEAN
          BY <1>1
        <4> HIDE DEF x
        <4>2. QED
          BY <4>1, WalkTwo
      <3>2. PackForward(p) = whole
        BY DEF PackForward
      <3> HIDE DEF whole
      <3>3. QED
        BY <1>4, <3>1, <3>2
    <2>2. QED
      BY <1>1, <1>4, <2>1 DEF For
  <1>5. QED
    BY <1>2, <1>3, <1>4

\* A quoter answers the call encoded for a path with what that path brings: the
\* encodings of V3, V4 and Curve lose nothing, in either direction.
LEMMA AnswerIs ==
    ASSUME NEW o \in Requests, NEW p \in Shapes(o), NEW m, IsMarket(m)
    PROVE  /\ Answer(m, CallOf(p)) = For(m, p, p.amount)
           /\ Meant(m, p) = For(m, p, p.amount)
  <1>1. CASE p \in V3Shapes(o)
    <2>1. p.venue = "v3" /\ p.exactOut \in BOOLEAN /\ p.amount \in Nat
      BY <1>1, V3Facts, AmountIs
    <2>2. CallOf(p) = V3Call(p)
      BY <2>1 DEF CallOf
    <2> DEFINE path == IF p.mid = Direct
                       THEN [tokens |-> <<p.tokenIn, p.tokenOut>>, fees |-> <<p.fee>>]
                       ELSE IF p.exactOut THEN PackReversed(p) ELSE PackForward(p)
    <2>3. V3Call(p) = [to |-> "v3", exactOut |-> p.exactOut, amount |-> p.amount, path |-> path]
      BY DEF V3Call
    <2>4. WalkV3(m, path, p.exactOut, p.amount) = For(m, p, p.amount)
      BY <1>1, <2>1, V3Answers
    <2> HIDE DEF path
    <2>5. Answer(m, V3Call(p)) = WalkV3(m, path, p.exactOut, p.amount)
      BY <2>3 DEF Answer
    <2>6. Meant(m, p) = For(m, p, p.amount)
      BY <2>1 DEF Meant, For, Hopped, Rate
    <2>7. QED
      BY <2>2, <2>4, <2>5, <2>6
  <1>2. CASE p \in V4Shapes(o)
    <2>1. p.venue = "v4" /\ p.exactOut = FALSE
      BY <1>2, V4Facts
    <2>2. CallOf(p) = V4Call(p) /\ Meant(m, p) = Answer(m, CallOf(p))
      BY <2>1 DEF CallOf, Meant
    <2>3. Answer(m, V4Call(p)) = Yield(p.amount, V4Rate(m, p))
      <3> DEFINE call == V4Call(p)
      <3>1. call.to = "v4" /\ call.exactOut = FALSE /\ call.amount = p.amount
        BY <2>1 DEF V4Call
      <3>2. Yield(p.amount, 0) = 0
        <4>1. p.amount \in Nat
          BY <1>2, V4Facts, AmountIs
        <4>2. QED
          BY <4>1 DEF Yield
      <3> HIDE DEF call
      <3>3. QED
        BY <3>1, <3>2 DEF Answer, V4Rate, call
    <2>4. QED
      BY <2>1, <2>2, <2>3 DEF For
  <1>3. CASE p \in CurveShapes(o)
    <2>1. p.venue = "curve"
      BY <1>3, CurveFacts
    <2>2. CallOf(p) = CurveCall(p) /\ Meant(m, p) = Answer(m, CallOf(p))
      BY <2>1 DEF CallOf, Meant
    <2>3. Answer(m, CurveCall(p)) = For(m, p, p.amount)
      BY <2>1 DEF Answer, CurveCall, For
    <2>4. QED
      BY <2>2, <2>3
  <1>4. QED
    BY <1>1, <1>2, <1>3 DEF Shapes

\* A candidate asks about an amount.
LEMMA ShapeAmount ==
    ASSUME NEW o \in Requests, NEW p \in Shapes(o)
    PROVE  /\ o.kind \in {"sell", "buy"} /\ p.amount \in AmountsOf(o) /\ p.amount \in Nat
           /\ p.venue \in Venues /\ (p.exactOut <=> o.kind = "buy") /\ p.exactOut \in BOOLEAN
           /\ p.tokenIn = o.sellToken /\ p.tokenOut = o.buyToken
  <1>1. o.kind \in {"sell", "buy"}
    BY RequestFacts
  <1>2. CASE p \in V3Shapes(o)
    BY <1>1, <1>2, V3Facts, AmountIs DEF Venues
  <1>3. CASE o.kind # "buy" /\ p \in V4Shapes(o)
    BY <1>1, <1>3, V4Facts, AmountIs DEF Venues
  <1>4. CASE o.kind # "buy" /\ p \in CurveShapes(o)
    BY <1>1, <1>4, CurveFacts, AmountIs DEF Venues
  <1>5. QED
    BY <1>2, <1>3, <1>4 DEF Shapes

-----------------------------------------------------------------------------
(* Batches.                                                                *)

Batch ==
    [size : Nat, done : Seq(Nat), part : Seq(Nat), slices : Seq(Nat \X Nat), failed : SUBSET Nat]

\* Where the current chunk ends.
ChunkEnd(b) ==
    IF Len(b.done) + ChunkSize < b.size THEN Len(b.done) + ChunkSize ELSE b.size

\* What is still to be asked follows what is answered, slice after slice, to
\* the end of the chunk.
Queued(b) ==
    LET last == Len(b.slices)
    IN  /\ Len(b.done) < b.size
        /\ b.slices[1][1] = Len(b.done) + Len(b.part) + 1
        /\ \A k \in 1..last : b.slices[k][1] <= b.slices[k][2]
        /\ \A k \in 1..(last - 1) : b.slices[k + 1][1] = b.slices[k][2] + 1
        /\ b.slices[last][2] = ChunkEnd(b)
        /\ \A f \in b.failed : f + ChunkSize - 1 <= Len(b.done)

Fits(b, n) ==
    /\ b \in Batch /\ b.size <= n
    /\ b.slices # <<>> => Queued(b)
    /\ b.slices = <<>> => Len(b.done) = b.size /\ b.part = <<>>

\* What the call at an index is to return.
Due(m, ps, h, i) == IF i \in h THEN 0 ELSE Meant(m, ps[i])

\* The answers that are there are those of their calls.
Aligned(b, m, ps, h) ==
    /\ \A i \in DOMAIN b.done : b.done[i] = Due(m, ps, h \cup GivenUp(b), i)
    /\ \A i \in DOMAIN b.part : b.part[i] = Due(m, ps, h, Len(b.done) + i)

\* The chunk of a batch that begins at first.
IsChunk(c, n, first) ==
    /\ first > n => c = <<>>
    /\ first <= n => /\ c \in Seq(Nat \X Nat) /\ Len(c) = 1
                     /\ c[1][1] = first
                     /\ c[1][2] = IF first + ChunkSize - 1 < n THEN first + ChunkSize - 1 ELSE n

\* A chunk starts where it is asked to and ends within the batch.
LEMMA ChunkFromIs ==
    ASSUME NEW n \in Nat, NEW first \in Nat \ {0}
    PROVE  IsChunk(ChunkFrom(n, first), n, first)
  <1> DEFINE end == IF first + ChunkSize - 1 < n THEN first + ChunkSize - 1 ELSE n
  <1>1. ChunkSize \in Nat \ {0}
    BY RoundAssumption
  <1>2. end \in Nat
    BY <1>1
  <1>3. first > n => ChunkFrom(n, first) = <<>>
    BY DEF ChunkFrom
  <1>4. ASSUME first <= n PROVE ChunkFrom(n, first) = << <<first, end>> >>
    BY <1>4 DEF ChunkFrom
  <1> HIDE DEF end
  <1>5. QED
    BY <1>2, <1>3, <1>4 DEF end, IsChunk

\* A batch begins with its first chunk.
LEMMA BeginFits ==
    ASSUME NEW n \in Nat, NEW size \in Nat, size <= n
    PROVE  /\ Fits(Begin(size), n)
           /\ \A m, ps, h : Aligned(Begin(size), m, ps, h)
           /\ Begin(size).size = size /\ Begin(size).done = <<>>
  <1> DEFINE b == Begin(size)
             c == ChunkFrom(size, 1)
  <1>1. ChunkSize \in Nat \ {0}
    BY RoundAssumption
  <1>3. b = [size |-> size, done |-> <<>>, part |-> <<>>, slices |-> c, failed |-> {}]
    BY DEF Begin
  <1> HIDE DEF b, c
  <1>2. /\ 1 > size => c = <<>>
        /\ 1 <= size => /\ c \in Seq(Nat \X Nat) /\ Len(c) = 1 /\ c[1][1] = 1
                        /\ c[1][2] = IF 1 + ChunkSize - 1 < size THEN 1 + ChunkSize - 1 ELSE size
    <2>1. IsChunk(c, size, 1)
      BY ChunkFromIs DEF c
    <2>2. QED
      BY <2>1 DEF IsChunk
  <1>4. c \in Seq(Nat \X Nat)
    <2>1. <<>> \in Seq(Nat \X Nat)
      OBVIOUS
    <2>2. 1 > size \/ 1 <= size
      OBVIOUS
    <2>3. QED
      BY <1>2, <2>1, <2>2
  <1>5. b \in Batch /\ b.size <= n
    BY <1>3, <1>4 DEF Batch
  <1>6. ASSUME b.slices # <<>> PROVE Queued(b)
    <2>1. size >= 1 /\ Len(c) = 1 /\ Len(b.done) = 0 /\ Len(b.part) = 0
      BY <1>2, <1>3, <1>6
    <2>2. c[1][2] = ChunkEnd(b) /\ c[1][2] \in Nat /\ c[1][2] >= 1
      BY <1>1, <1>2, <1>3, <2>1 DEF ChunkEnd
    <2>3. b.slices[1][1] = 1 /\ b.slices[1][2] = ChunkEnd(b) /\ Len(b.slices) = 1
      BY <1>2, <1>3, <2>1, <2>2
    <2>4. b.failed = {} /\ b.size = size
      BY <1>3
    <2>5. \A k \in 1..Len(b.slices) : b.slices[k][1] <= b.slices[k][2]
      <3>1. b.slices[1][1] <= b.slices[1][2] /\ b.slices = c
        BY <1>3, <2>2, <2>3
      <3>2. ASSUME NEW k \in 1..Len(b.slices) PROVE k = 1
        BY <2>3
      <3>3. QED
        BY <3>1, <3>2
    <2>6. b.slices[1][1] = Len(b.done) + Len(b.part) + 1
      BY <2>1, <2>3
    <2>7. \A k \in 1..(Len(b.slices) - 1) : b.slices[k + 1][1] = b.slices[k][2] + 1
      BY <2>3
    <2>8. Len(b.done) < b.size
      BY <2>1, <2>4
    <2>9. b.slices[Len(b.slices)][2] = ChunkEnd(b)
      BY <2>3
    <2>10. \A f \in b.failed : f + ChunkSize - 1 <= Len(b.done)
      BY <2>4
    <2>11. QED
      BY <2>5, <2>6, <2>7, <2>8, <2>9, <2>10 DEF Queued
  <1>7. b.slices = <<>> => Len(b.done) = b.size /\ b.part = <<>>
    BY <1>2, <1>3
  <1>8. Fits(b, n)
    BY <1>5, <1>6, <1>7 DEF Fits
  <1>9. \A m, ps, h : Aligned(b, m, ps, h)
    <2>1. DOMAIN b.done = {} /\ DOMAIN b.part = {}
      BY <1>3
    <2>2. QED
      BY <2>1 DEF Aligned
  <1>10. b.size = size /\ b.done = <<>>
    BY <1>3
  <1>11. QED
    BY <1>8, <1>9, <1>10 DEF b

\* The slice asked next.
Low(b) == b.slices[1][1]
High(b) == b.slices[1][2]

\* The bounds of the first slice that is still to be asked.
LEMMA SliceIs ==
    ASSUME NEW n \in Nat, NEW b, Fits(b, n), b.slices # <<>>
    PROVE  /\ Low(b) \in Nat \ {0} /\ High(b) \in Nat /\ Low(b) <= High(b)
           /\ Low(b) = Len(b.done) + Len(b.part) + 1
           /\ High(b) <= ChunkEnd(b) /\ ChunkEnd(b) \in Nat /\ ChunkEnd(b) <= b.size
           /\ Len(b.slices) \in Nat \ {0} /\ (Len(b.slices) = 1 => High(b) = ChunkEnd(b))
           /\ Head(b.slices) = b.slices[1]
  <1> DEFINE s == b.slices
             last == Len(s)
  <1>1. ChunkSize \in Nat \ {0}
    BY RoundAssumption
  <1>2. /\ b \in Batch /\ Queued(b)
    BY DEF Fits
  <1>3. s \in Seq(Nat \X Nat) /\ last \in Nat \ {0} /\ Len(b.done) \in Nat /\ Len(b.part) \in Nat
        /\ b.size \in Nat
    BY <1>2 DEF Batch
  <1>4. \A k \in 1..last : s[k] \in Nat \X Nat
    BY <1>3
  <1>5. \A k \in 1..last : s[k][1] \in Nat /\ s[k][2] \in Nat
    BY <1>4
  <1>6. /\ \A k \in 1..last : s[k][1] <= s[k][2]
        /\ \A k \in 1..(last - 1) : s[k + 1][1] = s[k][2] + 1
        /\ s[last][2] = ChunkEnd(b) /\ s[1][1] = Len(b.done) + Len(b.part) + 1
    BY <1>2 DEF Queued
  <1>7. ChunkEnd(b) \in Nat /\ ChunkEnd(b) <= b.size
    BY <1>1, <1>3 DEF ChunkEnd
  <1>8. Head(s) = s[1]
    BY <1>3
  <1> HIDE DEF s, last
  <1> DEFINE T == {k \in 0..(last - 1) : s[1][2] <= s[k + 1][2]}
  <1>9. Inductive(T, last - 1)
    <2>1. 0 \in T
      BY <1>3, <1>5
    <2>2. ASSUME NEW k \in 1..(last - 1), k - 1 \in T PROVE k \in T
      <3>1. k \in 1..last /\ k + 1 \in 1..last /\ (k - 1) + 1 = k /\ 1 \in 1..last /\ last - 1 \in Nat
        BY <1>3
      <3>2. s[1][2] <= s[k][2]
        BY <2>2, <3>1
      <3>3. s[k + 1][1] = s[k][2] + 1 /\ s[k + 1][1] <= s[k + 1][2]
        BY <1>6, <3>1
      <3>4. s[1][2] \in Nat /\ s[k][2] \in Nat /\ s[k + 1][1] \in Nat /\ s[k + 1][2] \in Nat
        BY <1>5, <3>1
      <3>5. s[1][2] <= s[k + 1][2]
        BY <3>2, <3>3, <3>4
      <3>6. QED
        BY <3>1, <3>5
    <2>3. QED
      BY <2>1, <2>2 DEF Inductive
  <1>10. last - 1 \in T
    <2> HIDE DEF T
    <2>1. last - 1 \in Nat /\ last - 1 \in 0..(last - 1)
      BY <1>3
    <2>2. QED
      BY <1>9, <2>1, UpToInduction
  <1>11. s[1][2] <= s[last][2]
    BY <1>3, <1>10
  <1>12. 1 \in 1..last
    BY <1>3
  <1>13. s[1][1] \in Nat /\ s[1][2] \in Nat /\ s[1][1] <= s[1][2]
    BY <1>5, <1>6, <1>12
  <1>14. last = 1 => s[1][2] = ChunkEnd(b)
    BY <1>6
  <1>15. s[1][2] <= ChunkEnd(b)
    BY <1>6, <1>11
  <1>16. s[1][1] = Len(b.done) + Len(b.part) + 1
    BY <1>6
  <1>17. s[1][1] # 0
    <2>1. Len(b.done) \in Nat /\ Len(b.part) \in Nat
      BY <1>3
    <2> DEFINE d == Len(b.done)
               e == Len(b.part)
    <2>2. d \in Nat /\ e \in Nat /\ s[1][1] = d + e + 1
      BY <1>16, <2>1
    <2> HIDE DEF d, e
    <2>3. s[1][1] > 0
      BY <2>2
    <2>4. QED
      BY <2>3, <1>13
  <1>18. QED
    BY <1>3, <1>7, <1>8, <1>13, <1>14, <1>15, <1>16, <1>17 DEF Low, High, s, last

\* The chunk is over, with these answers.
Closed(b, got, failed) ==
    [size |-> b.size, done |-> b.done \o got, part |-> <<>>,
     slices |-> ChunkFrom(b.size, Len(b.done) + Len(got) + 1), failed |-> failed]

Span(failed) == UNION {first..(first + ChunkSize - 1) : first \in failed}

\* Chunks that may have failed before the next one begins.
Past(b, failed) == failed \subseteq Nat /\ \A f \in failed : f <= Len(b.done) + 1

\* Closing a chunk with one answer for each of its calls keeps the shape of a
\* batch.
LEMMA ClosedFits ==
    ASSUME NEW n \in Nat, NEW b, Fits(b, n), b.slices # <<>>,
           NEW got \in Seq(Nat), Len(got) = ChunkEnd(b) - Len(b.done),
           NEW failed, Past(b, failed)
    PROVE  Fits(Closed(b, got, failed), n)
  <1> DEFINE c == Closed(b, got, failed)
             d == Len(b.done)
             z == b.size
             end == ChunkEnd(b)
             next == ChunkFrom(z, d + Len(got) + 1)
  <1>1. ChunkSize \in Nat \ {0}
    BY RoundAssumption
  <1>2. b \in Batch /\ z <= n /\ d < z
    BY DEF Fits, Queued
  <1>3. d \in Nat /\ z \in Nat /\ b.done \in Seq(Nat)
    BY <1>2 DEF Batch
  <1>4. end = (IF d + ChunkSize < z THEN d + ChunkSize ELSE z) /\ end \in Nat /\ end <= z
    BY <1>1, <1>3 DEF ChunkEnd
  <1>5. Len(got) = end - d /\ d + Len(got) = end
    <2> HIDE DEF d, end
    <2>1. Len(got) = end - d
      BY DEF d, end
    <2>2. QED
      BY <1>3, <1>4, <2>1
  <1>6. c = [size |-> z, done |-> b.done \o got, part |-> <<>>, slices |-> next, failed |-> failed]
    BY DEF Closed
  <1>7. b.done \o got \in Seq(Nat) /\ Len(b.done \o got) = d + Len(got)
    <2>1. b.done \o got \in Seq(Nat)
      BY <1>3
    <2>2. Len(b.done \o got) = Len(b.done) + Len(got)
      BY <1>3, ConcatProperties
    <2>3. QED
      BY <2>1, <2>2
  <1>8. next = ChunkFrom(z, end + 1)
    BY <1>5
  <1>9. IsChunk(next, z, end + 1)
    <2> HIDE DEF z, end, next
    <2>1. end + 1 \in Nat \ {0}
      BY <1>4
    <2>2. QED
      BY <1>3, <1>8, <2>1, ChunkFromIs
  <1> HIDE DEF c, d, z, end, next
  <1>10. Len(c.done) = end /\ c.size = z /\ c.part = <<>> /\ c.slices = next /\ c.failed = failed
    BY <1>5, <1>6, <1>7
  <1>11. ASSUME end + 1 > z PROVE Fits(c, n)
    <2>1. next = <<>>
      BY <1>9, <1>11 DEF IsChunk
    <2>2. end = z
      BY <1>3, <1>4, <1>11
    <2>3. c \in Batch
      BY <1>3, <1>6, <1>7, <2>1 DEF Batch, Past
    <2>4. Len(c.done) = c.size /\ c.size <= n /\ c.slices = <<>> /\ c.part = <<>>
      BY <1>2, <1>10, <2>1, <2>2
    <2>5. QED
      BY <2>3, <2>4 DEF Fits
  <1>12. ASSUME end + 1 <= z PROVE Fits(c, n)
    <2>1. /\ next \in Seq(Nat \X Nat) /\ Len(next) = 1 /\ next[1][1] = end + 1
          /\ next[1][2] = IF end + 1 + ChunkSize - 1 < z THEN end + 1 + ChunkSize - 1 ELSE z
      BY <1>9, <1>12 DEF IsChunk
    <2>2. end = d + ChunkSize
      BY <1>1, <1>3, <1>4, <1>12
    <2>3. c \in Batch
      BY <1>3, <1>6, <1>7, <2>1 DEF Batch, Past
    <2>4. ChunkEnd(c) = IF end + ChunkSize < z THEN end + ChunkSize ELSE z
      BY <1>10 DEF ChunkEnd
    <2>5. next[1][2] = ChunkEnd(c) /\ end + 1 <= ChunkEnd(c)
      BY <1>1, <1>3, <1>4, <1>12, <2>1, <2>4
    <2>6. Len(c.done) < c.size
      BY <1>3, <1>4, <1>10, <1>12
    <2>7. c.slices[1][1] = Len(c.done) + Len(c.part) + 1
      <3>1. Len(c.part) = 0
        BY <1>10
      <3>2. QED
        BY <1>4, <1>10, <2>1, <3>1
    <2>8. \A k \in 1..Len(c.slices) : c.slices[k][1] <= c.slices[k][2]
      <3>1. next[1][1] <= next[1][2]
        BY <2>1, <2>5
      <3>2. QED
        BY <1>10, <2>1, <3>1
    <2>9. \A k \in 1..(Len(c.slices) - 1) : c.slices[k + 1][1] = c.slices[k][2] + 1
      BY <1>10, <2>1
    <2>10. c.slices[Len(c.slices)][2] = ChunkEnd(c)
      BY <1>10, <2>1, <2>5
    <2>11. \A f \in c.failed : f + ChunkSize - 1 <= Len(c.done)
      <3>1. ASSUME NEW f \in failed PROVE f \in Nat /\ f <= d + 1
        BY <3>1 DEF Past, d
      <3>2. \A f \in failed : f + ChunkSize - 1 <= end
        BY <1>1, <1>3, <2>2, <3>1
      <3>3. QED
        BY <1>10, <3>2
    <2>12. Queued(c)
      BY <2>6, <2>7, <2>8, <2>9, <2>10, <2>11 DEF Queued
    <2>13. c.slices # <<>>
      <3>1. Len(c.slices) = 1
        BY <1>10, <2>1
      <3>2. Len(<<>>) = 0
        OBVIOUS
      <3>3. QED
        BY <3>1, <3>2
    <2>14. c.size <= n
      BY <1>2, <1>10
    <2>15. QED
      BY <2>3, <2>12, <2>13, <2>14 DEF Fits
  <1>13. Fits(c, n)
    <2>1. end + 1 > z \/ end + 1 <= z
      BY <1>3, <1>4
    <2>2. QED
      BY <2>1, <1>11, <1>12
  <1>14. QED
    BY <1>13 DEF c

\* What a chunk answers.
ChunkDue(b, got, failed, m, ps, h) ==
    \A i \in DOMAIN got : got[i] = Due(m, ps, h \cup Span(failed), Len(b.done) + i)
SameBefore(b, failed) ==
    \A i \in 1..Len(b.done) : i \in Span(b.failed) <=> i \in Span(failed)

\* Closing a chunk with the answers that are due keeps the batch aligned.
LEMMA ClosedAligned ==
    ASSUME NEW n \in Nat, NEW b, Fits(b, n), NEW got \in Seq(Nat), NEW failed,
           NEW m, NEW ps, NEW h, Aligned(b, m, ps, h),
           ChunkDue(b, got, failed, m, ps, h), SameBefore(b, failed)
    PROVE  Aligned(Closed(b, got, failed), m, ps, h)
  <1> DEFINE c == Closed(b, got, failed)
             d == Len(b.done)
  <1>1. b.done \in Seq(Nat)
    BY DEF Fits, Batch
  <1>2. c.done = b.done \o got /\ c.part = <<>> /\ c.failed = failed
    BY DEF Closed
  <1>3. d \in Nat /\ DOMAIN b.done = 1..d /\ DOMAIN got = 1..Len(got) /\ Len(got) \in Nat
    BY <1>1
  <1>4. DOMAIN c.done = 1..(d + Len(got))
    BY <1>1, <1>2
  <1>5. GivenUp(c) = Span(failed) /\ GivenUp(b) = Span(b.failed)
    BY <1>2 DEF GivenUp, Span
  <1>6. ASSUME NEW i \in DOMAIN c.done PROVE c.done[i] = Due(m, ps, h \cup GivenUp(c), i)
    <2>1. i \in Nat /\ i >= 1 /\ i <= d + Len(got)
      BY <1>3, <1>4, <1>6
    <2>2. CASE i <= d
      <3>1. c.done[i] = b.done[i] /\ i \in 1..d
        BY <1>1, <1>2, <1>3, <2>1, <2>2
      <3>2. b.done[i] = Due(m, ps, h \cup Span(b.failed), i)
        BY <1>3, <1>5, <3>1 DEF Aligned
      <3>3. i \in Span(b.failed) <=> i \in Span(failed)
        BY <3>1 DEF SameBefore
      <3>4. QED
        BY <1>5, <3>1, <3>2, <3>3 DEF Due
    <2>3. CASE i > d
      <3>1. i - d \in 1..Len(got) /\ d + (i - d) = i
        BY <1>3, <2>1, <2>3
      <3>4. c.done[i] = got[i - d]
        BY <1>1, <1>2, <1>3, <2>1, <2>3
      <3>2. got[i - d] = Due(m, ps, h \cup Span(failed), d + (i - d))
        BY <1>3, <3>1 DEF ChunkDue
      <3>3. QED
        BY <1>5, <3>1, <3>2, <3>4
    <2>4. QED
      BY <1>3, <2>1, <2>2, <2>3
  <1>7. DOMAIN c.part = {}
    BY <1>2
  <1>8. Aligned(c, m, ps, h)
    BY <1>6, <1>7 DEF Aligned
  <1>9. QED
    BY <1>8 DEF c

\* The parts of a batch that is not over.
LEMMA BatchIs ==
    ASSUME NEW n \in Nat, NEW b, Fits(b, n), b.slices # <<>>
    PROVE  /\ b \in Batch /\ Queued(b)
           /\ b.size \in Nat /\ b.done \in Seq(Nat) /\ b.part \in Seq(Nat)
           /\ b.slices \in Seq(Nat \X Nat) /\ b.failed \subseteq Nat
           /\ Len(b.done) \in Nat /\ Len(b.part) \in Nat
           /\ Past(b, b.failed)
           /\ \A i \in Nat : i > Len(b.done) => i \notin Span(b.failed)
  <1>1. b \in Batch /\ Queued(b)
    BY DEF Fits
  <1>2. /\ b.size \in Nat /\ b.done \in Seq(Nat) /\ b.part \in Seq(Nat)
        /\ b.slices \in Seq(Nat \X Nat) /\ b.failed \subseteq Nat
    BY <1>1 DEF Batch
  <1>3. Len(b.done) \in Nat /\ Len(b.part) \in Nat
    BY <1>2
  <1>4. ChunkSize \in Nat \ {0}
    BY RoundAssumption
  <1>5. \A f \in b.failed : f \in Nat /\ f + ChunkSize - 1 <= Len(b.done)
    BY <1>1, <1>2 DEF Queued
  <1>6. Past(b, b.failed)
    BY <1>2, <1>3, <1>4, <1>5 DEF Past
  <1>7. ASSUME NEW i \in Nat, i > Len(b.done), i \in Span(b.failed) PROVE FALSE
    <2>1. PICK f \in b.failed : i \in f..(f + ChunkSize - 1)
      BY <1>7 DEF Span
    <2>2. QED
      BY <1>3, <1>4, <1>5, <1>7, <2>1
  <1>8. QED
    BY <1>1, <1>2, <1>3, <1>6, <1>7

\* The answers to the next slice.
Replies(b, got) == got \in Seq(Nat) /\ Len(got) = High(b) - Low(b) + 1
RepliesDue(b, got, m, ps, h) == \A i \in DOMAIN got : got[i] = Due(m, ps, h, Low(b) + i - 1)

\* The reply to the last slice of a chunk closes it.
LEMMA LastReply ==
    ASSUME NEW n \in Nat, NEW b, Fits(b, n), b.slices # <<>>, Len(b.slices) = 1,
           NEW got, Replies(b, got)
    PROVE  /\ Reply(b, got) = Closed(b, b.part \o got, b.failed)
           /\ b.part \o got \in Seq(Nat)
           /\ Len(b.part \o got) = ChunkEnd(b) - Len(b.done)
           /\ Len(b.part \o got) = Len(b.part) + Len(got)
  <1> DEFINE all == b.part \o got
  <1>1. /\ b \in Batch /\ b.done \in Seq(Nat) /\ b.part \in Seq(Nat)
        /\ Len(b.done) \in Nat /\ Len(b.part) \in Nat
    BY BatchIs
  <1>2. got \in Seq(Nat) /\ Len(got) = High(b) - Low(b) + 1
    BY DEF Replies
  <1>3. all \in Seq(Nat) /\ Len(all) = Len(b.part) + Len(got)
    BY <1>1, <1>2, ConcatProperties
  <1>4. /\ Low(b) \in Nat /\ High(b) \in Nat /\ ChunkEnd(b) \in Nat
        /\ Low(b) = Len(b.done) + Len(b.part) + 1 /\ High(b) = ChunkEnd(b)
    BY SliceIs
  <1>5. Len(all) = ChunkEnd(b) - Len(b.done)
    <2> DEFINE d == Len(b.done)
               e == Len(b.part)
               l == Len(got)
             lo == Low(b)
             hi == High(b)
             end == ChunkEnd(b)
    <2> HIDE DEF d, e, l, lo, hi, end
    <2>1. /\ d \in Nat /\ e \in Nat /\ l = hi - lo + 1 /\ lo = d + e + 1
          /\ lo \in Nat /\ hi \in Nat /\ hi = end
      BY <1>1, <1>2, <1>4 DEF d, e, l, lo, hi, end
    <2>2. e + l = end - d
      BY <2>1
    <2>3. QED
      BY <1>3, <2>2 DEF d, e, l, end
  <1> HIDE DEF all
  <1>6. Reply(b, got) = Close(b, all)
    BY DEF Reply, all
  <1>7. Close(b, all) = Closed(b, all, b.failed)
    <2> DEFINE next == ChunkFrom(b.size, Len(b.done) + Len(all) + 1)
               more == b.done \o all
    <2>1. Close(b, all) = [b EXCEPT !.done = more, !.part = <<>>, !.slices = next]
      BY DEF Close
    <2>2. Closed(b, all, b.failed) = [size |-> b.size, done |-> more, part |-> <<>>,
                                      slices |-> next, failed |-> b.failed]
      BY DEF Closed
    <2> HIDE DEF next, more
    <2>3. QED
      BY <1>1, <2>1, <2>2 DEF Batch
  <1>8. QED
    BY <1>3, <1>5, <1>6, <1>7 DEF all

\* The slice is answered, the next one is to be asked.
Advanced(b, got) ==
    [size |-> b.size, done |-> b.done, part |-> b.part \o got, slices |-> Tail(b.slices),
     failed |-> b.failed]

\* The reply to any other slice goes to the chunk's part.
LEMMA NextReply ==
    ASSUME NEW n \in Nat, NEW b, Fits(b, n), b.slices # <<>>, Len(b.slices) # 1,
           NEW got, Replies(b, got)
    PROVE  /\ Reply(b, got) = Advanced(b, got)
           /\ Fits(Advanced(b, got), n)
           /\ b.part \o got \in Seq(Nat)
           /\ Len(b.part \o got) = Len(b.part) + Len(got)
  <1> DEFINE c == Advanced(b, got)
             s == b.slices
             t == Tail(s)
             last == Len(s)
             all == b.part \o got
  <1>1. /\ b \in Batch /\ Queued(b) /\ b.done \in Seq(Nat) /\ b.part \in Seq(Nat)
        /\ Len(b.done) \in Nat /\ Len(b.part) \in Nat /\ s \in Seq(Nat \X Nat)
    BY BatchIs
  <1>2. got \in Seq(Nat) /\ Len(got) = High(b) - Low(b) + 1
    BY DEF Replies
  <1>3. all \in Seq(Nat) /\ Len(all) = Len(b.part) + Len(got)
    BY <1>1, <1>2, ConcatProperties
  <1>4. /\ Low(b) \in Nat /\ High(b) \in Nat
        /\ Low(b) = Len(b.done) + Len(b.part) + 1
        /\ last \in Nat \ {0}
    BY SliceIs
  <1>5. Reply(b, got) = c
    BY <1>1 DEF Reply, Advanced, Batch
  <1>6. c = [size |-> b.size, done |-> b.done, part |-> all, slices |-> t, failed |-> b.failed]
    BY DEF Advanced
  <1>7. s # <<>> /\ last > 1
    <2>1. last # 1
      OBVIOUS
    <2> HIDE DEF last
    <2>2. last > 1
      BY <1>4, <2>1
    <2>3. QED
      BY <2>2
  <1>8. t \in Seq(Nat \X Nat) /\ Len(t) = last - 1 /\ \A k \in 1..(last - 1) : t[k] = s[k + 1]
    <2> HIDE DEF s, t
    <2>1. s \in Seq(Nat \X Nat) /\ s # <<>>
      BY <1>1, <1>7
    <2>2. QED
      BY <2>1 DEF t
  <1>9. /\ Len(b.done) < b.size
        /\ \A k \in 1..last : s[k][1] <= s[k][2]
        /\ \A k \in 1..(last - 1) : s[k + 1][1] = s[k][2] + 1
        /\ s[last][2] = ChunkEnd(b)
        /\ \A f \in b.failed : f + ChunkSize - 1 <= Len(b.done)
    BY <1>1 DEF Queued
  <1>10. High(b) = s[1][2]
    BY DEF High
  <1>11. b.size <= n
    BY DEF Fits
  <1> HIDE DEF c, s, t, last, all
  <1>12. /\ c.size = b.size /\ c.done = b.done /\ c.part = all /\ c.slices = t
         /\ c.failed = b.failed
    BY <1>6
  <1>13. c \in Batch
    BY <1>1, <1>3, <1>6, <1>8 DEF Batch
  <1>14. ChunkEnd(c) = ChunkEnd(b)
    BY <1>12 DEF ChunkEnd
  <1>15. t[1][1] = Len(b.done) + Len(all) + 1
    <2>1. 1 \in 1..(last - 1) /\ t[1] = s[1 + 1]
      <3>1. last \in Nat /\ last > 1
        BY <1>4, <1>7
      <3>2. 1 \in 1..(last - 1)
        BY <3>1
      <3>3. QED
        BY <1>8, <3>2
    <2>2. s[1 + 1][1] = s[1][2] + 1
      BY <1>9, <2>1
    <2>3. t[1][1] = High(b) + 1
      BY <1>10, <2>1, <2>2
    <2> DEFINE d == Len(b.done)
               e == Len(b.part)
               l == Len(got)
               lo == Low(b)
               hi == High(b)
               k == Len(all)
    <2> HIDE DEF d, e, l, lo, hi, k
    <2>4. d \in Nat /\ e \in Nat /\ l = hi - lo + 1 /\ lo = d + e + 1 /\ k = e + l
          /\ lo \in Nat /\ hi \in Nat
      BY <1>1, <1>2, <1>3, <1>4 DEF d, e, l, lo, hi, k
    <2>5. hi + 1 = d + k + 1
      BY <2>4
    <2>6. QED
      BY <2>3, <2>5 DEF d, k, hi
  <1>16. \A k \in 1..(last - 1) : t[k][1] <= t[k][2]
    <2>1. ASSUME NEW k \in 1..(last - 1) PROVE t[k][1] <= t[k][2]
      <3>1. k + 1 \in 1..last
        BY <1>4, <2>1
      <3>2. s[k + 1][1] <= s[k + 1][2]
        BY <1>9, <3>1
      <3>3. QED
        BY <1>8, <3>2
    <2>2. QED
      BY <2>1
  <1>17. \A k \in 1..((last - 1) - 1) : t[k + 1][1] = t[k][2] + 1
    <2>1. ASSUME NEW k \in 1..((last - 1) - 1) PROVE t[k + 1][1] = t[k][2] + 1
      <3>1. k \in 1..(last - 1) /\ k + 1 \in 1..(last - 1)
        BY <1>4, <2>1
      <3>2. t[k] = s[k + 1] /\ t[k + 1] = s[k + 1 + 1]
        BY <1>8, <3>1
      <3>3. s[k + 1 + 1][1] = s[k + 1][2] + 1
        BY <1>9, <3>1
      <3>4. QED
        BY <3>2, <3>3
    <2>2. QED
      BY <2>1
  <1>18. t[last - 1][2] = ChunkEnd(b)
    <2>1. last - 1 \in 1..(last - 1) /\ (last - 1) + 1 = last
      BY <1>4, <1>7
    <2>2. t[last - 1] = s[(last - 1) + 1]
      BY <1>8, <2>1
    <2>3. QED
      BY <1>9, <2>1, <2>2
  <1>19. Queued(c)
    <2>1. Len(c.slices) = last - 1
      BY <1>8, <1>12
    <2>2. Len(c.done) < c.size
      BY <1>9, <1>12
    <2>3. c.slices[1][1] = Len(c.done) + Len(c.part) + 1
      BY <1>12, <1>15
    <2>4. \A k \in 1..Len(c.slices) : c.slices[k][1] <= c.slices[k][2]
      BY <1>12, <1>16, <2>1
    <2>5. \A k \in 1..(Len(c.slices) - 1) : c.slices[k + 1][1] = c.slices[k][2] + 1
      BY <1>12, <1>17, <2>1
    <2>6. c.slices[Len(c.slices)][2] = ChunkEnd(c)
      BY <1>12, <1>14, <1>18, <2>1
    <2>7. \A f \in c.failed : f + ChunkSize - 1 <= Len(c.done)
      BY <1>9, <1>12
    <2>8. QED
      BY <2>2, <2>3, <2>4, <2>5, <2>6, <2>7 DEF Queued
  <1>20. c.slices # <<>>
    <2>1. Len(c.slices) # 0
      BY <1>4, <1>7, <1>8, <1>12
    <2>2. Len(<<>>) = 0
      OBVIOUS
    <2>3. QED
      BY <2>1, <2>2
  <1>21. c.size <= n
    BY <1>11, <1>12
  <1>22. Fits(c, n)
    BY <1>13, <1>19, <1>20, <1>21 DEF Fits
  <1>23. QED
    BY <1>3, <1>5, <1>22 DEF c, all

\* A reply keeps the shape of a batch.
LEMMA ReplyFits ==
    ASSUME NEW n \in Nat, NEW b, Fits(b, n), b.slices # <<>>, NEW got, Replies(b, got)
    PROVE  Fits(Reply(b, got), n)
  <1>1. CASE Len(b.slices) = 1
    <2> DEFINE all == b.part \o got
    <2>1. /\ Reply(b, got) = Closed(b, all, b.failed) /\ all \in Seq(Nat)
          /\ Len(all) = ChunkEnd(b) - Len(b.done)
      BY <1>1, LastReply
    <2>2. Past(b, b.failed)
      BY BatchIs
    <2> HIDE DEF all
    <2>3. QED
      BY <2>1, <2>2, ClosedFits
  <1>2. CASE Len(b.slices) # 1
    BY <1>2, NextReply
  <1>3. QED
    BY <1>1, <1>2

\* What a slice answers joins what the chunk has answered.
LEMMA PartGrows ==
    ASSUME NEW n \in Nat, NEW b, Fits(b, n), b.slices # <<>>, NEW got, Replies(b, got),
           NEW m, NEW ps, NEW h, Aligned(b, m, ps, h), RepliesDue(b, got, m, ps, h)
    PROVE  \A i \in DOMAIN (b.part \o got) :
              i \in Nat /\ i >= 1 /\ (b.part \o got)[i] = Due(m, ps, h, Len(b.done) + i)
  <1> DEFINE all == b.part \o got
             d == Len(b.done)
             e == Len(b.part)
             l == Len(got)
  <1>1. b.part \in Seq(Nat) /\ d \in Nat /\ e \in Nat
    BY BatchIs
  <1>2. got \in Seq(Nat) /\ l \in Nat /\ DOMAIN got = 1..l /\ DOMAIN b.part = 1..e
    BY <1>1 DEF Replies
  <1>3. DOMAIN all = 1..(e + l)
    BY <1>1, <1>2
  <1>4. Low(b) = d + e + 1
    BY SliceIs
  <1>5. ASSUME NEW i \in DOMAIN all
        PROVE  i \in Nat /\ i >= 1 /\ all[i] = Due(m, ps, h, d + i)
    <2>1. i \in Nat /\ i >= 1 /\ i <= e + l
      BY <1>1, <1>2, <1>3
    <2>2. CASE i <= e
      <3>1. i \in 1..e /\ all[i] = b.part[i]
        BY <1>1, <1>2, <2>1, <2>2
      <3>2. b.part[i] = Due(m, ps, h, d + i)
        BY <1>2, <3>1 DEF Aligned
      <3>3. QED
        BY <2>1, <3>1, <3>2
    <2>3. CASE i > e
      <3>1. i - e \in 1..l /\ Low(b) + (i - e) - 1 = d + i
        <4> HIDE DEF d, e, l
        <4>1. i - e \in 1..l
          BY <1>1, <1>2, <2>1, <2>3
        <4>2. (d + e + 1) + (i - e) - 1 = d + i
          BY <1>1, <2>1
        <4>3. QED
          BY <1>4, <4>1, <4>2
      <3>2. all[i] = got[i - e]
        BY <1>1, <1>2, <2>1, <2>3
      <3>3. got[i - e] = Due(m, ps, h, Low(b) + (i - e) - 1)
        BY <1>2, <3>1 DEF RepliesDue
      <3>4. QED
        BY <2>1, <3>1, <3>2, <3>3
    <2>4. QED
      BY <1>1, <2>1, <2>2, <2>3
  <1>6. QED
    BY <1>5

\* A reply with what is due keeps the batch aligned.
LEMMA ReplyAligned ==
    ASSUME NEW n \in Nat, NEW b, Fits(b, n), b.slices # <<>>, NEW got, Replies(b, got),
           NEW m, NEW ps, NEW h, Aligned(b, m, ps, h), RepliesDue(b, got, m, ps, h)
    PROVE  Aligned(Reply(b, got), m, ps, h)
  <1> DEFINE all == b.part \o got
  <1>1. \A i \in DOMAIN all :
           i \in Nat /\ i >= 1 /\ all[i] = Due(m, ps, h, Len(b.done) + i)
    BY PartGrows
  <1>2. Len(b.done) \in Nat /\ \A i \in Nat : i > Len(b.done) => i \notin Span(b.failed)
    BY BatchIs
  <1>3. CASE Len(b.slices) = 1
    <2>1. Reply(b, got) = Closed(b, all, b.failed) /\ all \in Seq(Nat)
      BY <1>3, LastReply
    <2> HIDE DEF all
    <2>2. ChunkDue(b, all, b.failed, m, ps, h)
      <3>1. ASSUME NEW i \in DOMAIN all
            PROVE  all[i] = Due(m, ps, h \cup Span(b.failed), Len(b.done) + i)
        <4>1. i \in Nat /\ i >= 1 /\ all[i] = Due(m, ps, h, Len(b.done) + i)
          BY <1>1
        <4>2. Len(b.done) + i \in Nat /\ Len(b.done) + i > Len(b.done)
          BY <1>2, <4>1
        <4>3. Len(b.done) + i \notin Span(b.failed)
          BY <1>2, <4>2
        <4>4. QED
          BY <4>1, <4>3 DEF Due
      <3>2. QED
        BY <3>1 DEF ChunkDue
    <2>3. SameBefore(b, b.failed)
      BY DEF SameBefore
    <2>4. QED
      BY <2>1, <2>2, <2>3, ClosedAligned
  <1>4. CASE Len(b.slices) # 1
    <2> DEFINE c == Advanced(b, got)
    <2>1. Reply(b, got) = c
      BY <1>4, NextReply
    <2>2. c.done = b.done /\ c.part = all /\ c.failed = b.failed
      BY DEF Advanced
    <2> HIDE DEF c, all
    <2>3. GivenUp(c) = GivenUp(b)
      BY <2>2 DEF GivenUp
    <2>4. \A i \in DOMAIN c.done : c.done[i] = Due(m, ps, h \cup GivenUp(c), i)
      BY <2>2, <2>3 DEF Aligned
    <2>5. \A i \in DOMAIN c.part : c.part[i] = Due(m, ps, h, Len(c.done) + i)
      BY <1>1, <2>2
    <2>6. QED
      BY <2>1, <2>4, <2>5 DEF Aligned
  <1>5. QED
    BY <1>3, <1>4

\* aggregate answers every call of the slice, and for a slice within the gas
\* cap none of them is a heavy one.
LEMMA AggregateReplies ==
    ASSUME NEW o \in Requests, NEW ps \in Seq(Shapes(o)), NEW m, IsMarket(m), NEW h,
           NEW b, Fits(b, Len(ps)), b.slices # <<>>
    PROVE  /\ Replies(b, Aggregate(m, ps, b))
           /\ ~Overruns(b, h) => RepliesDue(b, Aggregate(m, ps, b), m, ps, h)
  <1> DEFINE lo == Low(b)
             hi == High(b)
             got == Aggregate(m, ps, b)
             n == Len(ps)
  <1>1. n \in Nat /\ \A i \in 1..n : ps[i] \in Shapes(o)
    OBVIOUS
  <1>2. lo \in Nat \ {0} /\ hi \in Nat /\ lo <= hi /\ hi <= n
    <2>1. b.size \in Nat /\ b.size <= n
      BY <1>1 DEF Fits, Batch
    <2>2. /\ lo \in Nat \ {0} /\ hi \in Nat /\ lo <= hi /\ hi <= ChunkEnd(b)
          /\ ChunkEnd(b) \in Nat /\ ChunkEnd(b) <= b.size
      BY <1>1, SliceIs
    <2> HIDE DEF lo, hi, n
    <2>3. hi <= b.size
      BY <2>1, <2>2
    <2>4. QED
      BY <1>1, <2>1, <2>2, <2>3
  <1>3. Head(b.slices) = b.slices[1]
    BY <1>1, SliceIs
  <1>4. got = [i \in 1..(hi - lo + 1) |-> Answer(m, CallOf(ps[lo + i - 1]))]
    BY <1>3 DEF Aggregate, Low, High
  <1>5. Overruns(b, h) <=> hi - lo + 1 > GasCap \/ \E i \in lo..hi : i \in h
    BY <1>3 DEF Overruns, Low, High
  <1> HIDE DEF lo, hi, n, got
  <1>6. ASSUME NEW i \in 1..(hi - lo + 1)
        PROVE  got[i] \in Nat /\ (~Overruns(b, h) => got[i] = Due(m, ps, h, lo + i - 1))
    <2> DEFINE p == ps[lo + i - 1]
    <2>1. lo + i - 1 \in 1..n /\ lo + i - 1 \in lo..hi
      BY <1>1, <1>2
    <2>2. p \in Shapes(o)
      BY <1>1, <2>1
    <2>3. got[i] = Answer(m, CallOf(p))
      BY <1>4
    <2>4. o.kind \in {"sell", "buy"} /\ p.amount \in Nat
      BY <2>2, ShapeAmount
    <2> HIDE DEF p
    <2>5. For(m, p, p.amount) \in Nat
      BY <2>2, <2>4, ForIs
    <2>6. Answer(m, CallOf(p)) = For(m, p, p.amount) /\ Meant(m, p) = For(m, p, p.amount)
      BY <2>2, AnswerIs
    <2>7. ~Overruns(b, h) => lo + i - 1 \notin h
      BY <1>5, <2>1
    <2>8. QED
      BY <2>3, <2>5, <2>6, <2>7 DEF Due, p
  <1>7. Len(got) = hi - lo + 1 /\ got \in Seq(Nat) /\ DOMAIN got = 1..(hi - lo + 1)
    <2>1. hi - lo + 1 \in Nat
      BY <1>2
    <2>2. DOMAIN got = 1..(hi - lo + 1)
      BY <1>4
    <2>3. got \in [1..(hi - lo + 1) -> Nat]
      BY <1>4, <1>6, <2>2
    <2>4. QED
      BY <2>1, <2>2, <2>3
  <1>8. Replies(b, got)
    BY <1>7 DEF Replies, lo, hi
  <1>9. ~Overruns(b, h) => RepliesDue(b, got, m, ps, h)
    BY <1>6, <1>7 DEF RepliesDue, lo
  <1>10. QED
    BY <1>8, <1>9 DEF got

\* Of one call that overruns the gas cap the answer is given up.
LEMMA ZeroReplies ==
    ASSUME NEW n \in Nat, NEW b, Fits(b, n), b.slices # <<>>, Low(b) = High(b)
    PROVE  /\ Replies(b, <<0>>)
           /\ \A m, ps, h : Overruns(b, h) => RepliesDue(b, <<0>>, m, ps, h)
  <1> DEFINE lo == Low(b)
             hi == High(b)
  <1>1. lo \in Nat /\ hi = lo /\ Head(b.slices) = b.slices[1]
    BY SliceIs
  <1>2. GasCap \in Nat \ {0}
    BY RoundAssumption
  <1>3. ASSUME NEW h, Overruns(b, h) PROVE lo \in h
    <2>1. hi - lo + 1 > GasCap \/ \E i \in lo..hi : i \in h
      BY <1>1, <1>3 DEF Overruns, Low, High
    <2> HIDE DEF lo, hi
    <2>2. ~(hi - lo + 1 > GasCap)
      BY <1>1, <1>2
    <2>3. QED
      BY <1>1, <2>1, <2>2
  <1>4. <<0>> \in Seq(Nat) /\ Len(<<0>>) = 1 /\ DOMAIN <<0>> = {1} /\ <<0>>[1] = 0
    OBVIOUS
  <1>5. Replies(b, <<0>>)
    <2>1. hi - lo + 1 = 1
      <3> HIDE DEF lo, hi
      <3>1. QED
        BY <1>1
    <2>2. QED
      BY <1>4, <2>1 DEF Replies
  <1>6. ASSUME NEW m, NEW ps, NEW h, Overruns(b, h) PROVE RepliesDue(b, <<0>>, m, ps, h)
    <2>1. Due(m, ps, h, lo) = 0
      BY <1>3, <1>6 DEF Due
    <2>2. lo + 1 - 1 = lo
      <3> HIDE DEF lo, hi
      <3>1. QED
        BY <1>1
    <2>3. \A i \in DOMAIN <<0>> : <<0>>[i] = Due(m, ps, h, lo + i - 1)
      BY <1>4, <2>1, <2>2
    <2>4. QED
      BY <2>3 DEF RepliesDue
  <1>7. QED
    BY <1>5, <1>6

\* The slice in two halves.
Halved(b, mid) ==
    [size |-> b.size, done |-> b.done, part |-> b.part,
     slices |-> << <<Low(b), mid - 1>>, <<mid, High(b)>> >> \o Tail(b.slices),
     failed |-> b.failed]

\* Splitting a slice keeps the shape of a batch.
LEMMA HalvedFits ==
    ASSUME NEW n \in Nat, NEW b, Fits(b, n), b.slices # <<>>,
           NEW mid \in Nat, Low(b) < mid, mid <= High(b)
    PROVE  Fits(Halved(b, mid), n)
  <1> DEFINE c == Halved(b, mid)
             s == b.slices
             lo == Low(b)
             hi == High(b)
             first == <<lo, mid - 1>>
             second == <<mid, hi>>
             t == << first, second >> \o Tail(s)
             last == Len(s)
  <1>1. /\ b \in Batch /\ Queued(b) /\ b.done \in Seq(Nat) /\ b.part \in Seq(Nat)
        /\ Len(b.done) \in Nat /\ Len(b.part) \in Nat /\ s \in Seq(Nat \X Nat)
    BY BatchIs
  <1>2. /\ lo \in Nat \ {0} /\ hi \in Nat /\ lo <= hi
        /\ lo = Len(b.done) + Len(b.part) + 1 /\ last \in Nat \ {0}
        /\ (last = 1 => hi = ChunkEnd(b))
    BY SliceIs
  <1>3. /\ Len(b.done) < b.size
        /\ \A k \in 1..last : s[k][1] <= s[k][2]
        /\ \A k \in 1..(last - 1) : s[k + 1][1] = s[k][2] + 1
        /\ s[last][2] = ChunkEnd(b)
        /\ \A f \in b.failed : f + ChunkSize - 1 <= Len(b.done)
    BY <1>1 DEF Queued
  <1>4. s[1][1] = lo /\ s[1][2] = hi /\ lo < mid /\ mid <= hi /\ b.size <= n
    BY DEF Low, High, Fits
  <1>5. c = [size |-> b.size, done |-> b.done, part |-> b.part, slices |-> t,
             failed |-> b.failed]
    BY DEF Halved
  <1> HIDE DEF c, lo, hi
  <1>6. mid - 1 \in Nat /\ lo <= mid - 1
    <2>1. lo \in Nat /\ lo < mid
      BY <1>2, <1>4
    <2>2. QED
      BY <2>1
  <1>7. /\ t \in Seq(Nat \X Nat) /\ Len(t) = last + 1
        /\ t[1] = first /\ t[2] = second /\ \A k \in 3..(last + 1) : t[k] = s[k - 1]
    <2>1. first \in Nat \X Nat /\ second \in Nat \X Nat
      <3>1. QED
        BY <1>2, <1>6
    <2> HIDE DEF first, second
    <2>2. << first, second >> \in Seq(Nat \X Nat) /\ Len(<< first, second >>) = 2
          /\ << first, second >>[1] = first /\ << first, second >>[2] = second
      BY <2>1
    <2>3. /\ Tail(s) \in Seq(Nat \X Nat) /\ Len(Tail(s)) = last - 1
          /\ \A k \in 1..(last - 1) : Tail(s)[k] = s[k + 1]
      BY <1>1, <1>2
    <2> DEFINE u == Tail(s)
               v == << first, second >>
    <2> HIDE DEF u, v, s, last
    <2>4. /\ v \in Seq(Nat \X Nat) /\ Len(v) = 2 /\ v[1] = first /\ v[2] = second
          /\ u \in Seq(Nat \X Nat) /\ Len(u) = last - 1 /\ t = v \o u
          /\ \A k \in 1..(last - 1) : u[k] = s[k + 1]
      BY <2>2, <2>3 DEF u, v
    <2> HIDE DEF t
    <2>5. /\ t \in Seq(Nat \X Nat) /\ Len(t) = Len(v) + Len(u)
          /\ \A k \in 1..(Len(v) + Len(u)) : t[k] = IF k <= Len(v) THEN v[k] ELSE u[k - Len(v)]
      BY <2>4, ConcatProperties
    <2>6. Len(t) = last + 1
      BY <1>2, <2>4, <2>5
    <2>7. \A k \in 1..(last + 1) : t[k] = IF k <= 2 THEN v[k] ELSE u[k - 2]
      <3>1. Len(v) = 2 /\ Len(v) + Len(u) = last + 1
        BY <1>2, <2>4
      <3>2. QED
        BY <2>5, <3>1
    <2>8. 1 \in 1..(last + 1) /\ 2 \in 1..(last + 1)
      BY <1>2
    <2>9. t[1] = first /\ t[2] = second
      <3>1. t[1] = IF 1 <= 2 THEN v[1] ELSE u[1 - 2]
        BY <2>7, <2>8
      <3>2. t[2] = IF 2 <= 2 THEN v[2] ELSE u[2 - 2]
        BY <2>7, <2>8
      <3>3. t[1] = v[1] /\ t[2] = v[2]
        BY <3>1, <3>2
      <3>4. QED
        BY <2>4, <3>3
    <2>10. ASSUME NEW k \in 3..(last + 1) PROVE t[k] = s[k - 1]
      <3>1. k \in 1..(last + 1) /\ ~(k <= 2) /\ k - 2 \in 1..(last - 1) /\ (k - 2) + 1 = k - 1
        BY <1>2, <2>10
      <3>2. t[k] = u[k - 2] /\ u[k - 2] = s[(k - 2) + 1]
        BY <2>4, <2>7, <3>1
      <3>3. QED
        BY <3>1, <3>2
    <2>11. QED
      BY <2>5, <2>6, <2>9, <2>10
  <1>8. first[1] = lo /\ first[2] = mid - 1 /\ second[1] = mid /\ second[2] = hi
    OBVIOUS
  <1> HIDE DEF first, second, s, t, last
  <1>9. c.size = b.size /\ c.done = b.done /\ c.part = b.part /\ c.slices = t
        /\ c.failed = b.failed
    BY <1>5
  <1>10. c \in Batch
    BY <1>1, <1>5, <1>7 DEF Batch
  <1>11. ChunkEnd(c) = ChunkEnd(b)
    BY <1>9 DEF ChunkEnd
  <1>12. ASSUME NEW k \in 1..(last + 1) PROVE t[k][1] <= t[k][2]
    <2>1. CASE k = 1
      <3>1. t[1][1] = lo /\ t[1][2] = mid - 1
        BY <1>7, <1>8
      <3>2. QED
        BY <1>6, <2>1, <3>1
    <2>2. CASE k = 2
      BY <1>2, <1>4, <1>7, <1>8, <2>2
    <2>3. CASE k # 1 /\ k # 2
      <3>1. k \in 3..(last + 1) /\ k - 1 \in 1..last
        BY <1>2, <1>12, <2>3
      <3>2. s[k - 1][1] <= s[k - 1][2]
        BY <1>3, <3>1
      <3>3. QED
        BY <1>7, <3>1, <3>2
    <2>4. QED
      BY <2>1, <2>2, <2>3
  <1>13. ASSUME NEW k \in 1..last PROVE t[k + 1][1] = t[k][2] + 1
    <2>1. CASE k = 1
      <3>1. t[1 + 1][1] = mid /\ t[1][2] = mid - 1
        BY <1>7, <1>8
      <3>2. QED
        BY <2>1, <3>1
    <2>2. CASE k = 2
      <3>1. t[2][2] = hi
        BY <1>7, <1>8
      <3>2. 2 + 1 \in 3..(last + 1) /\ 1 \in 1..(last - 1)
        BY <1>2, <1>13, <2>2
      <3>3. t[2 + 1] = s[2 + 1 - 1]
        BY <1>7, <3>2
      <3>4. s[1 + 1][1] = s[1][2] + 1
        BY <1>3, <3>2
      <3>5. QED
        BY <1>4, <2>2, <3>1, <3>3, <3>4
    <2>3. CASE k # 1 /\ k # 2
      <3>1. k \in 3..(last + 1) /\ k + 1 \in 3..(last + 1) /\ k - 1 \in 1..(last - 1)
            /\ (k + 1) - 1 = (k - 1) + 1
        BY <1>2, <1>13, <2>3
      <3>2. t[k] = s[k - 1] /\ t[k + 1] = s[(k + 1) - 1]
        BY <1>7, <3>1
      <3>3. s[(k - 1) + 1][1] = s[k - 1][2] + 1
        BY <1>3, <3>1
      <3>4. QED
        BY <3>1, <3>2, <3>3
    <2>4. QED
      BY <2>1, <2>2, <2>3
  <1>14. t[last + 1][2] = ChunkEnd(b)
    <2>1. CASE last = 1
      <3>1. t[last + 1] = second
        BY <1>7, <2>1
      <3>2. QED
        BY <1>2, <1>8, <2>1, <3>1
    <2>2. CASE last # 1
      <3>1. last + 1 \in 3..(last + 1) /\ (last + 1) - 1 = last
        BY <1>2, <2>2
      <3>2. QED
        BY <1>3, <1>7, <3>1
    <2>3. QED
      BY <2>1, <2>2
  <1>15. Queued(c)
    <2>1. Len(c.slices) = last + 1 /\ (last + 1) - 1 = last
      BY <1>2, <1>7, <1>9
    <2>2. Len(c.done) < c.size
      BY <1>3, <1>9
    <2>3. c.slices[1][1] = Len(c.done) + Len(c.part) + 1
      BY <1>2, <1>7, <1>8, <1>9
    <2>4. \A k \in 1..Len(c.slices) : c.slices[k][1] <= c.slices[k][2]
      BY <1>9, <1>12, <2>1
    <2>5. \A k \in 1..(Len(c.slices) - 1) : c.slices[k + 1][1] = c.slices[k][2] + 1
      BY <1>9, <1>13, <2>1
    <2>6. c.slices[Len(c.slices)][2] = ChunkEnd(c)
      BY <1>9, <1>11, <1>14, <2>1
    <2>7. \A f \in c.failed : f + ChunkSize - 1 <= Len(c.done)
      BY <1>3, <1>9
    <2>8. QED
      BY <2>2, <2>3, <2>4, <2>5, <2>6, <2>7 DEF Queued
  <1>16. c.slices # <<>>
    <2>1. Len(c.slices) # 0
      BY <1>2, <1>7, <1>9
    <2>2. Len(<<>>) = 0
      OBVIOUS
    <2>3. QED
      BY <2>1, <2>2
  <1>17. c.size <= n
    BY <1>4, <1>9
  <1>18. Fits(c, n)
    BY <1>10, <1>15, <1>16, <1>17 DEF Fits
  <1>19. QED
    BY <1>18 DEF c

\* Splitting a slice moves no answer.
LEMMA HalvedAligned ==
    ASSUME NEW b, NEW mid, NEW m, NEW ps, NEW h, Aligned(b, m, ps, h)
    PROVE  Aligned(Halved(b, mid), m, ps, h)
  <1> DEFINE c == Halved(b, mid)
  <1>1. c.done = b.done /\ c.part = b.part /\ c.failed = b.failed
    BY DEF Halved
  <1> HIDE DEF c
  <1>2. GivenUp(c) = GivenUp(b)
    BY <1>1 DEF GivenUp
  <1>3. Aligned(c, m, ps, h)
    BY <1>1, <1>2 DEF Aligned
  <1>4. QED
    BY <1>3 DEF c

\* A batch in order, and true as long as the market stands still.
InOrder(b, m, ps, h, still) == Fits(b, Len(ps)) /\ (still => Aligned(b, m, ps, h))

\* A slice that overruns the gas is split, or given up when it is a single
\* call, and every answer stays with its call.
LEMMA BisectKeeps ==
    ASSUME NEW o \in Requests, NEW ps \in Seq(Shapes(o)), NEW m, NEW h, NEW b, NEW still,
           InOrder(b, m, ps, h, still), b.slices # <<>>, Overruns(b, h)
    PROVE  InOrder(Bisect(b), m, ps, h, still)
  <1> DEFINE lo == Low(b)
             hi == High(b)
             n == Len(ps)
             mid == lo + (hi - lo + 1) \div 2
  <1>1. n \in Nat /\ Fits(b, n)
    BY DEF InOrder
  <1>2. lo \in Nat \ {0} /\ hi \in Nat /\ lo <= hi /\ Head(b.slices) = b.slices[1]
    BY <1>1, SliceIs
  <1>3. CASE lo = hi
    <2>1. Bisect(b) = Reply(b, <<0>>)
      BY <1>2, <1>3 DEF Bisect, Low, High
    <2>2. Replies(b, <<0>>) /\ RepliesDue(b, <<0>>, m, ps, h)
      <3> HIDE DEF n
      <3>1. QED
        BY <1>1, <1>3, ZeroReplies
    <2> HIDE DEF n
    <2>3. Fits(Reply(b, <<0>>), n)
      BY <1>1, <2>2, ReplyFits
    <2>4. ASSUME still PROVE Aligned(Reply(b, <<0>>), m, ps, h)
      <3>1. Aligned(b, m, ps, h)
        BY <2>4 DEF InOrder
      <3>2. QED
        BY <1>1, <2>2, <3>1, ReplyAligned
    <2>5. QED
      BY <2>1, <2>3, <2>4 DEF InOrder, n
  <1>4. CASE lo # hi
    <2>1. Bisect(b) = [b EXCEPT !.slices = << <<lo, mid - 1>>, <<mid, hi>> >> \o Tail(b.slices)]
      BY <1>2, <1>4 DEF Bisect, Low, High
    <2>2. b \in Batch
      BY <1>1 DEF Fits
    <2>3. Bisect(b) = Halved(b, mid)
      <3> HIDE DEF mid, lo, hi
      <3> DEFINE t == << <<lo, mid - 1>>, <<mid, hi>> >> \o Tail(b.slices)
      <3>1. Halved(b, mid) = [size |-> b.size, done |-> b.done, part |-> b.part,
                              slices |-> t, failed |-> b.failed]
        BY DEF Halved, lo, hi
      <3>2. Bisect(b) = [b EXCEPT !.slices = t]
        BY <2>1
      <3> HIDE DEF t
      <3>3. QED
        BY <2>2, <3>1, <3>2 DEF Batch
    <2>4. mid \in Nat /\ lo < mid /\ mid <= hi
      <3> HIDE DEF lo, hi
      <3>1. hi - lo + 1 \in Nat /\ hi - lo + 1 >= 2
        BY <1>2, <1>4
      <3> DEFINE k == hi - lo + 1
      <3>2. k \div 2 \in Nat /\ k \div 2 >= 1 /\ k \div 2 <= k - 1
        <4> HIDE DEF k
        <4>1. k \in Nat /\ k >= 2
          BY <3>1 DEF k
        <4>2. QED
          BY <4>1
      <3>3. QED
        BY <1>2, <3>2
    <2> HIDE DEF mid, n
    <2>5. Fits(Halved(b, mid), n)
      BY <1>1, <2>4, HalvedFits DEF lo, hi
    <2>6. still => Aligned(Halved(b, mid), m, ps, h)
      BY HalvedAligned DEF InOrder
    <2>7. QED
      BY <2>3, <2>5, <2>6 DEF InOrder, n
  <1>5. QED
    BY <1>3, <1>4

\* An answered slice leaves every answer with its call.
LEMMA AnswerKeeps ==
    ASSUME NEW o \in Requests, NEW ps \in Seq(Shapes(o)), NEW m, IsMarket(m), NEW h, NEW b,
           NEW still, InOrder(b, m, ps, h, still), b.slices # <<>>, ~Overruns(b, h)
    PROVE  InOrder(Reply(b, Aggregate(m, ps, b)), m, ps, h, still)
  <1> DEFINE got == Aggregate(m, ps, b)
             n == Len(ps)
  <1>1. n \in Nat /\ Fits(b, n)
    BY DEF InOrder
  <1>2. Replies(b, got) /\ RepliesDue(b, got, m, ps, h)
    BY <1>1, AggregateReplies
  <1> HIDE DEF got, n
  <1>3. Fits(Reply(b, got), n)
    BY <1>1, <1>2, ReplyFits
  <1>4. ASSUME still PROVE Aligned(Reply(b, got), m, ps, h)
    <2>1. Aligned(b, m, ps, h)
      BY <1>4 DEF InOrder
    <2>2. QED
      BY <1>1, <1>2, <2>1, ReplyAligned
  <1>5. QED
    BY <1>3, <1>4 DEF InOrder, got, n

\* A chunk that is given up is zero, and known to be.
LEMMA DropKeeps ==
    ASSUME NEW ps, Len(ps) \in Nat, NEW m, NEW h, NEW b, NEW still,
           InOrder(b, m, ps, h, still), b.slices # <<>>
    PROVE  InOrder(DropChunk(b), m, ps, h, still)
  <1> DEFINE n == Len(ps)
             d == Len(b.done)
             first == d + 1
             end == ChunkEnd(b)
             size == end - d
             zeros == [i \in 1..size |-> 0]
             failed == b.failed \cup {first}
  <1>1. n \in Nat /\ Fits(b, n)
    BY DEF InOrder
  <1>2. /\ b \in Batch /\ d \in Nat /\ b.size \in Nat /\ b.failed \subseteq Nat
        /\ d < b.size /\ Past(b, b.failed)
    BY <1>1, BatchIs DEF Queued
  <1>3. ChunkSize \in Nat \ {0}
    BY RoundAssumption
  <1>4. end = (IF d + ChunkSize < b.size THEN d + ChunkSize ELSE b.size)
    BY DEF ChunkEnd
  <1>5. end \in Nat /\ size \in Nat /\ size <= ChunkSize
    <2> HIDE DEF d, end
    <2>1. QED
      BY <1>2, <1>3, <1>4
  <1>6. ChunkFrom(b.size, first)[1][2] = end
    <2>1. IsChunk(ChunkFrom(b.size, first), b.size, first)
      <3> HIDE DEF d
      <3>1. first \in Nat \ {0}
        BY <1>2
      <3>2. QED
        BY <1>2, <3>1, ChunkFromIs
    <2>2. first <= b.size /\ first + ChunkSize - 1 = d + ChunkSize
      <3> HIDE DEF d
      <3>1. QED
        BY <1>2, <1>3
    <2>3. ChunkFrom(b.size, first)[1][2]
            = IF first + ChunkSize - 1 < b.size THEN first + ChunkSize - 1 ELSE b.size
      BY <2>1, <2>2 DEF IsChunk
    <2>4. QED
      BY <1>4, <2>2, <2>3
  <1>7. DropChunk(b) = Closed(b, zeros, failed)
    <2> DEFINE next == ChunkFrom(b.size, d + Len(zeros) + 1)
               more == b.done \o zeros
    <2>1. end - first + 1 = size
      <3> HIDE DEF d, end
      <3>1. QED
        BY <1>2, <1>5
    <2>2. DropChunk(b) = [Close(b, zeros) EXCEPT !.failed = @ \cup {first}]
      BY <1>6, <2>1 DEF DropChunk
    <2>3. Close(b, zeros) = [b EXCEPT !.done = more, !.part = <<>>, !.slices = next]
      BY DEF Close
    <2>4. Closed(b, zeros, failed) = [size |-> b.size, done |-> more, part |-> <<>>,
                                      slices |-> next, failed |-> failed]
      BY DEF Closed
    <2>5. Close(b, zeros) = [size |-> b.size, done |-> more, part |-> <<>>, slices |-> next,
                             failed |-> b.failed]
      <3> HIDE DEF next, more, zeros
      <3>1. QED
        BY <1>2, <2>3 DEF Batch
    <2> DEFINE old == [size |-> b.size, done |-> more, part |-> <<>>, slices |-> next,
                       failed |-> b.failed]
    <2> HIDE DEF next, more, zeros, first
    <2>6. DropChunk(b) = [old EXCEPT !.failed = b.failed \cup {first}]
      BY <2>2, <2>5
    <2>7. [old EXCEPT !.failed = b.failed \cup {first}]
            = [size |-> b.size, done |-> more, part |-> <<>>, slices |-> next, failed |-> failed]
      <3> DEFINE z == b.size
                 f == b.failed
      <3> HIDE DEF z, f, failed
      <3>1. \A g : [[size |-> z, done |-> more, part |-> <<>>, slices |-> next, failed |-> f]
                      EXCEPT !.failed = g]
                     = [size |-> z, done |-> more, part |-> <<>>, slices |-> next, failed |-> g]
        OBVIOUS
      <3>2. QED
        BY <3>1 DEF z, f, failed
    <2>8. QED
      BY <2>4, <2>6, <2>7
  <1>8. zeros \in Seq(Nat) /\ Len(zeros) = size /\ DOMAIN zeros = 1..size
    <2> HIDE DEF size
    <2>1. QED
      BY <1>5
  <1>9. Past(b, failed)
    BY <1>2 DEF Past
  <1>10. Fits(Closed(b, zeros, failed), n)
    <2> HIDE DEF zeros, failed, n
    <2>1. Len(zeros) = ChunkEnd(b) - Len(b.done)
      BY <1>8
    <2>2. QED
      BY <1>1, <1>8, <1>9, <2>1, ClosedFits
  <1>11. Span(failed) = Span(b.failed) \cup (first..(first + ChunkSize - 1))
    BY DEF Span
  <1>12. ChunkDue(b, zeros, failed, m, ps, h)
    <2>1. ASSUME NEW i \in DOMAIN zeros
          PROVE  zeros[i] = Due(m, ps, h \cup Span(failed), d + i)
      <3>1. zeros[i] = 0 /\ i \in 1..size
        BY <1>8
      <3>2. d + i \in first..(first + ChunkSize - 1)
        <4> HIDE DEF size, d
        <4>1. QED
          BY <1>2, <1>3, <1>5, <3>1
      <3>3. d + i \in Span(failed)
        <4> HIDE DEF first, failed, d
        <4>1. QED
          BY <1>11, <3>2
      <3> HIDE DEF zeros
      <3>4. QED
        BY <3>1, <3>3 DEF Due
    <2>2. QED
      BY <2>1 DEF ChunkDue
  <1>13. SameBefore(b, failed)
    <2>1. ASSUME NEW i \in 1..d PROVE i \notin first..(first + ChunkSize - 1)
      <3> HIDE DEF d
      <3>1. QED
        BY <1>2, <2>1
    <2> HIDE DEF first, failed
    <2>2. QED
      BY <1>11, <2>1 DEF SameBefore
  <1>14. ASSUME still PROVE Aligned(Closed(b, zeros, failed), m, ps, h)
    <2>1. Aligned(b, m, ps, h)
      BY <1>14 DEF InOrder
    <2> HIDE DEF zeros, failed, n
    <2>2. QED
      BY <1>1, <1>8, <1>12, <1>13, <2>1, ClosedAligned
  <1>15. QED
    BY <1>7, <1>10, <1>14 DEF InOrder

-----------------------------------------------------------------------------
(* Selection.                                                              *)

\* Quotes in one direction, where there are any.
Comparable(quotes, indices, x) ==
    \A i \in indices : /\ quotes[i].amount \in Nat
                       /\ quotes[i].amount # 0 => (quotes[i].path.exactOut <=> x)

\* What BestAmong returns is one of the quotes.
LEMMA BestIsQuoted ==
    ASSUME NEW quotes, NEW n \in Nat, NEW indices, indices \subseteq 1..n,
           NEW x \in BOOLEAN, Comparable(quotes, indices, x)
    PROVE  \/ BestAmong(quotes, indices) = NoQuote
           \/ \E i \in indices : /\ BestAmong(quotes, indices) = quotes[i]
                                 /\ quotes[i].amount # 0
  <1> DEFINE viable == {i \in indices : quotes[i].amount # 0}
             beats(i, j) == IF x THEN quotes[i].amount < quotes[j].amount
                            ELSE quotes[i].amount > quotes[j].amount
             Best(i, k) == /\ i \in viable /\ i <= k
                           /\ \A j \in viable : j <= k => ~beats(j, i) /\ (j < i => beats(i, j))
             S == {k \in 0..n : (\A j \in viable : j > k) \/ \E i \in viable : Best(i, k)}
  <1>1. \A i \in viable : i \in Nat /\ i >= 1 /\ i <= n /\ quotes[i].amount \in Nat
    BY DEF Comparable
  <1>2. \A i, j \in viable : Better(quotes[i], quotes[j]) <=> beats(i, j)
    BY DEF Better, Comparable
  <1>3. \A i, j, k \in viable : /\ ~beats(i, i)
                                /\ beats(i, j) /\ ~beats(k, j) => beats(i, k) /\ ~beats(k, i)
    BY <1>1
  <1> HIDE DEF viable, beats
  <1>4. 0 \in S
    BY <1>1
  <1>5. ASSUME NEW k \in 1..n, k - 1 \in S PROVE k \in S
    <2>1. CASE k \notin viable
      <3>1. CASE \A j \in viable : j > k - 1
        <4>1. \A j \in viable : j > k
          BY <1>1, <2>1, <3>1
        <4>2. QED
          BY <4>1
      <3>2. CASE \E i \in viable : Best(i, k - 1)
        <4>1. PICK i \in viable : Best(i, k - 1)
          BY <3>2
        <4>2. \A j \in viable : j <= k => j <= k - 1
          BY <1>1, <2>1
        <4>3. i <= k
          BY <1>1, <4>1
        <4>4. Best(i, k)
          BY <4>1, <4>2, <4>3
        <4>5. QED
          BY <4>4
      <3>3. QED
        BY <1>5, <3>1, <3>2
    <2>2. CASE k \in viable /\ \A j \in viable : j > k - 1
      <3>1. \A j \in viable : j <= k => j = k
        BY <1>1, <2>2
      <3>2. Best(k, k)
        BY <1>3, <2>2, <3>1
      <3>3. QED
        BY <2>2, <3>2
    <2>3. CASE k \in viable /\ \E i \in viable : Best(i, k - 1)
      <3>1. PICK i \in viable : Best(i, k - 1)
        BY <2>3
      <3>2. \A j \in viable : j <= k => j <= k - 1 \/ j = k
        BY <1>1
      <3>3. i < k
        BY <1>1, <3>1
      <3>4. CASE beats(k, i)
        <4>1. ASSUME NEW j \in viable, j <= k PROVE ~beats(j, k) /\ (j < k => beats(k, j))
          <5>1. CASE j = k
            BY <1>3, <2>3, <5>1
          <5>2. CASE j <= k - 1
            <6>1. ~beats(j, i)
              BY <3>1, <5>2
            <6>2. QED
              BY <1>3, <2>3, <3>4, <6>1
          <5>3. QED
            BY <3>2, <4>1, <5>1, <5>2
        <4>2. Best(k, k)
          BY <2>3, <4>1
        <4>3. QED
          BY <2>3, <4>2
      <3>5. CASE ~beats(k, i)
        <4>1. ASSUME NEW j \in viable, j <= k PROVE ~beats(j, i) /\ (j < i => beats(i, j))
          <5>1. CASE j = k
            BY <1>1, <3>3, <3>5, <5>1
          <5>2. CASE j <= k - 1
            BY <3>1, <5>2
          <5>3. QED
            BY <3>2, <4>1, <5>1, <5>2
        <4>2. i <= k
          BY <1>1, <3>1, <3>3
        <4>3. Best(i, k)
          BY <3>1, <4>1, <4>2
        <4>4. QED
          BY <4>3
      <3>6. QED
        BY <3>4, <3>5
    <2>4. QED
      BY <1>5, <2>1, <2>2, <2>3
  <1>6. n \in S
    <2> HIDE DEF S
    <2>1. Inductive(S, n)
      BY <1>4, <1>5 DEF Inductive
    <2>2. n \in 0..n
      OBVIOUS
    <2>3. QED
      BY <2>1, <2>2, UpToInduction
  <1>7. CASE viable = {}
    BY <1>7 DEF BestAmong, viable
  <1> DEFINE isBest(i) == \A j \in viable : /\ ~Better(quotes[j], quotes[i])
                                            /\ j < i => Better(quotes[i], quotes[j])
             c == CHOOSE i \in viable : isBest(i)
  <1>8. BestAmong(quotes, indices) = IF viable = {} THEN NoQuote ELSE quotes[c]
    BY Zenon DEF BestAmong, viable
  <1>9. CASE viable # {}
    <2>1. PICK k \in viable : Best(k, n)
      BY <1>1, <1>6, <1>9
    <2>2. isBest(k)
      BY <1>1, <1>2, <2>1
    <2>3. c \in viable
      BY <2>2
    <2> HIDE DEF c
    <2>4. c \in indices /\ quotes[c].amount # 0
      BY <2>3 DEF viable
    <2>5. QED
      BY <1>9, <1>8, <2>4
  <1>10. QED
    BY <1>7, <1>9

\* Quotes of candidates, true as long as the market stands still, but for those
\* that were lost.
GoodQuotes(T, m, still) ==
    {q \in [path : T, amount : Nat] :
        still /\ q.amount # 0 => q.amount = For(m, q.path, q.path.amount)}

\* The quotes of a finished batch belong to its paths, and hold in a market
\* that has not moved.
LEMMA QuotesAreGood ==
    ASSUME NEW o \in Requests, NEW m, IsMarket(m), NEW T, T \subseteq Shapes(o),
           NEW ps \in Seq(T), NEW b, NEW h, NEW still \in BOOLEAN,
           InOrder(b, m, ps, h, still), b.slices = <<>>
    PROVE  QuotesOf(b, ps) \in Seq(GoodQuotes(T, m, still))
  <1> DEFINE n == Len(b.done)
             qs == QuotesOf(b, ps)
  <1>1. b.done \in Seq(Nat) /\ n \in Nat /\ n <= Len(ps) /\ Len(ps) \in Nat
    <2>1. b \in Batch /\ b.size <= Len(ps) /\ n = b.size
      BY DEF InOrder, Fits
    <2>2. QED
      BY <2>1 DEF Batch
  <1>2. qs = [i \in 1..n |-> [path |-> ps[i], amount |-> b.done[i]]]
    BY <1>1 DEF QuotesOf
  <1> HIDE DEF qs
  <1>3. ASSUME NEW i \in 1..n PROVE qs[i] \in GoodQuotes(T, m, still)
    <2> DEFINE p == ps[i]
               a == b.done[i]
    <2>1. p \in T /\ a \in Nat /\ i \in DOMAIN b.done
      BY <1>1
    <2>2. qs[i] = [path |-> p, amount |-> a]
      BY <1>2
    <2>3. p \in Shapes(o)
      BY <2>1
    <2>4. ASSUME still, a # 0 PROVE a = For(m, p, p.amount)
      <3>1. a = Due(m, ps, h \cup GivenUp(b), i)
        BY <2>1, <2>4 DEF InOrder, Aligned
      <3>2. a = Meant(m, p)
        BY <2>4, <3>1 DEF Due
      <3> HIDE DEF a, p
      <3>3. Meant(m, p) = For(m, p, p.amount)
        BY <2>3, AnswerIs
      <3>4. QED
        BY <3>2, <3>3
    <2> HIDE DEF a, p
    <2>5. QED
      BY <2>1, <2>2, <2>4 DEF GoodQuotes
  <1>4. qs \in [1..n -> GoodQuotes(T, m, still)]
    BY <1>2, <1>3
  <1> HIDE DEF n
  <1>5. qs \in Seq(GoodQuotes(T, m, still))
    BY <1>1, <1>4
  <1>6. QED
    BY <1>5 DEF qs

\* A fill by a candidate: what is bought with f.sell, or sold for f.buy.
GoodFill(f, T, m, still) ==
    /\ f.path \in T /\ (f.path.venue = "v4" => ~f.path.native)
    /\ f.sell \in Nat /\ f.buy \in Nat
    /\ f.path.exactOut => (still => f.sell > 0 /\ For(m, f.path, f.buy) = f.sell)
    /\ ~f.path.exactOut => (still => f.buy > 0 /\ For(m, f.path, f.sell) >= f.buy)

\* A fill of the whole order from a quote is as good as the quote.
LEMMA WholeIsGood ==
    ASSUME NEW o \in Requests, NEW m, IsMarket(m), NEW T, T \subseteq Shapes(o),
           NEW still \in BOOLEAN, NEW q \in GoodQuotes(T, m, still), q.amount # 0,
           q.path.venue = "v4" => ~q.path.native
    PROVE  GoodFill(Whole(o, q), T, m, still)
  <1> DEFINE p == q.path
             f == Whole(o, q)
  <1>1. p \in Shapes(o) /\ p \in T /\ q.amount \in Nat
    BY DEF GoodQuotes
  <1>2. /\ o.kind \in {"sell", "buy"} /\ p.amount \in AmountsOf(o) /\ p.amount \in Nat
        /\ (p.exactOut <=> o.kind = "buy") /\ p.exactOut \in BOOLEAN
    <2> HIDE DEF p
    <2>1. QED
      BY <1>1, ShapeAmount
  <1>3. /\ o.kind = "buy" => p.amount = o.buyAmount
        /\ o.kind # "buy" => p.amount <= o.sellAmount
    <2> HIDE DEF p
    <2>1. QED
      BY <1>2, AmountIs
  <1>4. o.sellAmount \in Nat /\ o.buyAmount \in Nat
    BY RequestFacts
  <1>5. still => q.amount = For(m, p, p.amount)
    BY DEF GoodQuotes
  <1>6. CASE p.exactOut
    <2>1. f = [path |-> p, sell |-> q.amount, buy |-> o.buyAmount]
      BY <1>6 DEF Whole, Fill
    <2>2. f.path = p /\ f.sell = q.amount /\ f.buy = o.buyAmount
      BY <2>1
    <2> HIDE DEF f, p
    <2>3. p.amount = o.buyAmount
      BY <1>2, <1>3, <1>6
    <2>4. still => f.sell > 0 /\ For(m, f.path, f.buy) = f.sell
      BY <1>1, <1>5, <2>2, <2>3
    <2>5. QED
      BY <1>1, <1>4, <1>6, <2>2, <2>4 DEF GoodFill, f, p
  <1>7. CASE ~p.exactOut
    <2>1. f = [path |-> p, sell |-> o.sellAmount, buy |-> q.amount]
      BY <1>7 DEF Whole, Fill
    <2>2. f.path = p /\ f.sell = o.sellAmount /\ f.buy = q.amount
      BY <2>1
    <2> HIDE DEF f, p
    <2>3. o.kind # "buy" /\ p.amount <= o.sellAmount
      BY <1>2, <1>3, <1>7
    <2>4. For(m, p, p.amount) <= For(m, p, o.sellAmount)
      BY <1>1, <1>2, <1>4, <2>3, ForIs
    <2>5. For(m, p, o.sellAmount) \in Nat
      BY <1>1, <1>4, ForIs
    <2>6. still => f.buy > 0 /\ For(m, f.path, f.sell) >= f.buy
      BY <1>1, <1>5, <2>2, <2>4, <2>5
    <2>7. QED
      BY <1>1, <1>4, <1>7, <2>2, <2>6 DEF GoodFill, f, p
  <1>8. QED
    BY <1>6, <1>7

\* So is a fill of a part.
LEMMA PartIsGood ==
    ASSUME NEW o \in Requests, o.kind # "buy", NEW m, IsMarket(m), NEW T, T \subseteq Shapes(o),
           NEW still \in BOOLEAN, NEW q \in GoodQuotes(T, m, still), q.amount # 0,
           q.path.venue = "v4" => ~q.path.native
    PROVE  GoodFill(Fill(q.path, q.path.amount, q.amount), T, m, still)
  <1> DEFINE p == q.path
             f == Fill(q.path, q.path.amount, q.amount)
  <1>1. p \in Shapes(o) /\ p \in T /\ q.amount \in Nat
    BY DEF GoodQuotes
  <1>2. p.amount \in Nat /\ ~p.exactOut
    <2> HIDE DEF p
    <2>1. QED
      BY <1>1, ShapeAmount
  <1>3. still => q.amount = For(m, p, p.amount)
    BY DEF GoodQuotes
  <1>4. f.path = p /\ f.sell = p.amount /\ f.buy = q.amount
    BY DEF Fill
  <1> HIDE DEF f, p
  <1>5. still => f.buy > 0 /\ For(m, f.path, f.sell) >= f.buy
    BY <1>1, <1>3, <1>4
  <1>6. QED
    BY <1>1, <1>2, <1>4, <1>5 DEF GoodFill, f, p

\* One of the quotes at the indices, or none.
Chosen(best, quotes, indices, G) ==
    best # NoQuote =>
        \E i \in indices : best = quotes[i] /\ quotes[i] \in G /\ quotes[i].amount # 0

\* The best quote is one of those it was chosen from, or none.
LEMMA BestIsGood ==
    ASSUME NEW o \in Requests, NEW m, NEW T, T \subseteq Shapes(o), NEW still,
           NEW quotes \in Seq(GoodQuotes(T, m, still)),
           NEW indices, indices \subseteq 1..Len(quotes)
    PROVE  Chosen(BestAmong(quotes, indices), quotes, indices, GoodQuotes(T, m, still))
  <1> DEFINE x == (o.kind = "buy")
  <1>1. \A i \in 1..Len(quotes) : quotes[i] \in GoodQuotes(T, m, still)
    OBVIOUS
  <1>2. ASSUME NEW i \in indices PROVE quotes[i].amount \in Nat /\ (quotes[i].path.exactOut <=> x)
    <2> DEFINE q == quotes[i]
    <2>1. q \in GoodQuotes(T, m, still)
      BY <1>1
    <2> HIDE DEF q
    <2>2. q.path \in Shapes(o) /\ q.amount \in Nat
      BY <2>1 DEF GoodQuotes
    <2>3. q.path.exactOut <=> o.kind = "buy"
      BY <2>2, ShapeAmount
    <2>4. QED
      BY <2>2, <2>3 DEF q
  <1>3. x \in BOOLEAN
    OBVIOUS
  <1> HIDE DEF x
  <1>4. Comparable(quotes, indices, x)
    BY <1>2 DEF Comparable
  <1>5. Len(quotes) \in Nat
    OBVIOUS
  <1>6. \/ BestAmong(quotes, indices) = NoQuote
        \/ \E i \in indices : BestAmong(quotes, indices) = quotes[i] /\ quotes[i].amount # 0
    BY <1>3, <1>4, <1>5, BestIsQuoted
  <1>7. QED
    BY <1>1, <1>6 DEF Chosen

\* Every fill of the router's is good.
LEMMA RouterFillsGood ==
    ASSUME NEW o \in Requests, NEW m, IsMarket(m), NEW still \in BOOLEAN,
           NEW quotes \in Seq(GoodQuotes(Shapes(o), m, still)), NEW f \in RouterFills(o, quotes)
    PROVE  GoodFill(f, Shapes(o), m, still)
  <1> DEFINE T == Shapes(o)
             G == GoodQuotes(T, m, still)
             E == Eligible(quotes)
             best == BestAmong(quotes, E)
             indices(k) == {i \in E : quotes[i].path.amount = Fractions(o)[k]}
             part(k) == BestAmong(quotes, indices(k))
             limit == << (3 * o.buyAmount) \div 4, o.buyAmount \div 2 >>
             whole == {g \in {Whole(o, q) : q \in {best} \ {NoQuote}} : Meets(o, g)}
             fraction(k) == {Fill(q.path, q.path.amount, q.amount) :
                               q \in {p \in {part(k)} : p.amount > 0 /\ p.amount >= limit[k]}}
  <1>1. RouterFills(o, quotes)
          = IF whole # {} \/ o.kind = "buy" \/ ~o.partial THEN whole
            ELSE IF fraction(1) # {} THEN fraction(1) ELSE fraction(2)
    BY DEF RouterFills
  <1>2. E \subseteq 1..Len(quotes)
    BY DEF Eligible
  <1>3. \A i \in E : quotes[i].path.venue = "v4" => ~quotes[i].path.native
    BY DEF Eligible
  <1>4. f \in whole \/ (o.kind # "buy" /\ \E k \in {1, 2} : f \in fraction(k))
    <2> HIDE DEF whole, fraction
    <2>1. QED
      BY <1>1
  <1> HIDE DEF T, G, E
  <1>5. /\ T \subseteq Shapes(o) /\ G = GoodQuotes(T, m, still)
        /\ quotes \in Seq(GoodQuotes(T, m, still))
    BY DEF T, G
  <1>6. CASE f \in whole
    <2>1. best # NoQuote /\ f = Whole(o, best)
      BY <1>6
    <2>2. PICK i \in E : best = quotes[i] /\ quotes[i] \in GoodQuotes(T, m, still)
                         /\ quotes[i].amount # 0
      <3>1. Chosen(best, quotes, E, GoodQuotes(T, m, still))
        BY <1>2, <1>5, BestIsGood
      <3> HIDE DEF best
      <3>2. QED
        BY <2>1, <3>1 DEF Chosen
    <2> HIDE DEF best
    <2>3. best.path.venue = "v4" => ~best.path.native
      BY <1>3, <2>2
    <2>4. GoodFill(Whole(o, best), T, m, still)
      BY <1>5, <2>2, <2>3, WholeIsGood
    <2>5. QED
      BY <2>1, <2>4 DEF T
  <1>7. CASE o.kind # "buy" /\ \E k \in {1, 2} : f \in fraction(k)
    <2>1. PICK k \in {1, 2} : f \in fraction(k)
      BY <1>7
    <2> DEFINE q == part(k)
    <2>2. f = Fill(q.path, q.path.amount, q.amount) /\ q.amount > 0
      BY <2>1
    <2>3. NoQuote.amount = 0 /\ ~(0 > 0)
      BY DEF NoQuote
    <2>4. q # NoQuote
      <3> HIDE DEF q
      <3>1. QED
        BY <2>2, <2>3
    <2>5. indices(k) \subseteq 1..Len(quotes)
      BY <1>2
    <2>6. PICK i \in indices(k) : q = quotes[i] /\ quotes[i] \in GoodQuotes(T, m, still)
                                  /\ quotes[i].amount # 0
      <3> DEFINE I == indices(k)
      <3>1. I \subseteq 1..Len(quotes) /\ q = BestAmong(quotes, I)
        BY <2>5
      <3> HIDE DEF I, q
      <3>2. Chosen(q, quotes, I, GoodQuotes(T, m, still))
        BY <1>5, <3>1, BestIsGood
      <3>3. QED
        BY <2>4, <3>2 DEF Chosen, I
    <2>7. i \in E
      BY <2>6
    <2> HIDE DEF q
    <2>8. q.path.venue = "v4" => ~q.path.native
      BY <1>3, <2>6, <2>7
    <2>9. GoodFill(Fill(q.path, q.path.amount, q.amount), T, m, still)
      BY <1>5, <1>7, <2>6, <2>8, PartIsGood
    <2>10. QED
      BY <2>2, <2>9 DEF T
  <1>8. QED
    BY <1>4, <1>6, <1>7

-----------------------------------------------------------------------------
(* Constant product, hop after hop.                                        *)

\* The reserves of hop i of a path, in the direction of the swap.
Reserves(m, path, i) == Oriented(m.v2[{path[i], path[i + 1]}], path[i])

\* What the solver expects of a sale, and what the pairs pay.
LEMMA ComputeForward ==
    ASSUME NEW m, NEW path, Len(path) \in {2, 3}, NEW x, ~x, NEW amount
    PROVE  LET R(i) == Reserves(m, path, i)
               one == QuoteV2Swap(amount, R(1)[1], R(1)[2])
           IN  ComputePath(m, path, x, amount)
                 = IF Len(path) = 2 THEN one ELSE QuoteV2Swap(one, R(2)[1], R(2)[2])
  <1> DEFINE n == Len(path)
             reserves(i) == Oriented(m.v2[{path[i], path[i + 1]}], path[i])
             Walk(h) == [i \in 1..n |->
                           IF i = 1 THEN amount
                           ELSE QuoteV2Swap(h[i - 1], reserves(i - 1)[1], reserves(i - 1)[2])]
             forward == CHOOSE h : h = Walk(h)
  <1>1. ComputePath(m, path, x, amount) = forward[n]
    BY DEF ComputePath
  <1>2. reserves(1) = Reserves(m, path, 1) /\ reserves(2) = Reserves(m, path, 2)
    BY DEF Reserves
  <1>3. n \in {2, 3}
    OBVIOUS
  <1> HIDE DEF n, reserves
  <1> DEFINE one == QuoteV2Swap(amount, reserves(1)[1], reserves(1)[2])
             two == QuoteV2Swap(one, reserves(2)[1], reserves(2)[2])
             w == [i \in 1..n |-> IF i = 1 THEN amount ELSE IF i = 2 THEN one ELSE two]
  <1>4. \A i \in 1..n : i = 1 \/ (i = 2 /\ i - 1 = 1) \/ (i = 3 /\ i - 1 = 2)
    BY <1>3
  <1>5. 1 \in 1..n /\ 2 \in 1..n
    BY <1>3
  <1> HIDE DEF one, two
  <1>6. w[1] = amount /\ w[2] = one /\ (n = 3 => w[3] = two) /\ w = [i \in 1..n |-> w[i]]
    BY <1>3
  <1> HIDE DEF w
  <1>7. w = Walk(w)
    <2>1. ASSUME NEW i \in 1..n
          PROVE  w[i] = IF i = 1 THEN amount
                        ELSE QuoteV2Swap(w[i - 1], reserves(i - 1)[1], reserves(i - 1)[2])
      <3>1. CASE i = 1
        BY <1>6, <3>1
      <3>2. CASE i = 2
        <4>1. w[2] = QuoteV2Swap(w[1], reserves(1)[1], reserves(1)[2]) /\ 2 - 1 = 1 /\ 2 # 1
          BY <1>6 DEF one
        <4>2. QED
          BY <3>2, <4>1
      <3>3. CASE i = 3
        <4>1. n = 3
          BY <1>3, <3>3
        <4>2. w[3] = QuoteV2Swap(w[2], reserves(2)[1], reserves(2)[2]) /\ 3 - 1 = 2 /\ 3 # 1
          BY <1>6, <4>1 DEF two
        <4>3. QED
          BY <3>3, <4>2
      <3>4. QED
        BY <1>4, <3>1, <3>2, <3>3
    <2>2. QED
      BY <1>6, <2>1
  <1>8. forward = Walk(forward)
    <2> HIDE DEF Walk
    <2>1. QED
      BY <1>7
  <1> HIDE DEF forward
  <1>9. ASSUME NEW i \in 1..n
        PROVE  forward[i] = IF i = 1 THEN amount
                            ELSE QuoteV2Swap(forward[i - 1], reserves(i - 1)[1], reserves(i - 1)[2])
    BY <1>8
  <1>10. forward[1] = amount
    BY <1>5, <1>9
  <1>11. forward[2] = one
    <2>1. forward[2] = QuoteV2Swap(forward[2 - 1], reserves(2 - 1)[1], reserves(2 - 1)[2])
      BY <1>5, <1>9
    <2>2. 2 - 1 = 1
      OBVIOUS
    <2>3. QED
      BY <1>10, <2>1, <2>2 DEF one
  <1>12. n = 3 => forward[3] = two
    <2>1. ASSUME n = 3 PROVE 3 \in 1..n
      BY <2>1
    <2>2. n = 3 => forward[3] = QuoteV2Swap(forward[3 - 1], reserves(3 - 1)[1], reserves(3 - 1)[2])
      BY <1>9, <2>1
    <2>3. 3 - 1 = 2
      OBVIOUS
    <2>4. QED
      BY <1>11, <2>2, <2>3 DEF two
  <1>13. forward[n] = IF n = 2 THEN one ELSE two
    BY <1>3, <1>11, <1>12
  <1>14. QED
    BY <1>1, <1>2, <1>13 DEF one, two, n

\* The pairs take an exact input hop by hop.
LEMMA ChainForward ==
    ASSUME NEW m, NEW path, Len(path) \in {2, 3}, NEW x, ~x, NEW amount
    PROVE  LET R(i) == Reserves(m, path, i)
               one == PairPays(amount, R(1)[1], R(1)[2])
           IN  ChainPath(m, path, x, amount)
                 = IF Len(path) = 2 THEN one ELSE PairPays(one, R(2)[1], R(2)[2])
  <1> DEFINE n == Len(path)
             reserves(i) == Oriented(m.v2[{path[i], path[i + 1]}], path[i])
             Walk(h) == [i \in 1..n |->
                           IF i = 1 THEN amount
                           ELSE PairPays(h[i - 1], reserves(i - 1)[1], reserves(i - 1)[2])]
             forward == CHOOSE h : h = Walk(h)
  <1>1. ChainPath(m, path, x, amount) = forward[n]
    BY DEF ChainPath
  <1>2. reserves(1) = Reserves(m, path, 1) /\ reserves(2) = Reserves(m, path, 2)
    BY DEF Reserves
  <1>3. n \in {2, 3}
    OBVIOUS
  <1> HIDE DEF n, reserves
  <1> DEFINE one == PairPays(amount, reserves(1)[1], reserves(1)[2])
             two == PairPays(one, reserves(2)[1], reserves(2)[2])
             w == [i \in 1..n |-> IF i = 1 THEN amount ELSE IF i = 2 THEN one ELSE two]
  <1>4. \A i \in 1..n : i = 1 \/ (i = 2 /\ i - 1 = 1) \/ (i = 3 /\ i - 1 = 2)
    BY <1>3
  <1>5. 1 \in 1..n /\ 2 \in 1..n
    BY <1>3
  <1> HIDE DEF one, two
  <1>6. w[1] = amount /\ w[2] = one /\ (n = 3 => w[3] = two) /\ w = [i \in 1..n |-> w[i]]
    BY <1>3
  <1> HIDE DEF w
  <1>7. w = Walk(w)
    <2>1. ASSUME NEW i \in 1..n
          PROVE  w[i] = IF i = 1 THEN amount
                        ELSE PairPays(w[i - 1], reserves(i - 1)[1], reserves(i - 1)[2])
      <3>1. CASE i = 1
        BY <1>6, <3>1
      <3>2. CASE i = 2
        <4>1. w[2] = PairPays(w[1], reserves(1)[1], reserves(1)[2]) /\ 2 - 1 = 1 /\ 2 # 1
          BY <1>6 DEF one
        <4>2. QED
          BY <3>2, <4>1
      <3>3. CASE i = 3
        <4>1. n = 3
          BY <1>3, <3>3
        <4>2. w[3] = PairPays(w[2], reserves(2)[1], reserves(2)[2]) /\ 3 - 1 = 2 /\ 3 # 1
          BY <1>6, <4>1 DEF two
        <4>3. QED
          BY <3>3, <4>2
      <3>4. QED
        BY <1>4, <3>1, <3>2, <3>3
    <2>2. QED
      BY <1>6, <2>1
  <1>8. forward = Walk(forward)
    <2> HIDE DEF Walk
    <2>1. QED
      BY <1>7
  <1> HIDE DEF forward
  <1>9. ASSUME NEW i \in 1..n
        PROVE  forward[i] = IF i = 1 THEN amount
                            ELSE PairPays(forward[i - 1], reserves(i - 1)[1], reserves(i - 1)[2])
    BY <1>8
  <1>10. forward[1] = amount
    BY <1>5, <1>9
  <1>11. forward[2] = one
    <2>1. forward[2] = PairPays(forward[2 - 1], reserves(2 - 1)[1], reserves(2 - 1)[2])
      BY <1>5, <1>9
    <2>2. 2 - 1 = 1
      OBVIOUS
    <2>3. QED
      BY <1>10, <2>1, <2>2 DEF one
  <1>12. n = 3 => forward[3] = two
    <2>1. ASSUME n = 3 PROVE 3 \in 1..n
      BY <2>1
    <2>2. n = 3 => forward[3] = PairPays(forward[3 - 1], reserves(3 - 1)[1], reserves(3 - 1)[2])
      BY <1>9, <2>1
    <2>3. 3 - 1 = 2
      OBVIOUS
    <2>4. QED
      BY <1>11, <2>2, <2>3 DEF two
  <1>13. forward[n] = IF n = 2 THEN one ELSE two
    BY <1>3, <1>11, <1>12
  <1>14. QED
    BY <1>1, <1>2, <1>13 DEF one, two, n

\* What the solver expects of a purchase, and what the pairs take.
ComputedBackward(m, path, x, amount) ==
    x => LET R(i) == Reserves(m, path, i)
         IN  ComputePath(m, path, x, amount)
               = IF Len(path) = 2 THEN GetAmountIn(amount, R(1)[1], R(1)[2])
                 ELSE GetAmountIn(GetAmountIn(amount, R(2)[1], R(2)[2]), R(1)[1], R(1)[2])

\* ComputePath goes an exact output from the far end.
LEMMA ComputeBackward ==
    ASSUME NEW m, NEW path, Len(path) \in {2, 3}, NEW x, NEW amount
    PROVE  ComputedBackward(m, path, x, amount)
  <1> SUFFICES ASSUME x
               PROVE  LET R(i) == Reserves(m, path, i)
                      IN  ComputePath(m, path, x, amount)
                            = IF Len(path) = 2 THEN GetAmountIn(amount, R(1)[1], R(1)[2])
                              ELSE GetAmountIn(GetAmountIn(amount, R(2)[1], R(2)[2]),
                                          R(1)[1], R(1)[2])
    BY DEF ComputedBackward
  <1> DEFINE n == Len(path)
             reserves(i) == Oriented(m.v2[{path[i], path[i + 1]}], path[i])
             Walk(h) == [i \in 1..n |->
                           IF i = n THEN amount
                           ELSE GetAmountIn(h[i + 1], reserves(i)[1], reserves(i)[2])]
             backward == CHOOSE h : h = Walk(h)
  <1>1. ComputePath(m, path, x, amount) = backward[1]
    BY DEF ComputePath
  <1>2. reserves(1) = Reserves(m, path, 1) /\ reserves(2) = Reserves(m, path, 2)
    BY DEF Reserves
  <1>3. n \in {2, 3}
    OBVIOUS
  <1> HIDE DEF n, reserves
  <1> DEFINE two == IF n = 2 THEN amount ELSE GetAmountIn(amount, reserves(2)[1], reserves(2)[2])
             one == GetAmountIn(two, reserves(1)[1], reserves(1)[2])
             w == [i \in 1..n |-> IF i = 1 THEN one ELSE IF i = 2 THEN two ELSE amount]
  <1>4. \A i \in 1..n : (i = 1 /\ i # n) \/ i = 2 \/ (i = 3 /\ i = n)
    BY <1>3
  <1>5. 1 \in 1..n /\ 2 \in 1..n /\ n # 1
    BY <1>3
  <1>6. (n = 2 => two = amount)
        /\ (n = 3 => two = GetAmountIn(amount, reserves(2)[1], reserves(2)[2]))
    BY <1>3
  <1> HIDE DEF one, two
  <1>7. w[1] = one /\ w[2] = two /\ (n = 3 => w[3] = amount) /\ w = [i \in 1..n |-> w[i]]
    BY <1>3
  <1> HIDE DEF w
  <1>8. w = Walk(w)
    <2>1. ASSUME NEW i \in 1..n
          PROVE  w[i] = IF i = n THEN amount
                        ELSE GetAmountIn(w[i + 1], reserves(i)[1], reserves(i)[2])
      <3>1. CASE i = 1 /\ i # n
        <4>1. w[1] = GetAmountIn(w[2], reserves(1)[1], reserves(1)[2]) /\ 1 + 1 = 2
          BY <1>7 DEF one
        <4>2. QED
          BY <3>1, <4>1
      <3>2. CASE i = 2
        <4>1. CASE n = 2
          BY <1>6, <1>7, <3>2, <4>1
        <4>2. CASE n = 3
          <5>1. w[2] = GetAmountIn(w[3], reserves(2)[1], reserves(2)[2]) /\ 2 + 1 = 3 /\ 2 # 3
            BY <1>6, <1>7, <4>2
          <5>2. QED
            BY <3>2, <4>2, <5>1
        <4>3. QED
          BY <1>3, <4>1, <4>2
      <3>3. CASE i = 3 /\ i = n
        BY <1>7, <3>3
      <3>4. QED
        BY <1>4, <3>1, <3>2, <3>3
    <2>2. QED
      BY <1>7, <2>1
  <1>9. backward = Walk(backward)
    <2> HIDE DEF Walk
    <2>1. QED
      BY <1>8
  <1> HIDE DEF backward
  <1>10. ASSUME NEW i \in 1..n
         PROVE  backward[i] = IF i = n THEN amount
                              ELSE GetAmountIn(backward[i + 1], reserves(i)[1], reserves(i)[2])
    BY <1>9
  <1>11. backward[2] = two
    <2>1. CASE n = 2
      <3>1. backward[2] = amount
        BY <1>5, <1>10, <2>1
      <3>2. QED
        BY <1>6, <2>1, <3>1
    <2>2. CASE n = 3
      <3>1. 3 \in 1..n /\ 2 # n /\ 2 + 1 = 3
        BY <2>2
      <3>2. backward[3] = amount
        BY <1>10, <2>2, <3>1
      <3>3. backward[2] = GetAmountIn(backward[2 + 1], reserves(2)[1], reserves(2)[2])
        BY <1>5, <1>10, <3>1
      <3>4. QED
        BY <1>6, <2>2, <3>1, <3>2, <3>3
    <2>3. QED
      BY <1>3, <2>1, <2>2
  <1>12. backward[1] = one
    <2>1. backward[1] = GetAmountIn(backward[1 + 1], reserves(1)[1], reserves(1)[2])
      BY <1>5, <1>10
    <2>2. 1 + 1 = 2
      OBVIOUS
    <2>3. QED
      BY <1>11, <2>1, <2>2 DEF one
  <1>13. QED
    BY <1>1, <1>2, <1>3, <1>6, <1>12 DEF one, n

ChainedBackward(m, path, x, amount) ==
    x => LET R(i) == Reserves(m, path, i)
         IN  ChainPath(m, path, x, amount)
               = IF Len(path) = 2 THEN PairTakes(amount, R(1)[1], R(1)[2])
                 ELSE PairTakes(PairTakes(amount, R(2)[1], R(2)[2]), R(1)[1], R(1)[2])

\* So do the pairs.
LEMMA ChainBackward ==
    ASSUME NEW m, NEW path, Len(path) \in {2, 3}, NEW x, NEW amount
    PROVE  ChainedBackward(m, path, x, amount)
  <1> SUFFICES ASSUME x
               PROVE  LET R(i) == Reserves(m, path, i)
                      IN  ChainPath(m, path, x, amount)
                            = IF Len(path) = 2 THEN PairTakes(amount, R(1)[1], R(1)[2])
                              ELSE PairTakes(PairTakes(amount, R(2)[1], R(2)[2]),
                                          R(1)[1], R(1)[2])
    BY DEF ChainedBackward
  <1> DEFINE n == Len(path)
             reserves(i) == Oriented(m.v2[{path[i], path[i + 1]}], path[i])
             Walk(h) == [i \in 1..n |->
                           IF i = n THEN amount
                           ELSE PairTakes(h[i + 1], reserves(i)[1], reserves(i)[2])]
             backward == CHOOSE h : h = Walk(h)
  <1>1. ChainPath(m, path, x, amount) = backward[1]
    BY DEF ChainPath
  <1>2. reserves(1) = Reserves(m, path, 1) /\ reserves(2) = Reserves(m, path, 2)
    BY DEF Reserves
  <1>3. n \in {2, 3}
    OBVIOUS
  <1> HIDE DEF n, reserves
  <1> DEFINE two == IF n = 2 THEN amount ELSE PairTakes(amount, reserves(2)[1], reserves(2)[2])
             one == PairTakes(two, reserves(1)[1], reserves(1)[2])
             w == [i \in 1..n |-> IF i = 1 THEN one ELSE IF i = 2 THEN two ELSE amount]
  <1>4. \A i \in 1..n : (i = 1 /\ i # n) \/ i = 2 \/ (i = 3 /\ i = n)
    BY <1>3
  <1>5. 1 \in 1..n /\ 2 \in 1..n /\ n # 1
    BY <1>3
  <1>6. (n = 2 => two = amount)
        /\ (n = 3 => two = PairTakes(amount, reserves(2)[1], reserves(2)[2]))
    BY <1>3
  <1> HIDE DEF one, two
  <1>7. w[1] = one /\ w[2] = two /\ (n = 3 => w[3] = amount) /\ w = [i \in 1..n |-> w[i]]
    BY <1>3
  <1> HIDE DEF w
  <1>8. w = Walk(w)
    <2>1. ASSUME NEW i \in 1..n
          PROVE  w[i] = IF i = n THEN amount
                        ELSE PairTakes(w[i + 1], reserves(i)[1], reserves(i)[2])
      <3>1. CASE i = 1 /\ i # n
        <4>1. w[1] = PairTakes(w[2], reserves(1)[1], reserves(1)[2]) /\ 1 + 1 = 2
          BY <1>7 DEF one
        <4>2. QED
          BY <3>1, <4>1
      <3>2. CASE i = 2
        <4>1. CASE n = 2
          BY <1>6, <1>7, <3>2, <4>1
        <4>2. CASE n = 3
          <5>1. w[2] = PairTakes(w[3], reserves(2)[1], reserves(2)[2]) /\ 2 + 1 = 3 /\ 2 # 3
            BY <1>6, <1>7, <4>2
          <5>2. QED
            BY <3>2, <4>2, <5>1
        <4>3. QED
          BY <1>3, <4>1, <4>2
      <3>3. CASE i = 3 /\ i = n
        BY <1>7, <3>3
      <3>4. QED
        BY <1>4, <3>1, <3>2, <3>3
    <2>2. QED
      BY <1>7, <2>1
  <1>9. backward = Walk(backward)
    <2> HIDE DEF Walk
    <2>1. QED
      BY <1>8
  <1> HIDE DEF backward
  <1>10. ASSUME NEW i \in 1..n
         PROVE  backward[i] = IF i = n THEN amount
                              ELSE PairTakes(backward[i + 1], reserves(i)[1], reserves(i)[2])
    BY <1>9
  <1>11. backward[2] = two
    <2>1. CASE n = 2
      <3>1. backward[2] = amount
        BY <1>5, <1>10, <2>1
      <3>2. QED
        BY <1>6, <2>1, <3>1
    <2>2. CASE n = 3
      <3>1. 3 \in 1..n /\ 2 # n /\ 2 + 1 = 3
        BY <2>2
      <3>2. backward[3] = amount
        BY <1>10, <2>2, <3>1
      <3>3. backward[2] = PairTakes(backward[2 + 1], reserves(2)[1], reserves(2)[2])
        BY <1>5, <1>10, <3>1
      <3>4. QED
        BY <1>6, <2>2, <3>1, <3>2, <3>3
    <2>3. QED
      BY <1>3, <2>1, <2>2
  <1>12. backward[1] = one
    <2>1. backward[1] = PairTakes(backward[1 + 1], reserves(1)[1], reserves(1)[2])
      BY <1>5, <1>10
    <2>2. 1 + 1 = 2
      OBVIOUS
    <2>3. QED
      BY <1>11, <2>1, <2>2 DEF one
  <1>13. QED
    BY <1>1, <1>2, <1>3, <1>6, <1>12 DEF one, n

\* A quotient less than a product, and one that is positive.
LEMMA QuotientBelow ==
    ASSUME NEW a \in Nat, NEW b \in Nat \ {0}, NEW k \in Nat, a < k * b
    PROVE  a \div b \in Nat /\ a \div b < k
  <1> DEFINE d == a \div b
  <1>1. d \in Nat /\ d * b <= a
    OBVIOUS
  <1> HIDE DEF d
  <1>2. ASSUME d >= k PROVE FALSE
    <2>1. d * b >= k * b
      BY <1>1, <1>2
    <2> DEFINE db == d * b
               kb == k * b
    <2>2. db \in Nat /\ kb \in Nat
      BY <1>1
    <2>3. db <= a /\ db >= kb /\ a < kb
      BY <1>1, <2>1
    <2> HIDE DEF db, kb
    <2>4. QED
      BY <2>2, <2>3
  <1>3. d < k
    BY <1>1, <1>2
  <1>4. QED
    BY <1>1, <1>3 DEF d

\* A number lies below the next multiple of any other.
LEMMA QuotientAbove ==
    ASSUME NEW a \in Nat, NEW b \in Nat \ {0}
    PROVE  a < (a \div b + 1) * b
  OBVIOUS

\* A quotient rounded up is positive and no more than any number that covers it.
LEMMA RoundedUp ==
    ASSUME NEW n \in Nat \ {0}, NEW l \in Nat \ {0}, NEW k \in Nat, n < k * l
    PROVE  /\ (n + l - 1) \div l \in Nat
           /\ 0 < (n + l - 1) \div l /\ (n + l - 1) \div l <= k
  <1>1. n + l - 1 \in Nat
    OBVIOUS
  <1>2. (k + 1) * l = k * l + l
    OBVIOUS
  <1> DEFINE kl == k * l
             top == (k + 1) * l
             x == n + l - 1
             d == x \div l
  <1>3. kl \in Nat /\ top = kl + l /\ n < kl
    BY <1>2
  <1> HIDE DEF kl, top
  <1>4. x < top /\ x \in Nat /\ x >= l
    BY <1>3
  <1> HIDE DEF x
  <1>5. d \in Nat /\ d < k + 1
    BY <1>4, QuotientBelow DEF top
  <1>6. x < (d + 1) * l
    BY <1>4, QuotientAbove
  <1> HIDE DEF d
  <1>7. d # 0
    <2>1. ASSUME d = 0 PROVE FALSE
      <3>1. (0 + 1) * l = l
        OBVIOUS
      <3>2. x < l
        BY <1>6, <2>1, <3>1
      <3>3. QED
        BY <1>4, <3>2
    <2>2. QED
      BY <2>1
  <1>8. d \in Nat /\ 0 < d /\ d <= k
    BY <1>5, <1>7
  <1>9. QED
    BY <1>8 DEF d, x

Keep == Unit - FeeBps

\* A swap keeps something of its input after the fee.
LEMMA KeepIs ==
    Keep \in Nat \ {0} /\ Unit \in Nat \ {0}
  BY VenueAssumption DEF Keep

\* A pair pays what the solver computes.
LEMMA PairPaysIs ==
    ASSUME NEW a \in Nat, NEW r \in Nat, NEW s \in Nat
    PROVE  PairPays(a, r, s) \in Nat /\ QuoteV2Swap(a, r, s) = PairPays(a, r, s)
  <1> DEFINE after == a * (Unit - FeeBps)
             n == after * s
             d == r * Unit + after
  <1>1. Unit - FeeBps \in Nat \ {0} /\ Unit \in Nat \ {0}
    BY VenueAssumption
  <1>2. after \in Nat
    BY <1>1
  <1>3. PairPays(a, r, s) = IF r = 0 THEN 0 ELSE n \div d
    BY DEF PairPays
  <1>4. QuoteV2Swap(a, r, s) = IF a <= 0 \/ r <= 0 \/ s <= 0 THEN 0 ELSE n \div d
    BY DEF QuoteV2Swap
  <1>5. a = 0 => after = 0
    BY <1>1
  <1> HIDE DEF after
  <1>6. n \in Nat /\ (after = 0 => n = 0) /\ (s = 0 => n = 0)
    BY <1>2
  <1>7. r # 0 => d \in Nat \ {0}
    <2>1. r # 0 => r * Unit \in Nat \ {0}
      BY <1>1
    <2>2. QED
      BY <1>2, <2>1
  <1> HIDE DEF n, d
  <1>8. CASE r = 0
    BY <1>3, <1>4, <1>8
  <1>9. CASE r # 0
    <2>1. n \div d \in Nat /\ (n = 0 => n \div d = 0)
      BY <1>6, <1>7, <1>9
    <2> DEFINE q == n \div d
    <2>2. PairPays(a, r, s) = q /\ q \in Nat
      BY <1>3, <1>9, <2>1
    <2>3. CASE a = 0 \/ s = 0
      <3>1. q = 0
        BY <1>5, <1>6, <2>1, <2>3
      <3>2. QuoteV2Swap(a, r, s) = 0
        BY <1>4, <2>3
      <3>3. QED
        BY <2>2, <3>1, <3>2
    <2>4. CASE a # 0 /\ s # 0
      <3>1. ~(a <= 0 \/ r <= 0 \/ s <= 0)
        BY <1>9, <2>4
      <3>2. QuoteV2Swap(a, r, s) = q
        BY <1>4, <3>1
      <3>3. QED
        BY <2>2, <3>2
    <2>5. QED
      BY <2>3, <2>4
  <1>10. QED
    BY <1>8, <1>9

\* A pair takes an amount.
LEMMA PairTakesIs ==
    ASSUME NEW a \in Nat, NEW r \in Nat, NEW s \in Nat
    PROVE  PairTakes(a, r, s) \in Nat
  <1> DEFINE l == (s - a) * (Unit - FeeBps)
             n == r * a * Unit
  <1>1. Unit - FeeBps \in Nat \ {0} /\ Unit \in Nat \ {0}
    BY VenueAssumption
  <1>2. PairTakes(a, r, s) = IF a = 0 \/ a >= s THEN 0 ELSE (n + l - 1) \div l
    BY DEF PairTakes
  <1>3. CASE a = 0 \/ a >= s
    BY <1>2, <1>3
  <1>4. CASE a # 0 /\ a < s
    <2>1. s - a \in Nat \ {0}
      BY <1>4
    <2>2. l \in Nat \ {0}
      BY <1>1, <2>1
    <2>3. r * a \in Nat
      OBVIOUS
    <2>4. n \in Nat
      BY <1>1, <2>3
    <2> HIDE DEF l, n
    <2>5. n + l - 1 \in Nat
      BY <2>2, <2>4
    <2>6. (n + l - 1) \div l \in Nat
      BY <2>2, <2>5
    <2>7. QED
      BY <1>2, <1>4, <2>6
  <1>5. QED
    BY <1>3, <1>4

\* Where the solver computes an input, the pair takes no more of it, nor for
\* less output.
LEMMA PairTakesLess ==
    ASSUME NEW a \in Nat, NEW b \in Nat \ {0}, b <= a, NEW r \in Nat, NEW s \in Nat,
           GetAmountIn(a, r, s) # 0
    PROVE  /\ GetAmountIn(a, r, s) \in Nat
           /\ 0 < PairTakes(b, r, s) /\ PairTakes(b, r, s) <= GetAmountIn(a, r, s)
  <1> DEFINE keep == Unit - FeeBps
             n == r * a * Unit
             l == (s - a) * keep
             c == r * b * Unit
             h == (s - b) * keep
  <1>1. keep \in Nat \ {0} /\ Unit \in Nat \ {0}
    BY VenueAssumption
  <1>2. GetAmountIn(a, r, s) = IF a <= 0 \/ r <= 0 \/ s <= 0 \/ a >= s THEN 0 ELSE n \div l + 1
    BY DEF GetAmountIn
  <1>3. PairTakes(b, r, s) = IF b = 0 \/ b >= s THEN 0 ELSE (c + h - 1) \div h
    BY DEF PairTakes
  <1>4. r > 0 /\ a < s
    <2> HIDE DEF n, l
    <2>1. QED
      BY <1>2
  <1> HIDE DEF keep
  <1>5. s - a \in Nat \ {0} /\ s - b \in Nat \ {0} /\ s - a <= s - b /\ b < s
    BY <1>4
  <1>6. l \in Nat \ {0} /\ h \in Nat \ {0} /\ l <= h
    <2> DEFINE u == s - a
               w == s - b
    <2>1. u \in Nat \ {0} /\ w \in Nat \ {0} /\ u <= w
      BY <1>5
    <2> HIDE DEF u, w
    <2>2. u * keep \in Nat \ {0} /\ w * keep \in Nat \ {0} /\ u * keep <= w * keep
      BY <1>1, <2>1
    <2>3. QED
      BY <2>2 DEF u, w
  <1>7. n \in Nat /\ c \in Nat \ {0} /\ c <= n
    <2> DEFINE u == r * b
               w == r * a
    <2>1. u \in Nat \ {0} /\ w \in Nat /\ u <= w
      BY <1>4
    <2> HIDE DEF u, w
    <2>2. u * Unit \in Nat \ {0} /\ w * Unit \in Nat /\ u * Unit <= w * Unit
      BY <1>1, <2>1
    <2>3. QED
      BY <2>2 DEF u, w
  <1> HIDE DEF n, l, c, h
  <1> DEFINE d == n \div l
             k == d + 1
  <1>8. d \in Nat /\ n < k * l
    <2>1. d \in Nat
      BY <1>6, <1>7
    <2>2. QED
      BY <1>6, <1>7, <2>1, QuotientAbove
  <1>9. GetAmountIn(a, r, s) = k
    <2>1. ~(a <= 0 \/ r <= 0 \/ s <= 0 \/ a >= s)
      BY <1>4, <1>5
    <2>2. QED
      BY <1>2, <2>1
  <1> HIDE DEF d
  <1>10. k \in Nat
    BY <1>8
  <1> HIDE DEF k
  <1>11. c < k * h
    <2>1. k * l \in Nat /\ k * h \in Nat /\ k * l <= k * h
      BY <1>6, <1>10
    <2> DEFINE kl == k * l
               kh == k * h
    <2>2. kl \in Nat /\ kh \in Nat /\ kl <= kh /\ n < kl
      BY <1>8, <2>1
    <2> HIDE DEF kl, kh
    <2>3. c < kh
      BY <1>7, <2>2
    <2>4. QED
      BY <2>3 DEF kh
  <1>12. /\ (c + h - 1) \div h \in Nat
         /\ 0 < (c + h - 1) \div h /\ (c + h - 1) \div h <= k
    BY <1>6, <1>7, <1>10, <1>11, RoundedUp
  <1> DEFINE e == (c + h - 1) \div h
  <1>13. PairTakes(b, r, s) = e
    BY <1>3, <1>5
  <1> HIDE DEF e
  <1>14. 0 < e /\ e <= k
    BY <1>12 DEF e
  <1>15. QED
    BY <1>9, <1>10, <1>13, <1>14

\* The least input the solver computes is an amount, and none for nothing.
LEMMA AmountInIs ==
    ASSUME NEW a \in Nat, NEW r \in Nat, NEW s \in Nat
    PROVE  GetAmountIn(a, r, s) \in Nat /\ GetAmountIn(0, r, s) = 0
  <1>1. GetAmountIn(0, r, s) = 0
    BY DEF GetAmountIn
  <1>2. CASE a = 0
    BY <1>1, <1>2
  <1>3. CASE a # 0
    <2>1. CASE GetAmountIn(a, r, s) = 0
      BY <1>1, <2>1
    <2>2. CASE GetAmountIn(a, r, s) # 0
      <3>1. GetAmountIn(a, r, s) \in Nat
        BY <1>3, <2>2, PairTakesLess
      <3>2. QED
        BY <1>1, <3>1
    <2>3. QED
      BY <2>1, <2>2
  <1>4. QED
    BY <1>2, <1>3

\* The candidates of the V2 source.
LEMMA V2Facts ==
    ASSUME NEW o \in Requests, NEW p \in V2Shapes(o)
    PROVE  /\ p.venue = "v2" /\ p.tokenIn = o.sellToken /\ p.tokenOut = o.buyToken
           /\ p.exactOut \in BOOLEAN /\ (p.exactOut <=> o.kind = "buy")
           /\ p.amount = Amounts(o)[1] /\ p.amount \in Nat
           /\ Len(p.path) \in {2, 3}
           /\ \A i \in 1..(Len(p.path) - 1) :
                p.path[i] \in Tokens /\ p.path[i + 1] \in Tokens /\ p.path[i] # p.path[i + 1]
  <1>1. o.sellToken \in Tokens /\ o.buyToken \in Tokens /\ o.sellToken # o.buyToken
    BY RequestFacts
  <1>2. PICK tokens : /\ p = Via(o, tokens)
                      /\ \/ tokens = <<o.sellToken, o.buyToken>>
                         \/ \E t \in Tokens \ Ends(o) : tokens = <<o.sellToken, t, o.buyToken>>
    BY DEF V2Shapes
  <1>3. Amounts(o)[1] \in Nat
    BY AmountsIn, AmountIs
  <1>4. /\ Len(tokens) \in {2, 3}
        /\ \A i \in 1..(Len(tokens) - 1) :
             tokens[i] \in Tokens /\ tokens[i + 1] \in Tokens /\ tokens[i] # tokens[i + 1]
    <2>1. CASE tokens = <<o.sellToken, o.buyToken>>
      BY <1>1, <2>1
    <2>2. CASE \E t \in Tokens \ Ends(o) : tokens = <<o.sellToken, t, o.buyToken>>
      <3>1. PICK t \in Tokens \ Ends(o) : tokens = <<o.sellToken, t, o.buyToken>>
        BY <2>2
      <3>2. t \in Tokens /\ t # o.sellToken /\ t # o.buyToken
        BY DEF Ends
      <3>3. QED
        BY <1>1, <3>1, <3>2
    <2>3. QED
      BY <1>2, <2>1, <2>2
  <1>5. /\ p.venue = "v2" /\ p.tokenIn = o.sellToken /\ p.tokenOut = o.buyToken
        /\ p.path = tokens /\ p.exactOut = (o.kind = "buy") /\ p.amount = Amounts(o)[1]
    BY <1>2 DEF Via
  <1>6. QED
    BY <1>3, <1>4, <1>5

\* The V2 candidates of an order are V2 paths of the order.
LEMMA V2PathsIn ==
    ASSUME NEW o \in Requests
    PROVE  V2Paths(o) \in Seq(V2Shapes(o))
  <1> DEFINE mids == Mids(o)
             direct == Via(o, <<o.sellToken, o.buyToken>>)
             rest == [k \in DOMAIN mids |-> Via(o, <<o.sellToken, mids[k], o.buyToken>>)]
  <1>1. V2Paths(o) = <<direct>> \o rest
    BY DEF V2Paths, Via
  <1>2. mids \in Seq(Tokens \ Ends(o))
    BY MidsIn
  <1>3. direct \in V2Shapes(o)
    BY DEF V2Shapes
  <1> HIDE DEF mids, direct
  <1>4. Len(mids) \in Nat /\ DOMAIN mids = 1..Len(mids)
    BY <1>2
  <1>5. ASSUME NEW k \in DOMAIN mids PROVE rest[k] \in V2Shapes(o)
    <2>1. mids[k] \in Tokens \ Ends(o)
      BY <1>2
    <2>2. QED
      BY <2>1 DEF V2Shapes
  <1>6. DOMAIN rest = 1..Len(mids) /\ rest = [k \in 1..Len(mids) |-> rest[k]]
    BY <1>4
  <1> HIDE DEF rest
  <1>7. rest \in Seq(V2Shapes(o))
    <2>1. rest \in [1..Len(mids) -> V2Shapes(o)]
      BY <1>4, <1>5, <1>6
    <2>2. QED
      BY <1>4, <2>1
  <1>8. <<direct>> \in Seq(V2Shapes(o))
    BY <1>3
  <1>9. QED
    BY <1>1, <1>7, <1>8

\* There is a pair, perhaps an empty one, at every hop.
LEMMA ReservesIn ==
    ASSUME NEW o \in Requests, NEW p \in V2Shapes(o), NEW m, IsMarket(m),
           NEW i \in 1..(Len(p.path) - 1)
    PROVE  Reserves(m, p.path, i)[1] \in Nat /\ Reserves(m, p.path, i)[2] \in Nat
  <1> DEFINE a == p.path[i]
             b == p.path[i + 1]
             pair == m.v2[{a, b}]
  <1>1. a \in Tokens /\ b \in Tokens /\ a # b
    BY V2Facts
  <1>2. Reserves(m, p.path, i) = Oriented(pair, a)
    BY DEF Reserves
  <1> HIDE DEF a, b
  <1>3. pair \in [token0 : Tokens, reserve0 : Nat, reserve1 : Nat]
    BY <1>1 DEF IsMarket
  <1> HIDE DEF pair
  <1>4. pair.reserve0 \in Nat /\ pair.reserve1 \in Nat
    BY <1>3
  <1>5. Oriented(pair, a)[1] \in Nat /\ Oriented(pair, a)[2] \in Nat
    BY <1>4 DEF Oriented
  <1>6. QED
    BY <1>2, <1>5

\* The pairs pay what the solver computes, and take no more than it computes.
ChainAgrees(m, p, n) ==
    LET chain == ChainPath(m, p.path, p.exactOut, n)
        computed == ComputePath(m, p.path, p.exactOut, n)
    IN  /\ chain \in Nat /\ computed \in Nat
        /\ ~p.exactOut => chain = computed
        /\ p.exactOut /\ computed # 0 => 0 < chain /\ chain <= computed

\* The pairs pay what ComputePath says, and take no more.
LEMMA ChainIs ==
    ASSUME NEW o \in Requests, NEW p \in V2Shapes(o), NEW m, IsMarket(m), NEW n \in Nat
    PROVE  ChainAgrees(m, p, n)
  <1> DEFINE path == p.path
             x == p.exactOut
             chain == ChainPath(m, path, x, n)
             computed == ComputePath(m, path, x, n)
             i1 == Reserves(m, path, 1)[1]
             o1 == Reserves(m, path, 1)[2]
             i2 == Reserves(m, path, 2)[1]
             o2 == Reserves(m, path, 2)[2]
             long == Len(path) = 3
  <1>1. Len(path) \in {2, 3} /\ x \in BOOLEAN
    BY V2Facts
  <1>2. i1 \in Nat /\ o1 \in Nat
    <2>1. 1 \in 1..(Len(path) - 1)
      <3> DEFINE k == Len(path)
      <3>1. k \in {2, 3}
        BY <1>1
      <3> HIDE DEF k
      <3>2. 1 \in 1..(k - 1)
        BY <3>1
      <3>3. QED
        BY <3>2 DEF k
    <2>2. QED
      BY <2>1, ReservesIn
  <1>3. long => i2 \in Nat /\ o2 \in Nat
    <2>1. ASSUME long PROVE i2 \in Nat /\ o2 \in Nat
      <3>1. 2 \in 1..(Len(path) - 1)
        BY <2>1
      <3>2. QED
        BY <3>1, ReservesIn
    <2>2. QED
      BY <2>1
  <1>4. ASSUME ~x
        PROVE  /\ computed = IF ~long THEN QuoteV2Swap(n, i1, o1)
                             ELSE QuoteV2Swap(QuoteV2Swap(n, i1, o1), i2, o2)
               /\ chain = IF ~long THEN PairPays(n, i1, o1)
                          ELSE PairPays(PairPays(n, i1, o1), i2, o2)
    BY <1>1, <1>4, ComputeForward, ChainForward
  <1>5. ASSUME x
        PROVE  /\ computed = IF ~long THEN GetAmountIn(n, i1, o1)
                             ELSE GetAmountIn(GetAmountIn(n, i2, o2), i1, o1)
               /\ chain = IF ~long THEN PairTakes(n, i1, o1)
                          ELSE PairTakes(PairTakes(n, i2, o2), i1, o1)
    <2>1. computed = IF Len(path) = 2 THEN GetAmountIn(n, i1, o1)
                     ELSE GetAmountIn(GetAmountIn(n, i2, o2), i1, o1)
      <3>1. ComputedBackward(m, path, x, n)
        BY <1>1, ComputeBackward
      <3>2. QED
        BY <1>1, <1>5, <3>1 DEF ComputedBackward
    <2>2. chain = IF Len(path) = 2 THEN PairTakes(n, i1, o1)
                  ELSE PairTakes(PairTakes(n, i2, o2), i1, o1)
      <3>1. ChainedBackward(m, path, x, n)
        BY <1>1, ChainBackward
      <3>2. QED
        BY <1>1, <1>5, <3>1 DEF ChainedBackward
    <2>3. QED
      BY <1>1, <2>1, <2>2
  <1>6. ChainAgrees(m, p, n)
          <=> /\ chain \in Nat /\ computed \in Nat
              /\ ~x => chain = computed
              /\ x /\ computed # 0 => 0 < chain /\ chain <= computed
    BY DEF ChainAgrees
  <1> HIDE DEF i1, o1, i2, o2, long, chain, computed, x
  <1>7. CASE ~x
    <2> DEFINE one == PairPays(n, i1, o1)
    <2>1. one \in Nat /\ QuoteV2Swap(n, i1, o1) = one
      BY <1>2, PairPaysIs
    <2> HIDE DEF one
    <2>2. long => PairPays(one, i2, o2) \in Nat /\ QuoteV2Swap(one, i2, o2) = PairPays(one, i2, o2)
      BY <1>3, <2>1, PairPaysIs
    <2>3. chain = IF ~long THEN one ELSE PairPays(one, i2, o2)
      BY <1>4, <1>7 DEF one
    <2>4. computed = IF ~long THEN one ELSE QuoteV2Swap(one, i2, o2)
      BY <1>4, <1>7, <2>1
    <2>5. chain \in Nat /\ chain = computed
      BY <2>1, <2>2, <2>3, <2>4
    <2>6. QED
      BY <1>6, <1>7, <2>5
  <1>8. CASE x
    <2>1. CASE ~long
      <3>1. computed = GetAmountIn(n, i1, o1) /\ chain = PairTakes(n, i1, o1)
        BY <1>5, <1>8, <2>1
      <3>2. computed \in Nat /\ chain \in Nat
        BY <1>2, <3>1, AmountInIs, PairTakesIs
      <3>3. ASSUME computed # 0 PROVE 0 < chain /\ chain <= computed
        <4>1. n # 0
          BY <1>2, <3>1, <3>3, AmountInIs
        <4>2. n \in Nat \ {0} /\ n <= n /\ GetAmountIn(n, i1, o1) # 0
          BY <3>1, <3>3, <4>1
        <4>3. QED
          BY <1>2, <3>1, <4>2, PairTakesLess
      <3>4. QED
        BY <1>6, <1>8, <3>2, <3>3
    <2>2. CASE long
      <3> DEFINE last == GetAmountIn(n, i2, o2)
                 taken == PairTakes(n, i2, o2)
      <3>1. computed = GetAmountIn(last, i1, o1) /\ chain = PairTakes(taken, i1, o1)
        BY <1>5, <1>8, <2>2
      <3>2. last \in Nat /\ taken \in Nat
        BY <1>3, <2>2, AmountInIs, PairTakesIs
      <3>3. last # 0 => 0 < taken /\ taken <= last
        <4>1. last # 0 => n # 0
          BY <1>3, <2>2, AmountInIs
        <4>2. last # 0 => n \in Nat \ {0} /\ n <= n
          BY <4>1
        <4>3. QED
          BY <1>3, <2>2, <4>2, PairTakesLess
      <3> HIDE DEF last, taken
      <3>4. computed \in Nat /\ chain \in Nat
        BY <1>2, <3>1, <3>2, AmountInIs, PairTakesIs
      <3>5. ASSUME computed # 0 PROVE 0 < chain /\ chain <= computed
        <4>1. last # 0
          BY <1>2, <3>1, <3>5, AmountInIs
        <4>2. taken \in Nat \ {0} /\ taken <= last /\ GetAmountIn(last, i1, o1) # 0
          BY <3>1, <3>2, <3>3, <3>5, <4>1
        <4>3. QED
          BY <1>2, <3>1, <3>2, <4>2, PairTakesLess
      <3>6. QED
        BY <1>6, <1>8, <3>4, <3>5
    <2>3. QED
      BY <2>1, <2>2
  <1>9. QED
    BY <1>1, <1>7, <1>8

\* What the V2 source may have answered.
V2Quotes(o, m, still) ==
    {NoQuote} \cup
    {q \in [path : V2Shapes(o), amount : Nat \ {0}] :
        still => q.amount = ComputePath(m, q.path.path, q.path.exactOut, q.path.amount)}

\* A V2 quote belongs to its path, and holds in a market that has not moved.
LEMMA QuoteV2Good ==
    ASSUME NEW o \in Requests, NEW m, IsMarket(m), NEW still
    PROVE  QuoteV2(m, o) \in V2Quotes(o, m, still)
  <1> DEFINE ps == V2Paths(o)
             n == Len(ps)
             computed(p) == ComputePath(m, p.path, p.exactOut, p.amount)
             qs == [i \in DOMAIN ps |-> [path |-> ps[i], amount |-> computed(ps[i])]]
             x == (o.kind = "buy")
  <1>1. QuoteV2(m, o) = BestAmong(qs, DOMAIN qs)
    BY DEF QuoteV2, SelectBest
  <1>2. ps \in Seq(V2Shapes(o)) /\ n \in Nat /\ DOMAIN ps = 1..n
    BY V2PathsIn
  <1>3. DOMAIN qs = 1..n
    BY <1>2
  <1>4. ASSUME NEW i \in 1..n
        PROVE  /\ qs[i] \in [path : V2Shapes(o), amount : Nat]
               /\ qs[i].amount = ComputePath(m, qs[i].path.path, qs[i].path.exactOut,
                                             qs[i].path.amount)
               /\ qs[i].path.exactOut <=> x
    <2> DEFINE p == ps[i]
               a == computed(p)
    <2>1. p \in V2Shapes(o) /\ qs[i] = [path |-> p, amount |-> a]
      BY <1>2
    <2> HIDE DEF p, qs, x
    <2>2. p.amount \in Nat /\ (p.exactOut <=> o.kind = "buy")
      BY <2>1, V2Facts
    <2>3. a \in Nat
      <3>1. ChainAgrees(m, p, p.amount)
        BY <2>1, <2>2, ChainIs
      <3>2. QED
        BY <3>1 DEF ChainAgrees
    <2>4. qs[i].path = p /\ qs[i].amount = a
      BY <2>1
    <2>5. a = ComputePath(m, p.path, p.exactOut, p.amount)
      OBVIOUS
    <2> HIDE DEF a
    <2>6. qs[i] \in [path : V2Shapes(o), amount : Nat]
      BY <2>1, <2>3
    <2>7. QED
      BY <2>2, <2>4, <2>5, <2>6 DEF x
  <1>5. x \in BOOLEAN
    OBVIOUS
  <1> HIDE DEF qs, x, n
  <1>6. Comparable(qs, 1..n, x)
    <2>1. \A i \in 1..n : qs[i].amount \in Nat
      BY <1>4
    <2>2. QED
      BY <1>4, <2>1 DEF Comparable
  <1>7. \/ QuoteV2(m, o) = NoQuote
        \/ \E i \in 1..n : QuoteV2(m, o) = qs[i] /\ qs[i].amount # 0
    <2>1. 1..n \subseteq 1..n
      OBVIOUS
    <2>2. QED
      BY <1>1, <1>2, <1>3, <1>5, <1>6, <2>1, BestIsQuoted
  <1>8. CASE QuoteV2(m, o) = NoQuote
    BY <1>8 DEF V2Quotes
  <1>9. CASE \E i \in 1..n : QuoteV2(m, o) = qs[i] /\ qs[i].amount # 0
    <2>1. PICK i \in 1..n : QuoteV2(m, o) = qs[i] /\ qs[i].amount # 0
      BY <1>9
    <2> DEFINE q == qs[i]
    <2>2. q \in [path : V2Shapes(o), amount : Nat] /\ q.amount # 0
          /\ q.amount = ComputePath(m, q.path.path, q.path.exactOut, q.path.amount)
      BY <1>4, <2>1
    <2> HIDE DEF q
    <2>3. q \in [path : V2Shapes(o), amount : Nat \ {0}]
      BY <2>2
    <2>4. q \in V2Quotes(o, m, still)
      BY <2>2, <2>3 DEF V2Quotes
    <2>5. QED
      BY <2>1, <2>4 DEF q
  <1>10. QED
    BY <1>7, <1>8, <1>9

\* A fill along pairs: they take no more than f.sell, or pay f.buy at least.
PairFill(f, o, m, still) ==
    /\ f.path \in V2Shapes(o) /\ f.sell \in Nat /\ f.buy \in Nat
    /\ f.path.exactOut => (still => LET taken == ChainPath(m, f.path.path, f.path.exactOut, f.buy)
                                    IN  0 < taken /\ taken <= f.sell)
    /\ ~f.path.exactOut => (still => LET paid == ChainPath(m, f.path.path, f.path.exactOut, f.sell)
                                     IN  f.buy > 0 /\ paid >= f.buy)

\* A fill from a V2 quote is as good as the quote.
LEMMA WholeIsPairFill ==
    ASSUME NEW o \in Requests, NEW m, IsMarket(m), NEW still \in BOOLEAN,
           NEW q \in V2Quotes(o, m, still), q # NoQuote
    PROVE  PairFill(Whole(o, q), o, m, still)
  <1> DEFINE p == q.path
             n == p.amount
             chain == ChainPath(m, p.path, p.exactOut, n)
             f == Whole(o, q)
  <1>1. p \in V2Shapes(o) /\ q.amount \in Nat \ {0}
        /\ (still => q.amount = ComputePath(m, p.path, p.exactOut, n))
    BY DEF V2Quotes
  <1>2. n \in Nat /\ n = Amounts(o)[1] /\ p.exactOut \in BOOLEAN /\ (p.exactOut <=> o.kind = "buy")
    <2> HIDE DEF p
    <2>1. QED
      BY <1>1, V2Facts
  <1>3. n = IF p.exactOut THEN o.buyAmount ELSE o.sellAmount
    BY <1>2, AmountsIn
  <1>4. o.sellAmount \in Nat /\ o.buyAmount \in Nat
    BY RequestFacts
  <1>5. ChainAgrees(m, p, n)
    <2> HIDE DEF p, n
    <2>1. QED
      BY <1>1, <1>2, ChainIs
  <1>6. /\ chain \in Nat
        /\ ~p.exactOut /\ still => chain = q.amount
        /\ p.exactOut /\ still => 0 < chain /\ chain <= q.amount
    BY <1>1, <1>5 DEF ChainAgrees
  <1>7. f = IF p.exactOut THEN [path |-> p, sell |-> q.amount, buy |-> o.buyAmount]
            ELSE [path |-> p, sell |-> o.sellAmount, buy |-> q.amount]
    BY DEF Whole, Fill
  <1>8. f.path = p
    BY <1>7
  <1>9. CASE p.exactOut
    <2>1. f.sell = q.amount /\ f.buy = n
      BY <1>3, <1>7, <1>9
    <2>2. chain = ChainPath(m, f.path.path, f.path.exactOut, f.buy)
      BY <1>8, <2>1
    <2>3. f.path \in V2Shapes(o) /\ f.sell \in Nat /\ f.buy \in Nat
      BY <1>1, <1>2, <1>8, <2>1
    <2>4. f.path.exactOut /\ (still => 0 < chain /\ chain <= f.sell)
      BY <1>6, <1>8, <1>9, <2>1
    <2> DEFINE taken == ChainPath(m, f.path.path, f.path.exactOut, f.buy)
    <2>5. taken = chain
      BY <2>2
    <2>6. PairFill(f, o, m, still)
            <=> /\ f.path \in V2Shapes(o) /\ f.sell \in Nat /\ f.buy \in Nat
                /\ f.path.exactOut => (still => 0 < taken /\ taken <= f.sell)
                /\ ~f.path.exactOut =>
                     (still => f.buy > 0
                               /\ ChainPath(m, f.path.path, f.path.exactOut, f.sell) >= f.buy)
      BY DEF PairFill
    <2> HIDE DEF f, chain, p, n, taken
    <2>7. PairFill(f, o, m, still)
      BY <2>3, <2>4, <2>5, <2>6
    <2>8. QED
      BY <2>7 DEF f
  <1>10. CASE ~p.exactOut
    <2>1. f.sell = n /\ f.buy = q.amount
      BY <1>3, <1>7, <1>10
    <2>2. chain = ChainPath(m, f.path.path, f.path.exactOut, f.sell)
      BY <1>8, <2>1
    <2>3. f.path \in V2Shapes(o) /\ f.sell \in Nat /\ f.buy \in Nat
      BY <1>1, <1>2, <1>8, <2>1
    <2>4. ~f.path.exactOut /\ (still => f.buy > 0 /\ chain >= f.buy)
      BY <1>1, <1>6, <1>8, <1>10, <2>1
    <2> DEFINE paid == ChainPath(m, f.path.path, f.path.exactOut, f.sell)
               taken == ChainPath(m, f.path.path, f.path.exactOut, f.buy)
    <2>5. paid = chain
      BY <2>2
    <2>6. PairFill(f, o, m, still)
            <=> /\ f.path \in V2Shapes(o) /\ f.sell \in Nat /\ f.buy \in Nat
                /\ f.path.exactOut => (still => 0 < taken /\ taken <= f.sell)
                /\ ~f.path.exactOut => (still => f.buy > 0 /\ paid >= f.buy)
      BY DEF PairFill
    <2> HIDE DEF f, chain, p, n, paid, taken
    <2>7. PairFill(f, o, m, still)
      BY <2>3, <2>4, <2>5, <2>6
    <2>8. QED
      BY <2>7 DEF f
  <1>11. QED
    BY <1>9, <1>10

\* What the aggregator takes: a good fill of V3's, or one along pairs.
LEMMA SourceFillsGood ==
    ASSUME NEW o \in Requests, NEW m, IsMarket(m), NEW still \in BOOLEAN,
           NEW quotes \in Seq(GoodQuotes(V3Shapes(o), m, still)),
           v2.quote \in V2Quotes(o, m, still), NEW f \in SourceFills(o, quotes)
    PROVE  GoodFill(f, V3Shapes(o), m, still) \/ PairFill(f, o, m, still)
  <1> DEFINE T == V3Shapes(o)
             G == GoodQuotes(T, m, still)
             first == SelectBest(quotes)
             both == <<first, v2.quote>>
             best == SelectBest(both)
             x == (o.kind = "buy")
  <1>1. best # NoQuote /\ f = Whole(o, best)
    BY DEF SourceFills
  <1>2. T \subseteq Shapes(o)
    BY DEF Shapes
  <1>3. first # NoQuote => first \in G /\ first.amount # 0
    <2> DEFINE I == DOMAIN quotes
    <2>1. I \subseteq 1..Len(quotes) /\ first = BestAmong(quotes, I)
      BY DEF SelectBest
    <2> HIDE DEF T, first, I
    <2>2. Chosen(first, quotes, I, GoodQuotes(T, m, still))
      <3>1. quotes \in Seq(GoodQuotes(T, m, still))
        BY DEF T
      <3>2. QED
        BY <1>2, <2>1, <3>1, BestIsGood
    <2>3. QED
      BY <2>2 DEF Chosen
  <1>4. NoQuote.amount = 0
    BY DEF NoQuote
  <1>5. first.amount \in Nat /\ (first.amount # 0 => first \in G /\ (first.path.exactOut <=> x))
    <2> HIDE DEF first, T
    <2>1. CASE first = NoQuote
      BY <1>4, <2>1
    <2>2. CASE first # NoQuote
      <3>1. first.amount \in Nat /\ first.path \in Shapes(o)
        BY <1>2, <1>3, <2>2 DEF GoodQuotes
      <3>2. first.path.exactOut <=> o.kind = "buy"
        BY <3>1, ShapeAmount
      <3>3. QED
        BY <1>3, <2>2, <3>1, <3>2
    <2>3. QED
      BY <2>1, <2>2
  <1> DEFINE pairs == v2.quote
  <1>6. pairs.amount \in Nat /\ (pairs.amount # 0 => pairs # NoQuote /\ (pairs.path.exactOut <=> x))
    <2>1. pairs \in V2Quotes(o, m, still)
      OBVIOUS
    <2> HIDE DEF pairs
    <2>2. CASE pairs = NoQuote
      BY <1>4, <2>2
    <2>3. CASE pairs # NoQuote
      <3>1. pairs.path \in V2Shapes(o) /\ pairs.amount \in Nat
        BY <2>1, <2>3 DEF V2Quotes
      <3>2. pairs.path.exactOut <=> o.kind = "buy"
        BY <3>1, V2Facts
      <3>3. QED
        BY <2>3, <3>1, <3>2
    <2>4. QED
      BY <2>2, <2>3
  <1>7. both = <<first, pairs>> /\ DOMAIN both = 1..2 /\ x \in BOOLEAN
    OBVIOUS
  <1>8. pairs \in V2Quotes(o, m, still)
    OBVIOUS
  <1> HIDE DEF first, pairs, G, T
  <1>9. both[1] = first /\ both[2] = pairs
    BY <1>7
  <1> HIDE DEF both, x
  <1>10. Comparable(both, 1..2, x)
    <2>1. \A i \in 1..2 : i = 1 \/ i = 2
      OBVIOUS
    <2>2. QED
      BY <1>5, <1>6, <1>9, <2>1 DEF Comparable
  <1>11. \E i \in 1..2 : best = both[i] /\ both[i].amount # 0
    <2>1. best = BestAmong(both, 1..2)
      BY <1>7 DEF SelectBest
    <2>2. 1..2 \subseteq 1..2 /\ 2 \in Nat
      OBVIOUS
    <2> HIDE DEF best
    <2>3. \/ best = NoQuote
          \/ \E i \in 1..2 : best = both[i] /\ both[i].amount # 0
      BY <1>7, <1>10, <2>1, <2>2, BestIsQuoted
    <2>4. QED
      BY <1>1, <2>3
  <1> HIDE DEF best
  <1>12. \/ best = first /\ first.amount # 0
         \/ best = pairs /\ pairs.amount # 0
    <2>1. \A i \in 1..2 : i = 1 \/ i = 2
      OBVIOUS
    <2>2. QED
      BY <1>9, <1>11, <2>1
  <1>13. CASE best = first /\ first.amount # 0
    <2>1. best \in GoodQuotes(T, m, still) /\ best.amount # 0
      BY <1>5, <1>13 DEF G
    <2>2. best.path \in V3Shapes(o)
      BY <2>1 DEF GoodQuotes, T
    <2>3. best.path.venue # "v4"
      <3> DEFINE p == best.path
      <3>1. p \in V3Shapes(o)
        BY <2>2
      <3> HIDE DEF p
      <3>2. p.venue = "v3"
        BY <3>1, V3Facts
      <3>3. QED
        BY <3>2 DEF p
    <2>4. GoodFill(Whole(o, best), T, m, still)
      BY <1>2, <2>1, <2>3, WholeIsGood
    <2>5. QED
      BY <1>1, <2>4 DEF T
  <1>14. CASE best = pairs /\ pairs.amount # 0
    <2>1. PairFill(Whole(o, best), o, m, still)
      BY <1>6, <1>8, <1>14, WholeIsPairFill
    <2>2. QED
      BY <1>1, <2>1
  <1>15. QED
    BY <1>12, <1>13, <1>14

-----------------------------------------------------------------------------
(* Plans.                                                                  *)

\* The tolerance of a promise.
LEMMA SlippageIs ==
    ASSUME NEW x \in Nat
    PROVE  /\ SlippageDown(x) \in Nat /\ SlippageDown(x) <= x
           /\ Unit * (x - SlippageDown(x)) <= SlippageBps * x + Unit
           /\ SlippageUp(x) \in Nat /\ x <= SlippageUp(x)
           /\ Unit * (SlippageUp(x) - x) <= SlippageBps * x + Unit
  <1>1. Unit \in Nat \ {0} /\ SlippageBps \in 0..Unit
    BY VenueAssumption
  <1> DEFINE u == Unit
             sx == SlippageBps * x
             ux == u * x
             down == (ux - sx) \div u
             up == (ux + sx + u - 1) \div u
  <1>2. x * (Unit - SlippageBps) = ux - sx /\ x * (Unit + SlippageBps) = ux + sx
    BY <1>1
  <1>3. SlippageDown(x) = down /\ SlippageUp(x) = up
    BY <1>2 DEF SlippageDown, SlippageUp
  <1>4. sx \in Nat /\ ux \in Nat /\ sx <= ux /\ u \in Nat \ {0}
    BY <1>1
  <1>5. ux = u * x
    OBVIOUS
  <1> HIDE DEF sx, ux
  <1> DEFINE a == ux - sx
             b == ux + sx + u - 1
  <1>6. a \in Nat /\ b \in Nat /\ down = a \div u /\ up = b \div u
    BY <1>4
  <1>7. a = ux - sx /\ b = ux + sx + u - 1
    OBVIOUS
  <1> HIDE DEF a, b, u, down, up
  <1>8. down \in Nat /\ u * down <= a /\ a < u * down + u
    BY <1>4, <1>6
  <1>9. up \in Nat /\ u * up <= b /\ b < u * up + u
    BY <1>4, <1>6
  <1>10. down <= x
    <2>1. u * down <= u * x
      BY <1>4, <1>5, <1>7, <1>8
    <2>2. QED
      BY <1>4, <1>8, <2>1
  <1>11. x <= up
    <2>1. u * x < u * up + u
      BY <1>4, <1>5, <1>7, <1>9
    <2>2. u * up + u = u * (up + 1)
      BY <1>4, <1>9
    <2>3. u * x < u * (up + 1)
      BY <2>1, <2>2
    <2>4. x < up + 1
      BY <1>4, <1>9, <2>3
    <2>5. QED
      BY <1>9, <2>4
  <1>12. u * (x - down) = u * x - u * down /\ u * (up - x) = u * up - u * x
    BY <1>4, <1>8, <1>9
  <1>13. u * (x - down) <= sx + u
    <2> DEFINE ud == u * down
    <2>1. ud \in Nat /\ a < ud + u /\ u * (x - down) = ux - ud
      BY <1>4, <1>5, <1>8, <1>12
    <2> HIDE DEF ud
    <2>2. ux - ud <= sx + u
      BY <1>4, <1>7, <2>1
    <2>3. QED
      BY <2>1, <2>2
  <1>14. u * (up - x) <= sx + u
    <2> DEFINE uu == u * up
    <2>1. uu \in Nat /\ uu <= b /\ u * (up - x) = uu - ux
      BY <1>4, <1>5, <1>9, <1>12
    <2> HIDE DEF uu
    <2>2. uu - ux <= sx + u
      BY <1>4, <1>7, <2>1
    <2>3. QED
      BY <2>1, <2>2
  <1>15. QED
    BY <1>3, <1>8, <1>9, <1>10, <1>11, <1>13, <1>14 DEF u, sx

\* What the environment may show is a market.
LEMMA MarketsAre ==
    ASSUME NEW m \in ToSet(Markets)
    PROVE  IsMarket(m)
  BY RoundAssumption DEF ToSet

\* A swap that does what was promised, with the tolerance as its limit.
SwapGood(s, pr, m, still) ==
    /\ s.op = "swap"
    /\ s.token \in Tokens /\ s.spender \in Spenders /\ s.exactOut \in BOOLEAN
    /\ pr.sell \in Nat /\ pr.buy \in Nat
    /\ s.call.amount = IF s.exactOut THEN pr.buy ELSE pr.sell
    /\ s.limit = IF s.exactOut THEN SlippageUp(pr.sell) ELSE SlippageDown(pr.buy)
    /\ \A mm \in ToSet(Markets) : Realised(mm, s.call) \in Nat
    /\ still /\ s.exactOut => 0 < Realised(m, s.call) /\ Realised(m, s.call) <= pr.sell
    /\ still /\ ~s.exactOut => 0 < pr.buy /\ pr.buy <= Realised(m, s.call)

\* A swap as the encoders build it.
Encoded(s, p, pr) ==
    /\ s.op = "swap" /\ s.token = p.tokenIn /\ s.exactOut = p.exactOut
    /\ s.call.amount = IF p.exactOut THEN pr.buy ELSE pr.sell
    /\ s.limit = IF p.exactOut THEN SlippageUp(pr.sell) ELSE SlippageDown(pr.buy)

\* What a swap by a candidate brings is what its path is meant to bring.
LEMMA EncodedIsGood ==
    ASSUME NEW o \in Requests, NEW m \in ToSet(Markets), NEW still \in BOOLEAN, NEW T,
           T \subseteq Shapes(o), NEW f, GoodFill(f, T, m, still), NEW s, NEW pr,
           pr.sell = f.sell, pr.buy = f.buy, Encoded(s, f.path, pr), s.spender \in Spenders,
           \A mm \in ToSet(Markets) : Realised(mm, s.call) = For(mm, f.path, s.call.amount)
    PROVE  SwapGood(s, pr, m, still)
  <1> DEFINE p == f.path
  <1>1. p \in Shapes(o) /\ f.sell \in Nat /\ f.buy \in Nat
    BY DEF GoodFill
  <1>2. p.tokenIn = o.sellToken /\ p.exactOut \in BOOLEAN
    <2> HIDE DEF p
    <2>1. QED
      BY <1>1, ShapeAmount
  <1>3. s.token \in Tokens /\ s.exactOut \in BOOLEAN /\ s.exactOut = p.exactOut
    BY <1>2, RequestFacts DEF Encoded
  <1>4. s.call.amount = (IF p.exactOut THEN f.buy ELSE f.sell) /\ s.call.amount \in Nat
    BY <1>1 DEF Encoded
  <1>5. ASSUME NEW mm \in ToSet(Markets) PROVE Realised(mm, s.call) \in Nat
    <2>1. IsMarket(mm)
      BY MarketsAre
    <2> DEFINE n == s.call.amount
    <2>2. Realised(mm, s.call) = For(mm, p, n) /\ n \in Nat
      BY <1>4
    <2> HIDE DEF p, n
    <2>3. QED
      BY <1>1, <2>1, <2>2, ForIs
  <1>6. Realised(m, s.call) = For(m, p, s.call.amount)
    OBVIOUS
  <1>7. ASSUME still, s.exactOut PROVE 0 < Realised(m, s.call) /\ Realised(m, s.call) <= pr.sell
    <2>1. f.sell > 0 /\ For(m, p, f.buy) = f.sell
      BY <1>3, <1>7 DEF GoodFill
    <2>2. Realised(m, s.call) = f.sell
      BY <1>3, <1>4, <1>6, <1>7, <2>1
    <2>3. QED
      BY <1>1, <2>1, <2>2
  <1>8. ASSUME still, ~s.exactOut PROVE 0 < pr.buy /\ pr.buy <= Realised(m, s.call)
    <2>1. f.buy > 0 /\ For(m, p, f.sell) >= f.buy
      BY <1>3, <1>8 DEF GoodFill
    <2>2. Realised(m, s.call) = For(m, p, f.sell)
      BY <1>3, <1>4, <1>6, <1>8
    <2> DEFINE r == Realised(m, s.call)
    <2>3. r \in Nat /\ r >= f.buy
      BY <1>5, <2>1, <2>2
    <2> HIDE DEF r
    <2>4. 0 < pr.buy /\ pr.buy <= r
      BY <1>1, <2>1, <2>3
    <2>5. QED
      BY <2>4 DEF r
  <1>9. /\ s.op = "swap"
        /\ s.call.amount = IF s.exactOut THEN pr.buy ELSE pr.sell
        /\ s.limit = IF s.exactOut THEN SlippageUp(pr.sell) ELSE SlippageDown(pr.buy)
    BY <1>3 DEF Encoded
  <1> HIDE DEF p
  <1>10. QED
    BY <1>1, <1>3, <1>5, <1>7, <1>8, <1>9 DEF SwapGood

\* V3's encoder, single hop or packed, buy or sell.
LEMMA V3SwapGood ==
    ASSUME NEW o \in Requests, NEW m \in ToSet(Markets), NEW still \in BOOLEAN, NEW T,
           T \subseteq Shapes(o), NEW f, GoodFill(f, T, m, still), f.path \in V3Shapes(o),
           NEW pr, pr.sell = f.sell, pr.buy = f.buy
    PROVE  SwapGood(EncodeV3Swap(f.path, f.sell, f.buy), pr, m, still)
  <1> DEFINE p == f.path
             s == EncodeV3Swap(p, f.sell, f.buy)
             route == IF p.mid = Direct THEN [tokens |-> <<p.tokenIn, p.tokenOut>>, fees |-> <<p.fee>>]
                      ELSE IF p.exactOut THEN PackReversed(p) ELSE PackForward(p)
             amount == IF p.exactOut THEN f.buy ELSE f.sell
  <1>1. s = [op |-> "swap", call |-> [to |-> "v3", exactOut |-> p.exactOut, amount |-> amount,
                                      path |-> route],
             token |-> p.tokenIn, spender |-> "swapRouter", exactOut |-> p.exactOut,
             limit |-> IF p.exactOut THEN SlippageUp(f.sell) ELSE SlippageDown(f.buy),
             deadline |-> TRUE]
    BY DEF EncodeV3Swap, Swap, ExactSingle, ExactPacked
  <1>2. f.sell \in Nat /\ f.buy \in Nat /\ p \in Shapes(o) /\ p \in V3Shapes(o)
    BY DEF GoodFill
  <1> DEFINE call == s.call
  <1>3. call.to = "v3" /\ call.exactOut = p.exactOut /\ call.amount = amount /\ call.path = route
    BY <1>1
  <1>4. Encoded(s, p, pr) /\ s.spender \in Spenders
    BY <1>1 DEF Encoded, Spenders
  <1>5. amount \in Nat
    BY <1>2
  <1> HIDE DEF s
  <1>6. ASSUME NEW mm \in ToSet(Markets) PROVE Realised(mm, call) = For(mm, p, call.amount)
    <2>1. IsMarket(mm)
      BY MarketsAre
    <2>2. WalkV3(mm, route, p.exactOut, amount) = For(mm, p, amount)
      <3> HIDE DEF p, amount
      <3>1. QED
        BY <1>2, <1>5, <2>1, V3Answers
    <2> HIDE DEF route, p, amount
    <2>3. Realised(mm, call) = WalkV3(mm, call.path, call.exactOut, call.amount)
      BY <1>3 DEF Realised, Answer
    <2>4. QED
      BY <1>3, <2>2, <2>3
  <1>7. SwapGood(s, pr, m, still)
    <2> HIDE DEF call, p, route, amount
    <2>1. \A mm \in ToSet(Markets) : Realised(mm, s.call) = For(mm, f.path, s.call.amount)
      BY <1>6 DEF call, p
    <2>2. Encoded(s, f.path, pr) /\ s.spender \in Spenders
      BY <1>4 DEF p
    <2>3. QED
      BY <2>1, <2>2, EncodedIsGood
  <1>8. QED
    BY <1>7 DEF s

\* V4's, of a pool without the native currency.
LEMMA V4SwapGood ==
    ASSUME NEW o \in Requests, NEW m \in ToSet(Markets), NEW still \in BOOLEAN, NEW T,
           T \subseteq Shapes(o), NEW f, GoodFill(f, T, m, still), f.path \in V4Shapes(o),
           NEW pr, pr.sell = f.sell, pr.buy = f.buy
    PROVE  SwapGood(Swap(f.path, V4SwapInput(f.path, f.sell), "permit2",
                         SlippageDown(f.buy), TRUE), pr, m, still)
  <1> DEFINE p == f.path
             s == Swap(p, V4SwapInput(p, f.sell), "permit2", SlippageDown(f.buy), TRUE)
             key == PoolKey(p.tokenIn, p.tokenOut, p.fee)
             zero == Rank[p.tokenIn] < Rank[p.tokenOut]
  <1>1. p.venue = "v4" /\ p.exactOut = FALSE /\ p \in V4Shapes(o) /\ p \in Shapes(o)
    <2>1. p \in V4Shapes(o) /\ p \in Shapes(o)
      BY DEF GoodFill
    <2> HIDE DEF p
    <2>2. p.venue = "v4" /\ p.exactOut = FALSE
      BY <2>1, V4Facts
    <2>3. QED
      BY <2>1, <2>2
  <1>2. ~p.native /\ f.sell \in Nat /\ f.buy \in Nat
    BY <1>1 DEF GoodFill
  <1> DEFINE call == s.call
  <1>3. s = [op |-> "swap", call |-> [to |-> "v4", exactOut |-> FALSE, key |-> key,
                                      zeroForOne |-> zero, amount |-> f.sell],
             token |-> p.tokenIn, spender |-> "permit2", exactOut |-> p.exactOut,
             limit |-> SlippageDown(f.buy), deadline |-> TRUE]
    BY DEF Swap, V4SwapInput
  <1> HIDE DEF s
  <1>4. call.to = "v4" /\ call.exactOut = FALSE /\ call.key = key /\ call.zeroForOne = zero
        /\ call.amount = f.sell
    BY <1>3
  <1>5. Encoded(s, p, pr) /\ s.spender \in Spenders
    BY <1>1, <1>3 DEF Encoded, Spenders
  <1>6. V4Call(p).key = key /\ V4Call(p).zeroForOne = zero
    <2>1. Currency(p, p.tokenIn) = p.tokenIn /\ Currency(p, p.tokenOut) = p.tokenOut
      BY <1>2 DEF Currency
    <2>2. QED
      BY <2>1 DEF V4Call
  <1>7. ASSUME NEW mm \in ToSet(Markets) PROVE Realised(mm, call) = For(mm, p, call.amount)
    <2>1. IsMarket(mm)
      BY MarketsAre
    <2> HIDE DEF key, zero, p
    <2>2. Realised(mm, call) = IF key \notin DOMAIN mm.v4 THEN 0
                               ELSE Yield(call.amount, mm.v4[key][zero])
      BY <1>4 DEF Realised, Answer
    <2>3. V4Rate(mm, p) = IF key \in DOMAIN mm.v4 THEN mm.v4[key][zero] ELSE 0
      BY <1>6 DEF V4Rate
    <2>4. For(mm, p, call.amount) = Yield(call.amount, V4Rate(mm, p))
      BY <1>1 DEF For
    <2>5. Yield(call.amount, 0) = 0
      <3>1. call.amount \in Nat
        BY <1>2, <1>4
      <3> HIDE DEF call
      <3>2. call.amount * 0 = 0
        BY <3>1
      <3>3. QED
        BY <3>2 DEF Yield
    <2>6. CASE key \in DOMAIN mm.v4
      BY <2>2, <2>3, <2>4, <2>6
    <2>7. CASE key \notin DOMAIN mm.v4
      BY <2>2, <2>3, <2>4, <2>5, <2>7
    <2>8. QED
      BY <2>6, <2>7
  <1>8. SwapGood(s, pr, m, still)
    <2> HIDE DEF call, p, key, zero
    <2>1. \A mm \in ToSet(Markets) : Realised(mm, s.call) = For(mm, f.path, s.call.amount)
      BY <1>7 DEF call, p
    <2>2. Encoded(s, f.path, pr) /\ s.spender \in Spenders
      BY <1>5 DEF p
    <2>3. QED
      BY <2>1, <2>2, EncodedIsGood
  <1>9. QED
    BY <1>8 DEF s

\* Curve's.
LEMMA CurveSwapGood ==
    ASSUME NEW o \in Requests, NEW m \in ToSet(Markets), NEW still \in BOOLEAN, NEW T,
           T \subseteq Shapes(o), NEW f, GoodFill(f, T, m, still), f.path \in CurveShapes(o),
           NEW pr, pr.sell = f.sell, pr.buy = f.buy
    PROVE  SwapGood(SwapOf(EncodeCurveSwap(f.path, f.sell, f.buy)), pr, m, still)
  <1> DEFINE p == f.path
             s == SwapOf(EncodeCurveSwap(p, f.sell, f.buy))
  <1>1. /\ p.venue = "curve" /\ p.exactOut = FALSE /\ p \in Shapes(o)
        /\ p.pool \in DOMAIN CurvePools
    <2>1. p \in CurveShapes(o) /\ p \in Shapes(o)
      BY DEF GoodFill
    <2> HIDE DEF p
    <2>2. p.venue = "curve" /\ p.exactOut = FALSE /\ p.pool \in DOMAIN CurvePools
      BY <2>1, CurveFacts
    <2>3. QED
      BY <2>1, <2>2
  <1>2. f.sell \in Nat /\ f.buy \in Nat
    BY DEF GoodFill
  <1>3. s = [op |-> "swap", call |-> [to |-> "curve", pool |-> p.pool, i |-> p.i, j |-> p.j,
                                      amount |-> f.sell],
             token |-> p.tokenIn, spender |-> p.pool, exactOut |-> p.exactOut,
             limit |-> SlippageDown(f.buy), deadline |-> FALSE]
    BY DEF SwapOf, EncodeCurveSwap, Swap
  <1> HIDE DEF s
  <1> DEFINE call == s.call
  <1>4. call.to = "curve" /\ call.pool = p.pool /\ call.i = p.i /\ call.j = p.j
        /\ call.amount = f.sell
    BY <1>3
  <1>5. Encoded(s, p, pr) /\ s.spender \in Spenders
    BY <1>1, <1>3 DEF Encoded, Spenders
  <1>6. ASSUME NEW mm \in ToSet(Markets) PROVE Realised(mm, call) = For(mm, p, call.amount)
    <2> HIDE DEF p, call
    <2>1. Realised(mm, call) = Yield(call.amount, mm.curve[p.pool][<<p.i, p.j>>])
      BY <1>4 DEF Realised, Answer
    <2>2. For(mm, p, call.amount) = Yield(call.amount, mm.curve[p.pool][<<p.i, p.j>>])
      BY <1>1 DEF For
    <2>3. QED
      BY <2>1, <2>2
  <1>7. SwapGood(s, pr, m, still)
    <2> HIDE DEF call, p
    <2>1. \A mm \in ToSet(Markets) : Realised(mm, s.call) = For(mm, f.path, s.call.amount)
      BY <1>6 DEF call, p
    <2>2. Encoded(s, f.path, pr) /\ s.spender \in Spenders
      BY <1>5 DEF p
    <2>3. QED
      BY <2>1, <2>2, EncodedIsGood
  <1>8. QED
    BY <1>7 DEF s

\* The V2 router's.
LEMMA V2SwapGood ==
    ASSUME NEW o \in Requests, NEW m \in ToSet(Markets), NEW still \in BOOLEAN, NEW f,
           PairFill(f, o, m, still), NEW pr, pr.sell = f.sell, pr.buy = f.buy
    PROVE  SwapGood(EncodeV2Swap(f.path, f.sell, f.buy), pr, m, still)
  <1> DEFINE p == f.path
             s == EncodeV2Swap(p, f.sell, f.buy)
             amount == IF p.exactOut THEN f.buy ELSE f.sell
             chain(mm) == ChainPath(mm, p.path, p.exactOut, amount)
  <1>1. p \in V2Shapes(o) /\ f.sell \in Nat /\ f.buy \in Nat /\ amount \in Nat
    BY DEF PairFill
  <1>2. p.tokenIn = o.sellToken /\ p.exactOut \in BOOLEAN /\ o.sellToken \in Tokens
    <2> HIDE DEF p
    <2>1. QED
      BY <1>1, V2Facts, RequestFacts
  <1> DEFINE call == s.call
  <1>3. s = [op |-> "swap", call |-> [to |-> "v2", path |-> p.path, exactOut |-> p.exactOut,
                                      amount |-> amount],
             token |-> p.tokenIn, spender |-> "v2Router", exactOut |-> p.exactOut,
             limit |-> IF p.exactOut THEN SlippageUp(f.sell) ELSE SlippageDown(f.buy),
             deadline |-> TRUE]
    BY DEF EncodeV2Swap, Swap
  <1>4. call.to = "v2" /\ call.path = p.path /\ call.exactOut = p.exactOut /\ call.amount = amount
    BY <1>3
  <1>5. /\ s.op = "swap" /\ s.token = p.tokenIn /\ s.spender = "v2Router" /\ s.exactOut = p.exactOut
        /\ s.limit = IF p.exactOut THEN SlippageUp(f.sell) ELSE SlippageDown(f.buy)
    BY <1>3
  <1> HIDE DEF s
  <1>6. ASSUME NEW mm PROVE Realised(mm, call) = chain(mm)
    <2> HIDE DEF call, p, amount
    <2>1. Realised(mm, call) = ChainPath(mm, call.path, call.exactOut, call.amount)
      BY <1>4 DEF Realised
    <2>2. QED
      BY <1>4, <2>1
  <1>7. ASSUME NEW mm \in ToSet(Markets) PROVE chain(mm) \in Nat
    <2>1. IsMarket(mm)
      BY MarketsAre
    <2> HIDE DEF p, amount
    <2>2. ChainAgrees(mm, p, amount)
      BY <1>1, <2>1, ChainIs
    <2>3. QED
      BY <2>2 DEF ChainAgrees
  <1>8. ASSUME still, p.exactOut PROVE 0 < chain(m) /\ chain(m) <= f.sell
    BY <1>8 DEF PairFill
  <1>9. ASSUME still, ~p.exactOut PROVE 0 < f.buy /\ f.buy <= chain(m)
    <2> DEFINE c == chain(m)
    <2>1. f.buy > 0 /\ c >= f.buy
      BY <1>9 DEF PairFill
    <2>2. c \in Nat
      BY <1>7
    <2> HIDE DEF c
    <2>3. 0 < f.buy /\ f.buy <= c
      BY <1>1, <2>1, <2>2
    <2>4. QED
      BY <2>3 DEF c
  <1>10. SwapGood(s, pr, m, still)
    <2> HIDE DEF p, chain
    <2>1. \A mm \in ToSet(Markets) : Realised(mm, s.call) \in Nat
      BY <1>6, <1>7
    <2>2. Realised(m, s.call) = chain(m)
      BY <1>6
    <2>3. s.call.amount = IF s.exactOut THEN pr.buy ELSE pr.sell
      BY <1>4, <1>5
    <2>4. s.limit = IF s.exactOut THEN SlippageUp(pr.sell) ELSE SlippageDown(pr.buy)
      BY <1>5
    <2>5. s.op = "swap" /\ s.token \in Tokens /\ s.spender \in Spenders /\ s.exactOut \in BOOLEAN
      BY <1>2, <1>5 DEF Spenders
    <2>6. still /\ s.exactOut => 0 < Realised(m, s.call) /\ Realised(m, s.call) <= pr.sell
      BY <1>5, <1>8, <2>2
    <2>7. still /\ ~s.exactOut => 0 < pr.buy /\ pr.buy <= Realised(m, s.call)
      BY <1>5, <1>9, <2>2
    <2>8. pr.sell \in Nat /\ pr.buy \in Nat
      BY <1>1
    <2> HIDE DEF amount, call
    <2>9. QED
      BY <2>1, <2>3, <2>4, <2>5, <2>6, <2>7, <2>8 DEF SwapGood
  <1>11. QED
    BY <1>10 DEF s

\* What the settlement contract may have granted.
Allowances == [Tokens \X Spenders -> Nat]
Permits == [Tokens -> Nat]

\* What a plan's grants make of it: as much as is promised, or, without a
\* grant, what there was; more than is promised only for the V3 router.  The
\* approval is of the token and the spender of the swap.
GrantsGood(pl, pr) ==
    LET key == <<SwapOf(pl).token, SwapOf(pl).spender>>
    IN  /\ \A g \in Grants(pl) : g.op = "approve" => <<g.token, g.spender>> = key
        /\ \A al \in Allowances :
             /\ Allowed(pl, al) \in Allowances
             /\ \A k \in Tokens \X Spenders : k # key => Allowed(pl, al)[k] = al[k]
             /\ IF Len(pl) = 1 THEN Allowed(pl, al) = al
                ELSE /\ Allowed(pl, al)[key] >= pr.sell
                     /\ \/ SwapOf(pl).spender = "swapRouter"
                        \/ ~SwapOf(pl).exactOut /\ Allowed(pl, al)[key] = pr.sell
        /\ \A pe \in Permits :
             /\ Permitted(pl, pe) \in Permits
             /\ SwapOf(pl).spender = "permit2" => Permitted(pl, pe)[SwapOf(pl).token] >= pr.sell

\* One grant of a kind overwrites one entry.
LEMMA AllowedIs ==
    ASSUME NEW pl, NEW t, NEW sp, NEW a \in Nat,
           {g \in Grants(pl) : g.op = "approve"} = {Approve(t, sp, a)},
           NEW al \in Allowances
    PROVE  /\ Allowed(pl, al) \in Allowances
           /\ <<t, sp>> \in Tokens \X Spenders => Allowed(pl, al)[<<t, sp>>] = a
           /\ \A k \in Tokens \X Spenders : k # <<t, sp>> => Allowed(pl, al)[k] = al[k]
  <1> DEFINE one == Approve(t, sp, a)
             given(k) == {g \in Grants(pl) : g.op = "approve" /\ <<g.token, g.spender>> = k}
             D == Tokens \X Spenders
  <1>1. one.op = "approve" /\ one.token = t /\ one.spender = sp /\ one.amount = a
    BY DEF Approve
  <1>2. \A g : g \in Grants(pl) /\ g.op = "approve" <=> g = one
    OBVIOUS
  <1> HIDE DEF one
  <1>3. given(<<t, sp>>) = {one}
    BY <1>1, <1>2
  <1>4. ASSUME NEW k, k # <<t, sp>> PROVE given(k) = {}
    BY <1>1, <1>2, <1>4
  <1>5. al \in [D -> Nat]
    BY DEF Allowances
  <1>6. Allowed(pl, al) = [k \in D |-> IF given(k) = {} THEN al[k]
                                       ELSE (CHOOSE g \in given(k) : TRUE).amount]
    BY <1>5 DEF Allowed
  <1> HIDE DEF given, D
  <1>7. (CHOOSE g \in {one} : TRUE) = one
    OBVIOUS
  <1>8. \A k \in D : Allowed(pl, al)[k] = IF k = <<t, sp>> THEN a ELSE al[k]
    BY <1>1, <1>3, <1>4, <1>6, <1>7
  <1> DEFINE new == Allowed(pl, al)
  <1>9. new = [k \in D |-> new[k]]
    BY <1>6
  <1>10. \A k \in D : new[k] = IF k = <<t, sp>> THEN a ELSE al[k]
    BY <1>8
  <1> HIDE DEF new
  <1>11. \A k \in D : new[k] \in Nat
    BY <1>5, <1>10
  <1>12. new \in [D -> Nat]
    BY <1>9, <1>11
  <1>13. QED
    BY <1>10, <1>12 DEF new, D, Allowances

\* A plan with one permit grants that permit.
LEMMA PermittedIs ==
    ASSUME NEW pl, NEW t, NEW a \in Nat,
           {g \in Grants(pl) : g.op = "permit"} = {PermitApprove(t, a)},
           NEW pe \in Permits
    PROVE  /\ Permitted(pl, pe) \in Permits
           /\ t \in Tokens => Permitted(pl, pe)[t] = a
  <1> DEFINE one == PermitApprove(t, a)
             given(k) == {g \in Grants(pl) : g.op = "permit" /\ g.token = k}
             D == Tokens
  <1>1. one.op = "permit" /\ one.token = t /\ one.amount = a
    BY DEF PermitApprove
  <1>2. \A g : g \in Grants(pl) /\ g.op = "permit" <=> g = one
    OBVIOUS
  <1> HIDE DEF one
  <1>3. given(t) = {one}
    BY <1>1, <1>2
  <1>4. ASSUME NEW k, k # t PROVE given(k) = {}
    BY <1>1, <1>2, <1>4
  <1>5. pe \in [D -> Nat]
    BY DEF Permits
  <1>6. Permitted(pl, pe) = [k \in D |-> IF given(k) = {} THEN pe[k]
                                         ELSE (CHOOSE g \in given(k) : TRUE).amount]
    BY <1>5 DEF Permitted
  <1> HIDE DEF given, D
  <1>7. (CHOOSE g \in {one} : TRUE) = one
    OBVIOUS
  <1> DEFINE new == Permitted(pl, pe)
  <1>8. \A k \in D : new[k] = IF k = t THEN a ELSE pe[k]
    BY <1>1, <1>3, <1>4, <1>6, <1>7
  <1>9. new = [k \in D |-> new[k]]
    BY <1>6
  <1> HIDE DEF new
  <1>10. \A k \in D : new[k] \in Nat
    BY <1>5, <1>8
  <1>11. new \in [D -> Nat]
    BY <1>9, <1>10
  <1>12. QED
    BY <1>8, <1>11 DEF new, D, Permits

\* No grant of a kind changes nothing.
LEMMA NoneAllowed ==
    ASSUME NEW pl, {g \in Grants(pl) : g.op = "approve"} = {}, NEW al \in Allowances
    PROVE  Allowed(pl, al) = al
  <1> DEFINE given(k) == {g \in Grants(pl) : g.op = "approve" /\ <<g.token, g.spender>> = k}
  <1>1. \A k : given(k) = {}
    OBVIOUS
  <1>2. al = [k \in DOMAIN al |-> al[k]]
    BY DEF Allowances
  <1>3. Allowed(pl, al) = [k \in DOMAIN al |-> IF given(k) = {} THEN al[k]
                                               ELSE (CHOOSE g \in given(k) : TRUE).amount]
    BY DEF Allowed
  <1> HIDE DEF given
  <1>4. QED
    BY <1>1, <1>2, <1>3

\* A plan without a permit changes no permit.
LEMMA NonePermitted ==
    ASSUME NEW pl, {g \in Grants(pl) : g.op = "permit"} = {}, NEW pe \in Permits
    PROVE  Permitted(pl, pe) = pe
  <1> DEFINE given(k) == {g \in Grants(pl) : g.op = "permit" /\ g.token = k}
  <1>1. \A k : given(k) = {}
    OBVIOUS
  <1>2. pe = [k \in DOMAIN pe |-> pe[k]]
    BY DEF Permits
  <1>3. Permitted(pl, pe) = [k \in DOMAIN pe |-> IF given(k) = {} THEN pe[k]
                                                 ELSE (CHOOSE g \in given(k) : TRUE).amount]
    BY DEF Permitted
  <1> HIDE DEF given
  <1>4. QED
    BY <1>1, <1>2, <1>3

\* The swap alone, of a source.
LEMMA AloneGood ==
    ASSUME NEW s, s.spender # "permit2", NEW pr
    PROVE  GrantsGood(<<s>>, pr) /\ SwapOf(<<s>>) = s
  <1> DEFINE pl == <<s>>
  <1>1. Len(pl) = 1 /\ SwapOf(pl) = s /\ 1..(Len(pl) - 1) = {}
    BY DEF SwapOf
  <1> HIDE DEF pl
  <1>2. Grants(pl) = {}
    BY <1>1 DEF Grants
  <1>3. {g \in Grants(pl) : g.op = "approve"} = {} /\ {g \in Grants(pl) : g.op = "permit"} = {}
    BY <1>2
  <1>4. \A al \in Allowances : Allowed(pl, al) = al
    BY <1>3, NoneAllowed
  <1>5. \A pe \in Permits : Permitted(pl, pe) = pe
    BY <1>3, NonePermitted
  <1>6. GrantsGood(pl, pr) /\ SwapOf(pl) = s
    BY <1>1, <1>2, <1>4, <1>5 DEF GrantsGood
  <1>7. QED
    BY <1>6 DEF pl

\* An approval and the swap that uses it.
LEMMA ApprovedGood ==
    ASSUME NEW s, s.token \in Tokens, s.spender \in Spenders, s.spender # "permit2", NEW pr,
           pr.sell \in Nat, NEW a \in Nat, pr.sell <= a,
           s.spender = "swapRouter" \/ (~s.exactOut /\ a = pr.sell)
    PROVE  /\ GrantsGood(<<Approve(s.token, s.spender, a), s>>, pr)
           /\ SwapOf(<<Approve(s.token, s.spender, a), s>>) = s
  <1> DEFINE one == Approve(s.token, s.spender, a)
             pl == <<one, s>>
  <1>1. Len(pl) = 2 /\ Len(pl) # 1 /\ SwapOf(pl) = s /\ 1..(Len(pl) - 1) = {1} /\ pl[1] = one
    BY DEF SwapOf
  <1>2. /\ one.op = "approve" /\ one.op # "permit"
        /\ one.token = s.token /\ one.spender = s.spender
    BY DEF Approve
  <1> HIDE DEF pl, one
  <1>3. Grants(pl) = {one}
    BY <1>1 DEF Grants
  <1>4. {g \in Grants(pl) : g.op = "approve"} = {one} /\ {g \in Grants(pl) : g.op = "permit"} = {}
    BY <1>2, <1>3
  <1>5. ASSUME NEW al \in Allowances
        PROVE  /\ Allowed(pl, al) \in Allowances /\ Allowed(pl, al)[<<s.token, s.spender>>] = a
               /\ \A k \in Tokens \X Spenders :
                    k # <<s.token, s.spender>> => Allowed(pl, al)[k] = al[k]
    <2>1. {g \in Grants(pl) : g.op = "approve"} = {Approve(s.token, s.spender, a)}
      BY <1>4 DEF one
    <2>2. <<s.token, s.spender>> \in Tokens \X Spenders
      OBVIOUS
    <2>3. QED
      BY <2>1, <2>2, AllowedIs
  <1>6. \A pe \in Permits : Permitted(pl, pe) = pe
    BY <1>4, NonePermitted
  <1>7. \A g \in Grants(pl) : g.op = "approve" => <<g.token, g.spender>> = <<s.token, s.spender>>
    BY <1>2, <1>3
  <1>8. GrantsGood(pl, pr) /\ SwapOf(pl) = s
    BY <1>1, <1>5, <1>6, <1>7 DEF GrantsGood
  <1>9. QED
    BY <1>8 DEF pl, one

\* A grant to Permit2 and of Permit2, and the swap.
LEMMA PermittedGood ==
    ASSUME NEW s, s.token \in Tokens, s.spender = "permit2", ~s.exactOut,
           NEW pr, pr.sell \in Nat
    PROVE  LET pl == <<Approve(s.token, "permit2", pr.sell), PermitApprove(s.token, pr.sell), s>>
           IN  GrantsGood(pl, pr) /\ SwapOf(pl) = s
  <1> DEFINE one == Approve(s.token, "permit2", pr.sell)
             two == PermitApprove(s.token, pr.sell)
             pl == <<one, two, s>>
             a == pr.sell
  <1>1. Len(pl) = 3 /\ Len(pl) # 1 /\ SwapOf(pl) = s /\ 1..(Len(pl) - 1) = {1, 2}
        /\ pl[1] = one /\ pl[2] = two
    BY DEF SwapOf
  <1>2. /\ one.op = "approve" /\ two.op = "permit"
        /\ one.token = s.token /\ one.spender = s.spender
    BY DEF Approve, PermitApprove
  <1>3. a \in Nat /\ "permit2" \in Spenders
    BY DEF Spenders
  <1> HIDE DEF pl, one, two
  <1>4. Grants(pl) = {one, two}
    BY <1>1 DEF Grants
  <1>5. /\ {g \in Grants(pl) : g.op = "approve"} = {one}
        /\ {g \in Grants(pl) : g.op = "permit"} = {two}
    BY <1>2, <1>4
  <1>6. ASSUME NEW al \in Allowances
        PROVE  /\ Allowed(pl, al) \in Allowances /\ Allowed(pl, al)[<<s.token, s.spender>>] = a
               /\ \A k \in Tokens \X Spenders :
                    k # <<s.token, s.spender>> => Allowed(pl, al)[k] = al[k]
    <2>1. {g \in Grants(pl) : g.op = "approve"} = {Approve(s.token, "permit2", a)}
      BY <1>5 DEF one
    <2>2. <<s.token, "permit2">> \in Tokens \X Spenders
      BY <1>3
    <2>3. QED
      BY <1>3, <2>1, <2>2, AllowedIs
  <1>7. ASSUME NEW pe \in Permits
        PROVE  Permitted(pl, pe) \in Permits /\ Permitted(pl, pe)[s.token] = a
    <2>1. {g \in Grants(pl) : g.op = "permit"} = {PermitApprove(s.token, a)}
      BY <1>5 DEF two
    <2>2. QED
      BY <1>3, <2>1, PermittedIs
  <1>8. a >= a
    BY <1>3
  <1>9. \A g \in Grants(pl) : g.op = "approve" => <<g.token, g.spender>> = <<s.token, s.spender>>
    BY <1>2, <1>4
  <1>10. GrantsGood(pl, pr) /\ SwapOf(pl) = s
    BY <1>1, <1>6, <1>7, <1>8, <1>9 DEF GrantsGood
  <1>11. QED
    BY <1>10 DEF pl, one, two

\* What a planned settlement rests on.
PlanGood(pl, pr, m, still) == SwapGood(SwapOf(pl), pr, m, still) /\ GrantsGood(pl, pr)

\* The router's plans.
LEMMA RouterPlanGood ==
    ASSUME NEW o \in Requests, NEW m \in ToSet(Markets), NEW still \in BOOLEAN, NEW f,
           GoodFill(f, Shapes(o), m, still), NEW pr, pr.sell = f.sell, pr.buy = f.buy
    PROVE  PlanGood(EncodePath(f.path, f.sell, f.buy), pr, m, still)
  <1> DEFINE T == Shapes(o)
             p == f.path
  <1>1. /\ p \in V3Shapes(o) \cup V4Shapes(o) \cup CurveShapes(o) /\ f.sell \in Nat /\ f.buy \in Nat
        /\ T \subseteq Shapes(o) /\ GoodFill(f, T, m, still)
    BY DEF GoodFill, Shapes
  <1> HIDE DEF T, p
  <1>2. CASE p \in V3Shapes(o)
    <2> DEFINE s == EncodeV3Swap(p, f.sell, f.buy)
               a == IF p.exactOut THEN SlippageUp(f.sell) ELSE f.sell
               pl == <<Approve(s.token, s.spender, a), s>>
    <2>1. s.token = p.tokenIn /\ s.spender = "swapRouter"
      BY DEF EncodeV3Swap, Swap
    <2>2. p.venue = "v3"
      BY <1>2, V3Facts
    <2>3. EncodePath(p, f.sell, f.buy) = pl
      BY <2>1, <2>2 DEF EncodePath
    <2>4. a \in Nat /\ f.sell <= a
      BY <1>1, SlippageIs
    <2> HIDE DEF s, a
    <2>5. SwapGood(s, pr, m, still)
      BY <1>1, <1>2, V3SwapGood DEF s, p
    <2>6. s.token \in Tokens /\ s.spender \in Spenders /\ s.spender # "permit2" /\ pr.sell \in Nat
      BY <2>1, <2>5 DEF SwapGood
    <2>7. pr.sell <= a
      BY <2>4
    <2>8. GrantsGood(pl, pr) /\ SwapOf(pl) = s
      BY <2>1, <2>4, <2>6, <2>7, ApprovedGood
    <2> HIDE DEF pl
    <2>9. PlanGood(pl, pr, m, still)
      BY <2>5, <2>8 DEF PlanGood
    <2>10. QED
      BY <2>3, <2>9 DEF p
  <1>3. CASE p \in V4Shapes(o)
    <2> DEFINE s == Swap(p, V4SwapInput(p, f.sell), "permit2", SlippageDown(f.buy), TRUE)
               pl == <<Approve(s.token, "permit2", pr.sell), PermitApprove(s.token, pr.sell), s>>
    <2>1. s.token = p.tokenIn /\ s.spender = "permit2" /\ ~s.exactOut
      BY <1>3, V4Facts DEF Swap
    <2>2. p.venue = "v4"
      BY <1>3, V4Facts
    <2>3. EncodePath(p, f.sell, f.buy) = pl
      BY <2>1, <2>2 DEF EncodePath, EncodeV4Swap
    <2> HIDE DEF s
    <2>4. SwapGood(s, pr, m, still)
      BY <1>1, <1>3, V4SwapGood DEF s, p
    <2>5. s.token \in Tokens /\ pr.sell \in Nat /\ ~s.exactOut
      BY <2>1, <2>4 DEF SwapGood
    <2>6. GrantsGood(pl, pr) /\ SwapOf(pl) = s
      BY <2>1, <2>5, PermittedGood
    <2> HIDE DEF pl
    <2>7. PlanGood(pl, pr, m, still)
      BY <2>4, <2>6 DEF PlanGood
    <2>8. QED
      BY <2>3, <2>7 DEF p
  <1>4. CASE p \in CurveShapes(o)
    <2> DEFINE s == SwapOf(EncodeCurveSwap(p, f.sell, f.buy))
               a == f.sell
               pl == <<Approve(s.token, s.spender, a), s>>
    <2>1. /\ s.token = p.tokenIn /\ s.spender = p.pool /\ s.exactOut = p.exactOut
          /\ EncodeCurveSwap(p, f.sell, f.buy) = pl
      BY DEF SwapOf, EncodeCurveSwap, Swap
    <2>2. p.venue = "curve" /\ p.pool \in DOMAIN CurvePools /\ p.exactOut = FALSE
      BY <1>4, CurveFacts
    <2>3. EncodePath(p, f.sell, f.buy) = pl
      BY <2>1, <2>2 DEF EncodePath
    <2> HIDE DEF s
    <2>4. SwapGood(s, pr, m, still)
      BY <1>1, <1>4, CurveSwapGood DEF s, p
    <2>5. "permit2" \notin DOMAIN CurvePools
      BY VenueAssumption
    <2>6. s.token \in Tokens /\ s.spender \in Spenders /\ s.spender # "permit2" /\ pr.sell \in Nat
      BY <2>1, <2>2, <2>4, <2>5 DEF SwapGood
    <2>7. a \in Nat /\ pr.sell <= a /\ a = pr.sell /\ ~s.exactOut
      BY <2>1, <2>2, <2>6
    <2> HIDE DEF a
    <2>8. GrantsGood(pl, pr) /\ SwapOf(pl) = s
      BY <2>6, <2>7, ApprovedGood
    <2> HIDE DEF pl
    <2>9. PlanGood(pl, pr, m, still)
      BY <2>4, <2>8 DEF PlanGood
    <2>10. QED
      BY <2>3, <2>9 DEF p
  <1>5. QED
    BY <1>1, <1>2, <1>3, <1>4

\* The sources' plans.
LEMMA SourcePlanGood ==
    ASSUME NEW o \in Requests, NEW m \in ToSet(Markets), NEW still \in BOOLEAN, NEW f,
           GoodFill(f, V3Shapes(o), m, still) \/ PairFill(f, o, m, still),
           NEW pr, pr.sell = f.sell, pr.buy = f.buy
    PROVE  PlanGood(EncodeSource(f.path, f.sell, f.buy), pr, m, still)
  <1> DEFINE p == f.path
             s == IF p.venue = "v2" THEN EncodeV2Swap(p, f.sell, f.buy)
                  ELSE EncodeV3Swap(p, f.sell, f.buy)
  <1>1. EncodeSource(p, f.sell, f.buy) = <<s>>
    BY DEF EncodeSource
  <1>2. s.spender # "permit2"
    BY DEF EncodeV2Swap, EncodeV3Swap, Swap
  <1>3. SwapGood(s, pr, m, still)
    <2>1. CASE PairFill(f, o, m, still)
      <3>1. p.venue = "v2"
        <4>1. p \in V2Shapes(o)
          BY <2>1 DEF PairFill
        <4> HIDE DEF p
        <4>2. QED
          BY <4>1, V2Facts
      <3>2. s = EncodeV2Swap(f.path, f.sell, f.buy)
        BY <3>1
      <3> HIDE DEF s
      <3>3. QED
        BY <2>1, <3>2, V2SwapGood
    <2>2. CASE GoodFill(f, V3Shapes(o), m, still)
      <3>1. p \in V3Shapes(o) /\ p.venue = "v3"
        <4>1. p \in V3Shapes(o)
          BY <2>2 DEF GoodFill
        <4> HIDE DEF p
        <4>2. QED
          BY <4>1, V3Facts
      <3>2. s = EncodeV3Swap(f.path, f.sell, f.buy)
        BY <3>1
      <3> DEFINE T == V3Shapes(o)
      <3>3. T \subseteq Shapes(o) /\ GoodFill(f, T, m, still) /\ f.path \in V3Shapes(o)
        BY <2>2, <3>1 DEF Shapes
      <3> HIDE DEF s, T
      <3>4. QED
        BY <3>2, <3>3, V3SwapGood
    <2>3. QED
      BY <2>1, <2>2
  <1> HIDE DEF s
  <1>4. GrantsGood(<<s>>, pr) /\ SwapOf(<<s>>) = s
    BY <1>2, AloneGood
  <1>5. PlanGood(<<s>>, pr, m, still)
    BY <1>3, <1>4 DEF PlanGood
  <1>6. QED
    BY <1>1, <1>5

-----------------------------------------------------------------------------
(* The inductive invariant.                                                *)

Still == ~moved

\* What a caller asks about.
Asked(o, c) == IF c = "router" THEN Shapes(o) ELSE V3Shapes(o)

\* Every batch is in order.
BatchesOK ==
    \A v \in Venues : /\ paths[v] \in Seq(Asked(order, caller))
                      /\ InOrder(batch[v], market, paths[v], HeavyOf(v), Still)

V2OK == v2 \in [asked : BOOLEAN, quote : V2Quotes(order, market, Still)]

IInv ==
    /\ TypeOK
    /\ phase = "quoting" => BatchesOK
    /\ V2OK
    /\ phase = "planned" => PlanGood(plan, promised, market, Still)
    /\ phase # "idle" => outcome = NoOutcome
    /\ LossIsBounded

\* The market has moved or it has not.
LEMMA StillIs ==
    ASSUME TypeOK
    PROVE  Still \in BOOLEAN
  BY DEF TypeOK, Still

\* What is asked for an order are paths of the order.
LEMMA AskedIs ==
    ASSUME NEW o, NEW c
    PROVE  Asked(o, c) \subseteq Shapes(o)
  BY DEF Asked, Shapes

\* The market shown is one of the markets.
LEMMA MarketIs ==
    ASSUME TypeOK
    PROVE  market \in ToSet(Markets) /\ IsMarket(market)
  BY MarketsAre DEF TypeOK

\* Without an outcome, or with one for the same promise, the loss is the same.
LEMMA NoLoss ==
    ASSUME outcome = NoOutcome
    PROVE  LossIsBounded
  BY DEF LossIsBounded

\* A step that touches neither the promise nor the outcome keeps the bound on
\* the loss.
LEMMA SameLoss ==
    ASSUME LossIsBounded, UNCHANGED <<promised, outcome>>
    PROVE  LossIsBounded'
  BY DEF LossIsBounded

\* What stays as it was stays in order.
LEMMA SameV2 ==
    ASSUME V2OK, UNCHANGED <<order, market, moved, v2>>
    PROVE  V2OK'
  BY DEF V2OK, Still

\* A plan stays good while the market stays.
LEMMA SamePlan ==
    ASSUME NEW pl, NEW pr, PlanGood(pl, pr, market, Still), UNCHANGED <<market, moved>>
    PROVE  PlanGood(pl, pr, market', Still')
  BY DEF Still

\* The invariant holds at the start.
LEMMA InitHolds ==
    ASSUME Init
    PROVE  IInv
  <1>1. TypeOK
    <2>1. order \in Requests
      BY RoundAssumption DEF Init
    <2>2. market \in ToSet(Markets)
      <3>1. 1 \in DOMAIN Markets
        BY RoundAssumption
      <3>2. QED
        BY <3>1 DEF Init, ToSet
    <2>3. round \in 0..MaxRounds
      BY RoundAssumption DEF Init
    <2>4. /\ caller \in {"router", "aggregator"} /\ phase \in {"idle", "quoting", "fallback", "planned"}
          /\ {moved, late} \subseteq BOOLEAN
          /\ promised \in [sell : Nat, buy : Nat]
      BY DEF Init, NoPromise
    <2>5. DOMAIN batch = Venues
      BY DEF Init, NoBatches
    <2>6. allow \in [Tokens \X Spenders -> Nat] /\ permit \in [Tokens -> Nat]
      BY DEF Init
    <2>7. QED
      BY <2>1, <2>2, <2>3, <2>4, <2>5, <2>6 DEF TypeOK
  <1>2. V2OK
    <2>1. NoQuote \in V2Quotes(order, market, Still)
      BY DEF V2Quotes
    <2>2. v2 = [asked |-> FALSE, quote |-> NoQuote]
      BY DEF Init
    <2>3. QED
      BY <2>1, <2>2 DEF V2OK
  <1>3. phase = "idle" /\ outcome = NoOutcome
    BY DEF Init
  <1>4. LossIsBounded
    BY <1>3, NoLoss
  <1>5. QED
    BY <1>1, <1>2, <1>3, <1>4 DEF IInv

\* An order comes: its candidates are set up to be asked.
LEMMA RequestKeeps ==
    ASSUME IInv, Request
    PROVE  IInv'
  <1>1. TypeOK'
    <2>1. round' \in 0..MaxRounds
      BY RoundAssumption DEF IInv, TypeOK, Request
    <2>2. /\ order' \in Requests /\ caller' \in {"router", "aggregator"} /\ phase' = "quoting"
          /\ {moved', late'} \subseteq BOOLEAN /\ promised' \in [sell : Nat, buy : Nat]
      BY DEF Request, NoPromise
    <2>3. DOMAIN batch' = Venues
      BY DEF Request
    <2>4. market' \in ToSet(Markets) /\ allow' \in [Tokens \X Spenders -> Nat]
          /\ permit' \in [Tokens -> Nat]
      BY DEF IInv, TypeOK, Request
    <2>5. QED
      BY <2>1, <2>2, <2>3, <2>4 DEF TypeOK
  <1>2. BatchesOK'
    <2> DEFINE o == order'
               c == caller'
               ps == paths'
               bs == batch'
               T == Asked(o, c)
    <2>1. o \in Requests /\ c \in {"router", "aggregator"}
      BY DEF Request
    <2>2. ps = IF c = "router" THEN RouterCandidates(o) ELSE SourceCandidates(o)
      BY DEF Request
    <2>3. bs = [v \in Venues |-> Begin(Len(ps[v]))]
      BY DEF Request
    <2> HIDE DEF o, c, ps, bs
    <2>4. ASSUME NEW v \in Venues
          PROVE  ps[v] \in Seq(T) /\ InOrder(bs[v], market', ps[v], HeavyOf(v)', Still')
      <3> DEFINE q == ps[v]
                 h == HeavyOf(v)'
                 m == market'
                 still == Still'
      <3>1. q \in Seq(T)
        <4>1. CASE c = "router"
          <5>1. q = RouterCandidates(o)[v]
            BY <2>2, <4>1
          <5>2. VenueShapes(o, v) \subseteq T
            BY <4>1 DEF VenueShapes, Asked, Shapes, Venues
          <5> DEFINE S == VenueShapes(o, v)
          <5>3. q \in Seq(S)
            BY <2>1, <5>1, CandidatesIn
          <5> HIDE DEF S, T, q
          <5>4. QED
            BY <5>2, <5>3 DEF S
        <4>2. CASE c # "router"
          <5>1. q = SourceCandidates(o)[v]
            BY <2>2, <4>2
          <5>2. T = V3Shapes(o)
            BY <4>2 DEF Asked
          <5>3. CASE v = "v3"
            <6>1. VenueShapes(o, v) = V3Shapes(o)
              BY <5>3 DEF VenueShapes
            <6>2. QED
              BY <2>1, <5>1, <5>2, <6>1, CandidatesIn
          <5>4. CASE v # "v3"
            <6>1. q = <<>>
              BY <2>1, <5>1, <5>4, CandidatesIn
            <6> HIDE DEF T, q
            <6>2. QED
              BY <6>1
          <5>5. QED
            BY <5>3, <5>4
        <4>3. QED
          BY <4>1, <4>2
      <3>2. bs[v] = Begin(Len(q))
        BY <2>3
      <3>3. Len(q) \in Nat
        BY <3>1
      <3> HIDE DEF q, h, m, still
      <3>4. Fits(Begin(Len(q)), Len(q)) /\ Aligned(Begin(Len(q)), m, q, h)
        <4> DEFINE n == Len(q)
        <4>1. n \in Nat /\ n <= n
          BY <3>3
        <4> HIDE DEF n
        <4>2. Fits(Begin(n), n) /\ Aligned(Begin(n), m, q, h)
          BY <4>1, BeginFits
        <4>3. QED
          BY <4>2 DEF n
      <3>5. InOrder(bs[v], m, q, h, still)
        BY <3>2, <3>4 DEF InOrder
      <3>6. QED
        BY <3>1, <3>5 DEF q, m, h, still
    <2>5. QED
      BY <2>4 DEF BatchesOK, o, c, ps, bs
  <1>3. V2OK'
    <2>1. NoQuote \in V2Quotes(order', market', Still')
      BY DEF V2Quotes
    <2>2. v2' = [asked |-> caller' = "aggregator", quote |-> NoQuote]
      BY DEF Request
    <2>3. (caller' = "aggregator") \in BOOLEAN
      OBVIOUS
    <2>4. QED
      BY <2>1, <2>2, <2>3 DEF V2OK
  <1>4. phase' = "quoting" /\ outcome' = NoOutcome
    BY DEF Request
  <1>5. LossIsBounded'
    BY <1>4 DEF LossIsBounded, NoOutcome
  <1>6. QED
    BY <1>1, <1>2, <1>3, <1>4, <1>5 DEF IInv

\* A step of one batch.
LEMMA BatchKeeps ==
    ASSUME IInv, phase = "quoting", NEW v \in Venues, NEW b,
           InOrder(b, market, paths[v], HeavyOf(v), Still), batch' = [batch EXCEPT ![v] = b],
           UNCHANGED <<quoting, phase, v2>>
    PROVE  IInv'
  <1>1. /\ UNCHANGED <<round, caller, order, market, moved, late, paths, plan, promised, allow,
                       permit, outcome, phase, v2>>
    BY DEF quoting
  <1>2. TypeOK'
    <2>1. DOMAIN batch' = Venues
      BY DEF IInv, TypeOK
    <2>2. QED
      BY <1>1, <2>1 DEF IInv, TypeOK
  <1>3. BatchesOK'
    <2>1. DOMAIN batch = Venues /\ BatchesOK
      BY DEF IInv, TypeOK
    <2>2. ASSUME NEW u \in Venues
          PROVE  paths[u] \in Seq(Asked(order, caller))
                 /\ InOrder(batch'[u], market, paths[u], HeavyOf(u), Still)
      <3>1. CASE u = v
        BY <2>1, <3>1 DEF BatchesOK
      <3>2. CASE u # v
        BY <2>1, <3>2 DEF BatchesOK
      <3>3. QED
        BY <3>1, <3>2
    <2>3. UNCHANGED <<paths, order, caller, market, Still>>
      BY <1>1 DEF Still
    <2>4. QED
      BY <2>2, <2>3 DEF BatchesOK, HeavyOf
  <1>4. V2OK'
    BY <1>1, SameV2 DEF IInv
  <1>5. phase' = "quoting" /\ outcome' = NoOutcome
    BY <1>1 DEF IInv
  <1>6. LossIsBounded'
    BY <1>5 DEF LossIsBounded, NoOutcome
  <1>7. QED
    BY <1>2, <1>3, <1>4, <1>5, <1>6 DEF IInv

\* The paths a venue is asked about are candidates.
LEMMA PathsAre ==
    ASSUME IInv, phase = "quoting", NEW v \in Venues
    PROVE  /\ paths[v] \in Seq(Shapes(order)) /\ Len(paths[v]) \in Nat
           /\ InOrder(batch[v], market, paths[v], HeavyOf(v), Still)
           /\ order \in Requests /\ IsMarket(market)
  <1>1. BatchesOK /\ TypeOK
    BY DEF IInv
  <1>2. paths[v] \in Seq(Asked(order, caller))
    BY <1>1 DEF BatchesOK
  <1>3. Asked(order, caller) \subseteq Shapes(order)
    BY AskedIs
  <1>4. paths[v] \in Seq(Shapes(order)) /\ Len(paths[v]) \in Nat
    BY <1>2, <1>3
  <1>5. IsMarket(market)
    BY <1>1, MarketIs
  <1>6. QED
    BY <1>1, <1>4, <1>5 DEF BatchesOK, TypeOK

\* An eth_call ends with answers, or beyond the gas cap.
LEMMA AskKeeps ==
    ASSUME IInv, NEW v \in Venues, Ask(v)
    PROVE  IInv'
  <1> DEFINE b == batch[v]
             ps == paths[v]
             h == HeavyOf(v)
             a == IF Overruns(b, h) THEN Bisect(b) ELSE Reply(b, Aggregate(market, ps, b))
  <1>1. phase = "quoting" /\ b.slices # <<>> /\ UNCHANGED <<quoting, phase, v2>>
        /\ batch' = [batch EXCEPT ![v] = a]
    BY DEF Ask, Answered, IInv, TypeOK
  <1>2. /\ ps \in Seq(Shapes(order)) /\ InOrder(b, market, ps, h, Still)
        /\ order \in Requests /\ IsMarket(market)
    BY <1>1, PathsAre
  <1> HIDE DEF b, ps, h
  <1>3. InOrder(a, market, ps, h, Still)
    <2>1. CASE Overruns(b, h)
      <3>1. InOrder(Bisect(b), market, ps, h, Still)
        BY <1>1, <1>2, <2>1, BisectKeeps
      <3>2. QED
        BY <2>1, <3>1
    <2>2. CASE ~Overruns(b, h)
      <3>1. InOrder(Reply(b, Aggregate(market, ps, b)), market, ps, h, Still)
        BY <1>1, <1>2, <2>2, AnswerKeeps
      <3>2. QED
        BY <2>2, <3>1
    <2>3. QED
      BY <2>1, <2>2
  <1> HIDE DEF a
  <1>4. QED
    BY <1>1, <1>3, BatchKeeps DEF ps, h

\* An eth_call fails.
LEMMA AskFailsKeeps ==
    ASSUME IInv, NEW v \in Venues, AskFails(v)
    PROVE  IInv'
  <1> DEFINE b == batch[v]
             ps == paths[v]
             h == HeavyOf(v)
             a == DropChunk(b)
  <1>1. phase = "quoting" /\ b.slices # <<>> /\ UNCHANGED <<quoting, phase, v2>>
        /\ batch' = [batch EXCEPT ![v] = a]
    BY DEF AskFails, Answered, IInv, TypeOK
  <1>2. Len(ps) \in Nat /\ InOrder(b, market, ps, h, Still)
    BY <1>1, PathsAre
  <1> HIDE DEF b, ps, h
  <1>3. InOrder(a, market, ps, h, Still)
    BY <1>1, <1>2, DropKeeps
  <1> HIDE DEF a
  <1>4. QED
    BY <1>1, <1>3, BatchKeeps DEF ps, h

\* V3Source gives up: its batch is empty, and in order.
LEMMA SourceTimeoutKeeps ==
    ASSUME IInv, SourceTimeout
    PROVE  IInv'
  <1> DEFINE v == "v3"
             ps == paths[v]
             h == HeavyOf(v)
             a == Begin(0)
  <1>1. phase = "quoting" /\ UNCHANGED <<quoting, phase, v2>>
        /\ batch' = [batch EXCEPT ![v] = a] /\ v \in Venues
    BY DEF SourceTimeout, Venues
  <1>2. Len(ps) \in Nat
    BY <1>1, PathsAre
  <1> HIDE DEF ps, h, v
  <1>3. InOrder(a, market, ps, h, Still)
    <2> DEFINE n == Len(ps)
    <2>1. n \in Nat /\ 0 \in Nat /\ 0 <= n
      BY <1>2
    <2> HIDE DEF n
    <2>2. Fits(a, n) /\ Aligned(a, market, ps, h)
      BY <2>1, BeginFits
    <2>3. QED
      BY <2>2 DEF InOrder, n
  <1> HIDE DEF a
  <1>4. QED
    BY <1>1, <1>3, BatchKeeps DEF ps, h

\* The V2 source answers.
LEMMA AnswerV2Keeps ==
    ASSUME IInv, AnswerV2
    PROVE  IInv'
  <1>1. UNCHANGED <<round, caller, order, market, moved, late, paths, plan, promised, allow,
                    permit, outcome, phase, batch>>
    BY DEF AnswerV2, quoting
  <1>2. TypeOK'
    BY <1>1 DEF IInv, TypeOK
  <1>3. phase' = "quoting" => BatchesOK'
    BY <1>1 DEF IInv, BatchesOK, Still, HeavyOf
  <1>4. V2OK'
    <2>1. order \in Requests /\ IsMarket(market)
      BY MarketIs DEF IInv, TypeOK
    <2>2. QuoteV2(market, order) \in V2Quotes(order, market, Still)
      BY <2>1, QuoteV2Good
    <2>3. NoQuote \in V2Quotes(order, market, Still)
      BY DEF V2Quotes
    <2>4. \E q \in {QuoteV2(market, order), NoQuote} : v2' = [asked |-> FALSE, quote |-> q]
      BY DEF AnswerV2
    <2>5. v2' \in [asked : BOOLEAN, quote : V2Quotes(order, market, Still)]
      BY <2>2, <2>3, <2>4
    <2>6. QED
      BY <1>1, <2>5 DEF V2OK, Still
  <1>5. phase' = "planned" => PlanGood(plan, promised, market, Still)'
    BY <1>1 DEF IInv, Still
  <1>6. LossIsBounded'
    BY <1>1, SameLoss DEF IInv
  <1>7. QED
    BY <1>1, <1>2, <1>3, <1>4, <1>5, <1>6 DEF IInv

\* The quotes are good when all have answered.
LEMMA QuotesAllGood ==
    ASSUME IInv, phase = "quoting", AllAnswered
    PROVE  AllQuotes \in Seq(GoodQuotes(Asked(order, caller), market, Still))
  <1> DEFINE T == Asked(order, caller)
             G == GoodQuotes(T, market, Still)
  <1>1. ASSUME NEW v \in Venues PROVE Quotes(v) \in Seq(G)
    <2> DEFINE b == batch[v]
               ps == paths[v]
               h == HeavyOf(v)
    <2>1. Quotes(v) = QuotesOf(b, ps)
      BY DEF Quotes
    <2>2. b.slices = <<>>
      BY DEF AllAnswered, Answered
    <2>3. InOrder(b, market, ps, h, Still) /\ order \in Requests /\ IsMarket(market)
      BY PathsAre
    <2>4. ps \in Seq(T)
      BY DEF IInv, BatchesOK
    <2>5. T \subseteq Shapes(order)
      BY AskedIs
    <2>6. Still \in BOOLEAN
      BY StillIs DEF IInv
    <2> HIDE DEF b, ps, h, T
    <2>7. QuotesOf(b, ps) \in Seq(GoodQuotes(T, market, Still))
      BY <2>2, <2>3, <2>4, <2>5, <2>6, QuotesAreGood
    <2>8. QED
      BY <2>1, <2>7
  <1>2. Quotes("v3") \in Seq(G) /\ Quotes("v4") \in Seq(G) /\ Quotes("curve") \in Seq(G)
    BY <1>1 DEF Venues
  <1> HIDE DEF G
  <1>3. AllQuotes \in Seq(G)
    BY <1>2 DEF AllQuotes
  <1>4. QED
    BY <1>3 DEF G

\* The best of them is encoded, or nothing comes of them.
LEMMA SelectKeeps ==
    ASSUME IInv, Select
    PROVE  IInv'
  <1>1. /\ phase = "quoting" /\ AllAnswered
        /\ UNCHANGED <<round, caller, order, market, moved, late, allow, permit, outcome>>
        /\ batch' = NoBatches
    BY DEF Select
  <1>2. order \in Requests /\ market \in ToSet(Markets) /\ IsMarket(market) /\ Still \in BOOLEAN
    BY MarketIs, StillIs DEF IInv, TypeOK
  <1> DEFINE quotes == AllQuotes
             fills == IF caller = "router" THEN RouterFills(order, quotes)
                                           ELSE SourceFills(order, quotes)
             interactions(f) == IF caller = "router" THEN EncodePath(f.path, f.sell, f.buy)
                                ELSE EncodeSource(f.path, f.sell, f.buy)
  <1>3. \/ \E f \in fills : Promise(f, interactions(f)) /\ UNCHANGED v2
        \/ /\ phase' = IF caller = "router" THEN "fallback" ELSE "idle"
           /\ v2' = [v2 EXCEPT !.asked = caller = "router"]
           /\ UNCHANGED <<plan, promised>>
    BY DEF Select
  <1>4. quotes \in Seq(GoodQuotes(Asked(order, caller), market, Still))
    BY <1>1, QuotesAllGood
  <1> HIDE DEF quotes
  <1>5. ASSUME NEW f \in fills
        PROVE  /\ f.sell \in Nat /\ f.buy \in Nat
               /\ PlanGood(interactions(f), [sell |-> f.sell, buy |-> f.buy], market, Still)
    <2> DEFINE pr == [sell |-> f.sell, buy |-> f.buy]
    <2>1. pr.sell = f.sell /\ pr.buy = f.buy
      OBVIOUS
    <2> HIDE DEF pr
    <2>2. CASE caller = "router"
      <3>1. /\ quotes \in Seq(GoodQuotes(Shapes(order), market, Still))
            /\ f \in RouterFills(order, quotes)
        BY <1>4, <2>2 DEF Asked
      <3>2. GoodFill(f, Shapes(order), market, Still)
        BY <1>2, <3>1, RouterFillsGood
      <3>3. PlanGood(EncodePath(f.path, f.sell, f.buy), pr, market, Still)
        BY <1>2, <2>1, <3>2, RouterPlanGood
      <3>4. QED
        BY <2>2, <3>2, <3>3 DEF GoodFill, pr
    <2>3. CASE caller # "router"
      <3>1. /\ quotes \in Seq(GoodQuotes(V3Shapes(order), market, Still))
            /\ f \in SourceFills(order, quotes)
        BY <1>4, <2>3 DEF Asked
      <3>2. v2.quote \in V2Quotes(order, market, Still)
        BY DEF IInv, V2OK
      <3>3. GoodFill(f, V3Shapes(order), market, Still) \/ PairFill(f, order, market, Still)
        BY <1>2, <3>1, <3>2, SourceFillsGood
      <3>4. PlanGood(EncodeSource(f.path, f.sell, f.buy), pr, market, Still)
        BY <1>2, <2>1, <3>3, SourcePlanGood
      <3>5. f.sell \in Nat /\ f.buy \in Nat
        BY <3>3 DEF GoodFill, PairFill
      <3>6. QED
        BY <2>3, <3>4, <3>5 DEF pr
    <2>4. QED
      BY <2>2, <2>3
  <1>6. DOMAIN batch' = Venues
    BY <1>1 DEF NoBatches
  <1>7. outcome' = NoOutcome
    BY <1>1 DEF IInv
  <1>8. LossIsBounded'
    BY <1>7 DEF LossIsBounded, NoOutcome
  <1>9. CASE \E f \in fills : Promise(f, interactions(f)) /\ UNCHANGED v2
    <2>1. PICK f \in fills : Promise(f, interactions(f)) /\ UNCHANGED v2
      BY <1>9
    <2> DEFINE pr == [sell |-> f.sell, buy |-> f.buy]
               pl == interactions(f)
    <2>2. phase' = "planned" /\ plan' = pl /\ promised' = pr /\ UNCHANGED v2
      BY <2>1 DEF Promise
    <2>3. f.sell \in Nat /\ f.buy \in Nat /\ PlanGood(pl, pr, market, Still)
      BY <1>5
    <2>4. pr \in [sell : Nat, buy : Nat]
      BY <2>3
    <2> HIDE DEF pl, pr, fills
    <2>5. TypeOK'
      BY <1>1, <1>6, <2>2, <2>4 DEF IInv, TypeOK
    <2>6. V2OK'
      BY <1>1, <2>2, SameV2 DEF IInv
    <2>7. PlanGood(pl, pr, market', Still')
      BY <1>1, <2>3, SamePlan
    <2>8. PlanGood(plan, promised, market, Still)'
      BY <2>2, <2>7
    <2>9. QED
      BY <1>7, <1>8, <2>2, <2>5, <2>6, <2>8 DEF IInv
  <1>10. CASE /\ phase' = IF caller = "router" THEN "fallback" ELSE "idle"
              /\ v2' = [v2 EXCEPT !.asked = caller = "router"]
              /\ UNCHANGED <<plan, promised>>
    <2>1. phase' \in {"fallback", "idle"}
      BY <1>10
    <2>2. TypeOK'
      BY <1>1, <1>6, <1>10, <2>1 DEF IInv, TypeOK
    <2>3. V2OK'
      <3> DEFINE x == (caller = "router")
                 Q == V2Quotes(order, market, Still)
      <3>1. x \in BOOLEAN /\ v2' = [v2 EXCEPT !.asked = x]
        BY <1>10
      <3>2. v2 \in [asked : BOOLEAN, quote : Q]
        BY DEF IInv, V2OK
      <3> HIDE DEF x, Q
      <3>3. v2' \in [asked : BOOLEAN, quote : Q]
        BY <3>1, <3>2
      <3>4. QED
        BY <1>1, <3>3 DEF V2OK, Still, Q
    <2>4. QED
      BY <1>7, <1>8, <2>1, <2>2, <2>3 DEF IInv
  <1>11. QED
    BY <1>3, <1>9, <1>10

\* The router's last resort, the V2 source.
LEMMA FallBackKeeps ==
    ASSUME IInv, FallBack
    PROVE  IInv'
  <1>1. /\ phase = "fallback"
        /\ UNCHANGED <<round, caller, order, market, moved, late, paths, batch, v2, allow, permit,
                       outcome>>
    BY DEF FallBack
  <1>2. order \in Requests /\ market \in ToSet(Markets) /\ IsMarket(market) /\ Still \in BOOLEAN
    BY MarketIs, StillIs DEF IInv, TypeOK
  <1> DEFINE f == Whole(order, v2.quote)
             pl == EncodeSource(f.path, f.sell, f.buy)
             pr == [sell |-> f.sell, buy |-> f.buy]
  <1>3. \/ v2.quote # NoQuote /\ phase' = "planned" /\ plan' = pl /\ promised' = pr
        \/ phase' = "idle" /\ UNCHANGED <<plan, promised>>
    BY DEF FallBack, Promise
  <1>4. V2OK'
    BY <1>1, SameV2 DEF IInv
  <1>5. outcome' = NoOutcome
    BY <1>1 DEF IInv
  <1>6. LossIsBounded'
    BY <1>5 DEF LossIsBounded, NoOutcome
  <1>7. CASE v2.quote # NoQuote /\ phase' = "planned" /\ plan' = pl /\ promised' = pr
    <2> DEFINE q == v2.quote
    <2>1. q \in V2Quotes(order, market, Still)
      BY DEF IInv, V2OK
    <2>2. f = Whole(order, q) /\ q # NoQuote
      BY <1>7
    <2>3. pr.sell = f.sell /\ pr.buy = f.buy
      OBVIOUS
    <2> HIDE DEF q, f
    <2>4. PairFill(f, order, market, Still)
      BY <1>2, <2>1, <2>2, WholeIsPairFill
    <2>5. f.sell \in Nat /\ f.buy \in Nat
      BY <2>4 DEF PairFill
    <2>6. pr \in [sell : Nat, buy : Nat]
      BY <2>5
    <2> HIDE DEF pr
    <2>7. PlanGood(pl, pr, market, Still)
      BY <1>2, <2>3, <2>4, SourcePlanGood
    <2> HIDE DEF pl
    <2>8. TypeOK'
      BY <1>1, <1>7, <2>6 DEF IInv, TypeOK
    <2>9. PlanGood(pl, pr, market', Still')
      BY <1>1, <2>7, SamePlan
    <2>10. PlanGood(plan, promised, market, Still)'
      BY <1>7, <2>9
    <2>11. QED
      BY <1>4, <1>5, <1>6, <1>7, <2>8, <2>10 DEF IInv
  <1>8. CASE phase' = "idle" /\ UNCHANGED <<plan, promised>>
    <2>1. TypeOK'
      BY <1>1, <1>8 DEF IInv, TypeOK
    <2>2. QED
      BY <1>4, <1>5, <1>6, <1>8, <2>1 DEF IInv
  <1>9. QED
    BY <1>3, <1>7, <1>8

\* Once the market has moved nothing is claimed of what was quoted before, but
\* the plan keeps its limits.
LEMMA MovedPlan ==
    ASSUME NEW pl, NEW pr, NEW m, NEW n, NEW x, NEW y, ~y, PlanGood(pl, pr, m, x)
    PROVE  PlanGood(pl, pr, n, y)
  BY DEF PlanGood, SwapGood

\* Once the market has moved, a V2 quote has only to belong to its path.
LEMMA MovedQuotes ==
    ASSUME NEW o, NEW m, NEW n, NEW x, NEW y, ~y
    PROVE  V2Quotes(o, m, x) \subseteq V2Quotes(o, n, y)
  BY DEF V2Quotes

\* Once the market has moved, a batch has only to keep its shape.
LEMMA MovedBatch ==
    ASSUME NEW b, NEW m, NEW n, NEW ps, NEW h, NEW x, NEW y, ~y, InOrder(b, m, ps, h, x)
    PROVE  InOrder(b, n, ps, h, y)
  BY DEF InOrder

\* A market that moves keeps the invariant.
LEMMA MarketMovesKeeps ==
    ASSUME IInv, MarketMoves
    PROVE  IInv'
  <1>1. /\ phase # "idle"
        /\ UNCHANGED <<round, caller, order, paths, batch, v2, plan, promised, phase, late, allow,
                       permit, outcome>>
        /\ ~Still'
    BY DEF MarketMoves, settling, Still
  <1>2. TypeOK'
    <2>1. PICK i \in 1..(Len(Markets) - 1) : market' = Markets[i + 1]
      BY DEF MarketMoves
    <2>2. i + 1 \in DOMAIN Markets
      BY RoundAssumption
    <2>3. market' \in ToSet(Markets)
      BY <2>1, <2>2 DEF ToSet
    <2>4. moved' \in BOOLEAN
      BY DEF MarketMoves
    <2>5. QED
      BY <1>1, <2>3, <2>4 DEF IInv, TypeOK
  <1>3. phase' = "quoting" => BatchesOK'
    <2>1. ASSUME BatchesOK, NEW v \in Venues
          PROVE  InOrder(batch[v], market', paths[v], HeavyOf(v), Still')
      BY <1>1, <2>1, MovedBatch DEF BatchesOK
    <2>2. QED
      BY <1>1, <2>1 DEF IInv, BatchesOK, HeavyOf
  <1>4. V2OK'
    <2>1. V2Quotes(order, market, Still) \subseteq V2Quotes(order, market', Still')
      BY <1>1, MovedQuotes
    <2>2. v2 \in [asked : BOOLEAN, quote : V2Quotes(order, market, Still)]
      BY DEF IInv, V2OK
    <2>3. v2 \in [asked : BOOLEAN, quote : V2Quotes(order, market', Still')]
      BY <2>1, <2>2
    <2>4. QED
      BY <1>1, <2>3 DEF V2OK
  <1>5. phase' = "planned" => PlanGood(plan, promised, market, Still)'
    <2>1. ASSUME PlanGood(plan, promised, market, Still)
          PROVE  PlanGood(plan, promised, market', Still')
      BY <1>1, <2>1, MovedPlan
    <2>2. QED
      BY <1>1, <2>1 DEF IInv
  <1>6. LossIsBounded'
    BY <1>1, SameLoss DEF IInv
  <1>7. QED
    BY <1>1, <1>2, <1>3, <1>4, <1>5, <1>6 DEF IInv

\* A deadline that passes keeps the invariant.
LEMMA DeadlinePassesKeeps ==
    ASSUME IInv, DeadlinePasses
    PROVE  IInv'
  <1>1. /\ phase = "planned" /\ late' = TRUE
        /\ UNCHANGED <<round, caller, order, paths, batch, v2, plan, promised, phase, market, moved,
                       allow, permit, outcome>>
    BY DEF DeadlinePasses, settling
  <1>2. TypeOK'
    BY <1>1 DEF IInv, TypeOK
  <1>3. V2OK'
    BY <1>1, SameV2 DEF IInv
  <1>4. PlanGood(plan, promised, market, Still)'
    BY <1>1 DEF IInv, Still
  <1>5. LossIsBounded'
    BY <1>1, SameLoss DEF IInv
  <1>6. QED
    BY <1>1, <1>2, <1>3, <1>4, <1>5 DEF IInv

\* A round that is not won keeps the invariant.
LEMMA LapseKeeps ==
    ASSUME IInv, Lapse
    PROVE  IInv'
  <1>1. /\ phase' = "idle"
        /\ UNCHANGED <<round, caller, order, paths, batch, v2, plan, promised, market, moved, late,
                       allow, permit, outcome>>
    BY DEF Lapse, settling
  <1>2. TypeOK'
    BY <1>1 DEF IInv, TypeOK
  <1>3. V2OK'
    BY <1>1, SameV2 DEF IInv
  <1>4. LossIsBounded'
    BY <1>1, SameLoss DEF IInv
  <1>5. QED
    BY <1>1, <1>2, <1>3, <1>4 DEF IInv

\* The standing allowances are set up between rounds.
LEMMA SetUpKeeps ==
    ASSUME IInv, SetUp
    PROVE  IInv'
  <1>1. /\ phase = "idle"
        /\ UNCHANGED <<round, caller, order, paths, batch, v2, plan, promised, phase, market, moved,
                       late, permit, outcome>>
    BY DEF SetUp, settling
  <1>2. allow' \in [Tokens \X Spenders -> Nat]
    <2>1. PICK s \in Standing :
            allow' = [k \in DOMAIN allow |-> IF k[2] = s THEN Plenty ELSE allow[k]]
      BY DEF SetUp
    <2>2. allow \in [Tokens \X Spenders -> Nat] /\ Plenty \in Nat
      BY DEF IInv, TypeOK, Plenty
    <2> DEFINE D == Tokens \X Spenders
    <2> HIDE DEF D
    <2>3. allow \in [D -> Nat]
      BY <2>2 DEF D
    <2>4. allow' \in [D -> Nat]
      BY <2>1, <2>2, <2>3
    <2>5. QED
      BY <2>4 DEF D
  <1>3. TypeOK'
    BY <1>1, <1>2 DEF IInv, TypeOK
  <1>4. V2OK'
    BY <1>1, SameV2 DEF IInv
  <1>5. LossIsBounded'
    BY <1>1, SameLoss DEF IInv
  <1>6. QED
    BY <1>1, <1>3, <1>4, <1>5 DEF IInv

-----------------------------------------------------------------------------
(* Settlement.                                                             *)

\* What a settlement by a plan can come to: with the tolerance the market may
\* have moved, without it the plan does what was promised.
Settled(s, sw, pr, still) ==
    /\ s.paid \in Nat /\ s.got \in Nat
    /\ s.ok => /\ Unit * (pr.buy - s.got) <= SlippageBps * pr.buy + Unit
               /\ Unit * (s.paid - pr.sell) <= SlippageBps * pr.sell + Unit
    /\ still => s.paid <= pr.sell /\ s.got >= pr.buy

\* What comes out as promised is within any tolerance.
LEMMA LossOfNothing ==
    ASSUME NEW x \in Nat
    PROVE  Unit * (x - x) <= SlippageBps * x + Unit
  <1>1. Unit \in Nat \ {0} /\ SlippageBps \in Nat
    BY VenueAssumption
  <1>2. SlippageBps * x \in Nat
    BY <1>1
  <1> DEFINE y == SlippageBps * x
  <1>3. y \in Nat /\ x - x = 0 /\ Unit * 0 = 0
    BY <1>1, <1>2
  <1> HIDE DEF y
  <1>4. Unit * (x - x) <= y + Unit
    BY <1>1, <1>3
  <1>5. QED
    BY <1>4 DEF y

\* No more is lost than at the limit.
LEMMA LossGrows ==
    ASSUME NEW a \in Int, NEW b \in Int, a <= b, NEW c \in Int, Unit * b <= c
    PROVE  Unit * a <= c
  <1>1. Unit \in Nat
    BY VenueAssumption
  <1>2. Unit * a <= Unit * b /\ Unit * a \in Int /\ Unit * b \in Int
    BY <1>1
  <1>3. QED
    BY <1>2

\* A settlement pays and brings what its plan promised, within the tolerance,
\* and no less than that in a market that stands still.
LEMMA SettlementIs ==
    ASSUME NEW pl, NEW pr, NEW m \in ToSet(Markets), NEW still \in BOOLEAN, NEW tardy,
           PlanGood(pl, pr, m, still), NEW al, NEW pe
    PROVE  Settled(Settlement(m, tardy, pl, al, pe), SwapOf(pl), pr, still)
  <1> DEFINE sw == SwapOf(pl)
             r == Realised(m, sw.call)
             s == Settlement(m, tardy, pl, al, pe)
             limit == sw.limit
             amount == sw.call.amount
  <1>1. /\ s.paid = IF sw.exactOut THEN r ELSE amount
        /\ s.got = IF sw.exactOut THEN amount ELSE r
        /\ s.ok => r > 0 /\ IF sw.exactOut THEN r <= limit ELSE r >= limit
    BY DEF Settlement
  <1>2. /\ sw.exactOut \in BOOLEAN /\ pr.sell \in Nat /\ pr.buy \in Nat /\ r \in Nat
        /\ amount = IF sw.exactOut THEN pr.buy ELSE pr.sell
        /\ limit = IF sw.exactOut THEN SlippageUp(pr.sell) ELSE SlippageDown(pr.buy)
        /\ still /\ sw.exactOut => 0 < r /\ r <= pr.sell
        /\ still /\ ~sw.exactOut => 0 < pr.buy /\ pr.buy <= r
    BY DEF PlanGood, SwapGood
  <1> DEFINE sell == pr.sell
             buy == pr.buy
             cs == SlippageBps * sell + Unit
             cb == SlippageBps * buy + Unit
  <1>3. cs \in Int /\ cb \in Int
    BY <1>2, VenueAssumption
  <1>4. sell \in Nat /\ buy \in Nat
    BY <1>2
  <1>5. Unit * (sell - sell) <= cs /\ Unit * (buy - buy) <= cb
    <2> HIDE DEF sell, buy
    <2>1. QED
      BY <1>4, LossOfNothing
  <1>6. /\ SlippageDown(buy) \in Nat /\ SlippageUp(sell) \in Nat
        /\ Unit * (buy - SlippageDown(buy)) <= cb /\ Unit * (SlippageUp(sell) - sell) <= cs
    <2> HIDE DEF sell, buy
    <2>1. QED
      BY <1>4, SlippageIs
  <1> DEFINE down == SlippageDown(buy)
             up == SlippageUp(sell)
  <1>7. Settled(s, sw, pr, still)
          <=> /\ s.paid \in Nat /\ s.got \in Nat
              /\ s.ok => Unit * (buy - s.got) <= cb /\ Unit * (s.paid - sell) <= cs
              /\ still => s.paid <= sell /\ s.got >= buy
    BY DEF Settled
  <1>8. /\ sw.exactOut \in BOOLEAN /\ r \in Nat
        /\ amount = IF sw.exactOut THEN buy ELSE sell
        /\ limit = IF sw.exactOut THEN up ELSE down
        /\ still /\ sw.exactOut => 0 < r /\ r <= sell
        /\ still /\ ~sw.exactOut => 0 < buy /\ buy <= r
    BY <1>2
  <1>9. /\ down \in Nat /\ up \in Nat /\ Unit * (buy - down) <= cb /\ Unit * (up - sell) <= cs
    BY <1>6
  <1> HIDE DEF s, r, limit, amount, sell, buy, cs, cb, down, up
  <1>10. CASE sw.exactOut
    <2>1. s.paid = r /\ s.got = buy /\ (s.ok => r <= up)
      BY <1>1, <1>8, <1>10
    <2>2. s.ok => Unit * (r - sell) <= cs
      <3>1. ASSUME s.ok PROVE r - sell \in Int /\ up - sell \in Int /\ r - sell <= up - sell
        BY <1>4, <1>8, <1>9, <2>1, <3>1
      <3> DEFINE d == r - sell
                 e == up - sell
      <3> HIDE DEF d, e
      <3>2. ASSUME s.ok PROVE Unit * d <= cs
        <4>1. d \in Int /\ e \in Int /\ d <= e /\ Unit * e <= cs
          BY <1>9, <3>1, <3>2 DEF d, e
        <4>2. QED
          BY <1>3, <4>1, LossGrows
      <3>3. QED
        BY <3>2 DEF d
    <2>3. Settled(s, sw, pr, still)
      BY <1>4, <1>5, <1>7, <1>8, <1>10, <2>1, <2>2
    <2>4. QED
      BY <2>3 DEF s
  <1>11. CASE ~sw.exactOut
    <2>1. s.paid = sell /\ s.got = r /\ (s.ok => r >= down)
      BY <1>1, <1>8, <1>11
    <2>2. s.ok => Unit * (buy - r) <= cb
      <3>1. ASSUME s.ok PROVE buy - r \in Int /\ buy - down \in Int /\ buy - r <= buy - down
        BY <1>4, <1>8, <1>9, <2>1, <3>1
      <3> DEFINE d == buy - r
                 e == buy - down
      <3> HIDE DEF d, e
      <3>2. ASSUME s.ok PROVE Unit * d <= cb
        <4>1. d \in Int /\ e \in Int /\ d <= e /\ Unit * e <= cb
          BY <1>9, <3>1, <3>2 DEF d, e
        <4>2. QED
          BY <1>3, <4>1, LossGrows
      <3>3. QED
        BY <3>2 DEF d
    <2>3. Settled(s, sw, pr, still)
      BY <1>4, <1>5, <1>7, <1>8, <1>11, <2>1, <2>2
    <2>4. QED
      BY <2>3 DEF s
  <1>12. QED
    BY <1>8, <1>10, <1>11

\* What a settlement leaves of the allowances.
LEMMA LeavesAllowances ==
    ASSUME NEW pl, NEW pr, NEW m \in ToSet(Markets), NEW still \in BOOLEAN, NEW tardy,
           PlanGood(pl, pr, m, still), NEW al \in Allowances, NEW pe \in Permits,
           Settlement(m, tardy, pl, al, pe).ok
    PROVE  /\ Settlement(m, tardy, pl, al, pe).allow \in Allowances
           /\ Settlement(m, tardy, pl, al, pe).permit \in Permits
  <1> DEFINE sw == SwapOf(pl)
             s == Settlement(m, tardy, pl, al, pe)
             key == <<sw.token, sw.spender>>
             paid == s.paid
             A == Allowed(pl, al)
             P == Permitted(pl, pe)
             viaPermit == sw.spender = "permit2"
  <1>1. /\ s.ok => A[key] >= paid /\ (viaPermit => P[sw.token] >= paid)
        /\ s.allow = [A EXCEPT ![key] = @ - paid]
        /\ s.permit = IF viaPermit THEN [P EXCEPT ![sw.token] = @ - paid] ELSE pe
    BY DEF Settlement
  <1>2. paid \in Nat
    <2>1. Settled(s, sw, pr, still)
      BY SettlementIs
    <2>2. QED
      BY <2>1 DEF Settled
  <1>3. A \in Allowances /\ P \in Permits
    BY DEF PlanGood, GrantsGood
  <1>4. sw.token \in Tokens /\ sw.spender \in Spenders
    BY DEF PlanGood, SwapGood
  <1>5. s.ok
    OBVIOUS
  <1> DEFINE D == Tokens \X Spenders
  <1>6. A \in [D -> Nat] /\ P \in [Tokens -> Nat] /\ key \in D /\ pe \in [Tokens -> Nat]
    BY <1>3, <1>4 DEF Allowances, Permits
  <1> HIDE DEF A, P, D, key, paid, sw
  <1>7. s.allow \in [D -> Nat]
    <2>1. A[key] - paid \in Nat
      BY <1>1, <1>2, <1>5, <1>6
    <2> DEFINE e == A[key] - paid
    <2>2. s.allow = [A EXCEPT ![key] = e] /\ e \in Nat
      BY <1>1, <2>1
    <2> HIDE DEF e
    <2>3. QED
      BY <1>6, <2>2
  <1>8. s.permit \in [Tokens -> Nat]
    <2>1. CASE viaPermit
      <3> DEFINE e == P[sw.token] - paid
      <3>1. e \in Nat /\ s.permit = [P EXCEPT ![sw.token] = e]
        BY <1>1, <1>2, <1>4, <1>5, <1>6, <2>1 DEF sw
      <3> HIDE DEF e
      <3>2. QED
        BY <1>6, <3>1
    <2>2. CASE ~viaPermit
      BY <1>1, <1>6, <2>2
    <2>3. QED
      BY <2>1, <2>2
  <1>9. QED
    BY <1>7, <1>8 DEF D, Allowances, Permits

\* In the market of the quote a plan fails for one of three reasons.
Excused(pl, pr, al, tardy) ==
    \/ SwapOf(pl).deadline /\ tardy
    \/ Len(pl) = 1 /\ al[<<SwapOf(pl).token, SwapOf(pl).spender>>] < pr.sell
    \/ Refused(pl, al)

\* In a market that stands still a plan fails only for its deadline, or for an
\* allowance that is missing or cannot be replaced.
LEMMA WhyNot ==
    ASSUME NEW pl, NEW pr, NEW m \in ToSet(Markets), Still, NEW tardy,
           PlanGood(pl, pr, m, Still), NEW al \in Allowances, NEW pe \in Permits,
           ~Settlement(m, tardy, pl, al, pe).ok
    PROVE  Excused(pl, pr, al, tardy)
  <1> DEFINE sw == SwapOf(pl)
             r == Realised(m, sw.call)
             s == Settlement(m, tardy, pl, al, pe)
             key == <<sw.token, sw.spender>>
             paid == IF sw.exactOut THEN r ELSE sw.call.amount
             A == Allowed(pl, al)
             P == Permitted(pl, pe)
             viaPermit == sw.spender = "permit2"
  <1>1. s.ok <=> /\ ~Refused(pl, al)
                 /\ r > 0
                 /\ IF sw.exactOut THEN r <= sw.limit ELSE r >= sw.limit
                 /\ sw.deadline => ~tardy
                 /\ A[key] >= paid
                 /\ viaPermit => P[sw.token] >= paid
    BY DEF Settlement
  <1>2. /\ sw.exactOut \in BOOLEAN /\ pr.sell \in Nat /\ pr.buy \in Nat /\ r \in Nat
        /\ sw.call.amount = IF sw.exactOut THEN pr.buy ELSE pr.sell
        /\ sw.limit = IF sw.exactOut THEN SlippageUp(pr.sell) ELSE SlippageDown(pr.buy)
        /\ sw.exactOut => 0 < r /\ r <= pr.sell
        /\ ~sw.exactOut => 0 < pr.buy /\ pr.buy <= r
    BY DEF PlanGood, SwapGood
  <1>3. sw.token \in Tokens /\ sw.spender \in Spenders
    BY DEF PlanGood, SwapGood
  <1>4. /\ A \in Allowances /\ (IF Len(pl) = 1 THEN A = al ELSE A[key] >= pr.sell)
        /\ P \in Permits /\ (viaPermit => P[sw.token] >= pr.sell)
    BY DEF PlanGood, GrantsGood
  <1> DEFINE a == A[key]
             p == P[sw.token]
             own == al[key]
  <1>5. a \in Nat /\ p \in Nat /\ own \in Nat
    <2>1. key \in Tokens \X Spenders
      BY <1>3
    <2> HIDE DEF A, P, key, sw
    <2>2. QED
      BY <1>3, <1>4, <2>1 DEF Allowances, Permits
  <1>6. (Len(pl) = 1 => a = own) /\ (Len(pl) # 1 => a >= pr.sell) /\ (viaPermit => p >= pr.sell)
    BY <1>4
  <1> DEFINE sell == pr.sell
             buy == pr.buy
             up == SlippageUp(sell)
             down == SlippageDown(buy)
             limit == sw.limit
  <1>7. up \in Nat /\ sell <= up /\ down \in Nat /\ down <= buy
    <2>1. sell \in Nat /\ buy \in Nat
      BY <1>2
    <2> HIDE DEF sell, buy
    <2>2. QED
      BY <2>1, SlippageIs
  <1>8. paid \in Nat /\ paid <= sell
    BY <1>2
  <1>9. r > 0 /\ IF sw.exactOut THEN r <= limit ELSE r >= limit
    <2>1. sell \in Nat /\ buy \in Nat /\ r \in Nat /\ limit = (IF sw.exactOut THEN up ELSE down)
          /\ (sw.exactOut => 0 < r /\ r <= sell) /\ (~sw.exactOut => 0 < buy /\ buy <= r)
          /\ sw.exactOut \in BOOLEAN
      BY <1>2
    <2> HIDE DEF sell, buy, r, limit, up, down, sw
    <2>2. QED
      BY <1>7, <2>1
  <1>10. ~s.ok
    OBVIOUS
  <1> DEFINE dead == sw.deadline /\ tardy
             refused == Refused(pl, al)
             alone == Len(pl) = 1
  <1>11. s.ok <=> ~refused /\ ~dead /\ a >= paid /\ (viaPermit => p >= paid)
    BY <1>1, <1>9
  <1>12. sell \in Nat
    BY <1>2
  <1>13. (alone => a = own) /\ (~alone => a >= sell) /\ (viaPermit => p >= sell)
    BY <1>6
  <1>14. dead \/ (alone /\ own < sell) \/ refused
    <2> HIDE DEF s, refused, dead, a, p, own, paid, viaPermit, alone, sell
    <2>1. QED
      BY <1>5, <1>8, <1>10, <1>11, <1>12, <1>13
  <1>15. QED
    BY <1>14 DEF Excused

\* What a settlement changes, and what it finds.
LEMMA SettleFacts ==
    ASSUME IInv, Settle
    PROVE  /\ PlanGood(plan, promised, market, Still) /\ market \in ToSet(Markets)
           /\ Still \in BOOLEAN /\ allow \in Allowances /\ permit \in Permits
           /\ UNCHANGED <<round, caller, order, paths, batch, v2, plan, promised, market, moved, late>>
           /\ phase' = "idle"
           /\ LET s == Settlement(market, late, plan, allow, permit)
              IN  /\ outcome' = [ok |-> s.ok, paid |-> s.paid, got |-> s.got]
                  /\ IF s.ok THEN allow' = s.allow /\ permit' = s.permit
                     ELSE UNCHANGED <<allow, permit>>
  BY StillIs DEF IInv, TypeOK, Settle, settling, Allowances, Permits

\* A settlement keeps the invariant.
LEMMA SettleKeeps ==
    ASSUME IInv, Settle
    PROVE  IInv'
  <1> DEFINE s == Settlement(market, late, plan, allow, permit)
             sw == SwapOf(plan)
  <1>1. /\ PlanGood(plan, promised, market, Still) /\ market \in ToSet(Markets)
        /\ Still \in BOOLEAN /\ allow \in Allowances /\ permit \in Permits
        /\ UNCHANGED <<round, caller, order, paths, batch, v2, plan, promised, market, moved, late>>
        /\ phase' = "idle"
        /\ outcome' = [ok |-> s.ok, paid |-> s.paid, got |-> s.got]
        /\ IF s.ok THEN allow' = s.allow /\ permit' = s.permit ELSE UNCHANGED <<allow, permit>>
    BY SettleFacts
  <1>2. Settled(s, sw, promised, Still)
    BY <1>1, SettlementIs
  <1>3. s.ok => s.allow \in Allowances /\ s.permit \in Permits
    BY <1>1, LeavesAllowances
  <1> HIDE DEF s, sw
  <1>4. allow' \in Allowances /\ permit' \in Permits
    BY <1>1, <1>3
  <1>5. TypeOK'
    BY <1>1, <1>4 DEF IInv, TypeOK, Allowances, Permits
  <1>6. V2OK'
    BY <1>1, SameV2 DEF IInv
  <1>7. LossIsBounded'
    <2>1. outcome'.ok = s.ok /\ outcome'.paid = s.paid /\ outcome'.got = s.got /\ promised' = promised
      BY <1>1
    <2>2. s.ok => /\ Unit * (promised.buy - s.got) <= SlippageBps * promised.buy + Unit
                  /\ Unit * (s.paid - promised.sell) <= SlippageBps * promised.sell + Unit
      BY <1>2 DEF Settled
    <2>3. QED
      BY <2>1, <2>2 DEF LossIsBounded
  <1>8. QED
    BY <1>1, <1>5, <1>6, <1>7 DEF IInv

\* The invariant is inductive.
LEMMA NextKeeps ==
    ASSUME IInv, [Next]_vars
    PROVE  IInv'
  <1>1. CASE Request
    BY <1>1, RequestKeeps
  <1>2. CASE SetUp
    BY <1>2, SetUpKeeps
  <1>3. CASE AnswerV2
    BY <1>3, AnswerV2Keeps
  <1>4. CASE SourceTimeout
    BY <1>4, SourceTimeoutKeeps
  <1>5. CASE Select
    BY <1>5, SelectKeeps
  <1>6. CASE FallBack
    BY <1>6, FallBackKeeps
  <1>7. CASE \E v \in Venues : Ask(v) \/ AskFails(v)
    BY <1>7, AskKeeps, AskFailsKeeps
  <1>8. CASE MarketMoves
    BY <1>8, MarketMovesKeeps
  <1>9. CASE DeadlinePasses
    BY <1>9, DeadlinePassesKeeps
  <1>10. CASE Settle
    BY <1>10, SettleKeeps
  <1>11. CASE Lapse
    BY <1>11, LapseKeeps
  <1>12. CASE UNCHANGED vars
    BY <1>12 DEF vars, IInv, TypeOK, BatchesOK, V2OK, Still, HeavyOf, LossIsBounded
  <1>13. QED
    BY <1>1, <1>2, <1>3, <1>4, <1>5, <1>6, <1>7, <1>8, <1>9, <1>10, <1>11, <1>12 DEF Next

-----------------------------------------------------------------------------
(* Theorems.                                                               *)

\* The inductive invariant of a round: batches in order, a true V2 quote, a
\* sound plan, and a loss within the tolerance.
THEOREM Invariant == Spec => []IInv
  <1>1. Init => IInv
    BY InitHolds
  <1>2. IInv /\ [Next]_vars => IInv'
    BY NextKeeps
  <1>3. QED
    BY <1>1, <1>2, PTL DEF Spec

\* The variables keep their types: an allowance never falls below nothing, and
\* what is promised is an amount.
THEOREM TypeCorrect == Spec => []TypeOK
  <1>1. IInv => TypeOK
    BY DEF IInv
  <1>2. QED
    BY <1>1, Invariant, PTL

\* Every answer is that of its own call, through any bisection, failure and
\* interleaving, for any orders, pools, fee tiers, chunk size and gas cap.
THEOREM AnswersStayWithCalls == Spec => []QuotesAreTrue
  <1>1. IInv => QuotesAreTrue
    <2> SUFFICES ASSUME IInv, ~moved, phase = "quoting", NEW v \in Venues,
                        NEW i \in DOMAIN batch[v].done
                 PROVE  batch[v].done[i] = IF i \in HeavyOf(v) \cup GivenUp(batch[v]) THEN 0
                                           ELSE Meant(market, paths[v][i])
      BY DEF QuotesAreTrue
    <2>1. Aligned(batch[v], market, paths[v], HeavyOf(v))
      BY DEF IInv, BatchesOK, InOrder, Still
    <2>2. batch[v].done[i] = Due(market, paths[v], HeavyOf(v) \cup GivenUp(batch[v]), i)
      BY <2>1 DEF Aligned
    <2>3. QED
      BY <2>2 DEF Due
  <1>2. QED
    BY <1>1, Invariant, PTL

\* A settlement in a market that has moved loses the tolerance at most.
THEOREM LossesAreBounded == Spec => []LossIsBounded
  <1>1. IInv => LossIsBounded
    BY DEF IInv
  <1>2. QED
    BY <1>1, Invariant, PTL

\* An allowance that is left is one of the V3 router or of a standing spender:
\* what the approvals of the other venues grant is used up by their swaps.
SpareIsRouters ==
    \A k \in Tokens \X Spenders : allow[k] > 0 => k[2] \in {"swapRouter"} \cup Standing

\* A settlement leaves no other.
LEMMA SettleSpares ==
    ASSUME IInv, SpareIsRouters, Settle
    PROVE  SpareIsRouters'
  <1> DEFINE s == Settlement(market, late, plan, allow, permit)
             sw == SwapOf(plan)
             key == <<sw.token, sw.spender>>
             A == Allowed(plan, allow)
             D == Tokens \X Spenders
             paid == s.paid
             sell == promised.sell
  <1>1. /\ PlanGood(plan, promised, market, Still) /\ market \in ToSet(Markets)
        /\ Still \in BOOLEAN /\ allow \in Allowances
        /\ IF s.ok THEN allow' = s.allow ELSE UNCHANGED allow
    BY SettleFacts
  <1>2. /\ s.allow = [A EXCEPT ![key] = @ - paid]
        /\ paid = IF sw.exactOut THEN Realised(market, sw.call) ELSE sw.call.amount
    BY DEF Settlement
  <1>3. /\ sell \in Nat /\ sw.token \in Tokens /\ sw.spender \in Spenders
        /\ ~sw.exactOut => paid = sell
    BY <1>1, <1>2 DEF PlanGood, SwapGood
  <1>4. paid \in Nat
    <2>1. Settled(s, sw, promised, Still)
      BY <1>1, SettlementIs
    <2>2. QED
      BY <2>1 DEF Settled
  <1>5. /\ A \in Allowances
        /\ \A k \in D : k # key => A[k] = allow[k]
        /\ IF Len(plan) = 1 THEN A = allow
           ELSE sw.spender = "swapRouter" \/ (~sw.exactOut /\ A[key] = sell)
    BY <1>1 DEF PlanGood, GrantsGood
  <1>6. A \in [D -> Nat] /\ allow \in [D -> Nat] /\ key \in D /\ key[2] = sw.spender
    BY <1>1, <1>3, <1>5 DEF Allowances
  <1>7. \A k \in D : allow[k] > 0 => k[2] \in {"swapRouter"} \cup Standing
    BY DEF SpareIsRouters
  <1> HIDE DEF s, sw, key, A, D, paid, sell
  <1>8. CASE ~s.ok
    BY <1>1, <1>7, <1>8 DEF SpareIsRouters, D
  <1>9. CASE s.ok
    <2>1. ASSUME NEW k \in D, allow'[k] > 0
          PROVE  k[2] \in {"swapRouter"} \cup Standing
      <3>1. allow' = [A EXCEPT ![key] = A[key] - paid]
        BY <1>1, <1>2, <1>9
      <3>2. CASE k # key
        <4>1. allow'[k] = allow[k]
          BY <1>5, <1>6, <3>1, <3>2
        <4>2. QED
          BY <1>7, <2>1, <4>1
      <3>3. CASE k = key /\ sw.spender # "swapRouter"
        <4>1. allow'[k] = A[key] - paid
          BY <1>6, <3>1, <3>3
        <4>2. CASE Len(plan) = 1
          <5>1. A[key] = allow[key] /\ A[key] \in Nat
            BY <1>5, <1>6, <4>2
          <5>2. allow[key] > 0
            BY <1>4, <2>1, <4>1, <5>1
          <5>3. QED
            BY <1>6, <1>7, <3>3, <5>2
        <4>3. CASE Len(plan) # 1
          <5>1. A[key] = sell /\ paid = sell
            BY <1>3, <1>5, <3>3, <4>3
          <5>2. QED
            BY <1>3, <2>1, <4>1, <5>1
        <4>4. QED
          BY <4>2, <4>3
      <3>4. CASE k = key /\ sw.spender = "swapRouter"
        BY <1>6, <3>4
      <3>5. QED
        BY <3>2, <3>3, <3>4
    <2>2. QED
      BY <2>1 DEF SpareIsRouters, D
  <1>10. QED
    BY <1>8, <1>9

\* Nor does any other step.
LEMMA NextSpares ==
    ASSUME IInv, SpareIsRouters, [Next]_vars
    PROVE  SpareIsRouters'
  <1>1. CASE Settle
    BY <1>1, SettleSpares
  <1>2. CASE SetUp
    <2>1. PICK s \in Standing :
             allow' = [k \in DOMAIN allow |-> IF k[2] = s THEN Plenty ELSE allow[k]]
      BY <1>2 DEF SetUp
    <2>2. DOMAIN allow = Tokens \X Spenders
      BY DEF IInv, TypeOK
    <2>3. \A k \in Tokens \X Spenders : allow'[k] = IF k[2] = s THEN Plenty ELSE allow[k]
      BY <2>1, <2>2
    <2>4. QED
      BY <2>3 DEF SpareIsRouters
  <1>3. CASE UNCHANGED allow
    BY <1>3 DEF SpareIsRouters
  <1>4. Settle \/ SetUp \/ UNCHANGED allow
    BY DEF Next, Request, AnswerV2, SourceTimeout, Select, FallBack, Ask, AskFails, MarketMoves,
           DeadlinePasses, Lapse, quoting, settling, vars
  <1>5. QED
    BY <1>1, <1>2, <1>3, <1>4

\* Of every behaviour.
THEOREM NoOtherSpare == Spec => []SpareIsRouters
  <1>1. Init => SpareIsRouters
    BY DEF Init, SpareIsRouters
  <1>2. IInv /\ SpareIsRouters /\ [Next]_vars => SpareIsRouters'
    BY NextSpares
  <1>3. QED
    BY <1>1, <1>2, Invariant, PTL DEF Spec

\* A token refuses an approval of these spenders only.
LEMMA RefusedIs ==
    ASSUME IInv, SpareIsRouters, Settle, Refused(plan, allow)
    PROVE  LeftOver
  <1> DEFINE sw == SwapOf(plan)
             key == <<sw.token, sw.spender>>
  <1>1. PlanGood(plan, promised, market, Still)
    BY SettleFacts
  <1>2. /\ \A g \in Grants(plan) : g.op = "approve" => <<g.token, g.spender>> = key
        /\ sw.token \in Tokens /\ sw.spender \in Spenders
    BY <1>1 DEF PlanGood, SwapGood, GrantsGood
  <1>3. PICK g \in Grants(plan) : g.op = "approve" /\ allow[<<g.token, g.spender>>] > 0
    BY DEF Refused
  <1>4. allow[key] > 0
    BY <1>2, <1>3
  <1>5. key \in Tokens \X Spenders /\ key[2] = sw.spender
    BY <1>2
  <1> HIDE DEF key, sw
  <1>6. sw.spender \in {"swapRouter"} \cup Standing
    BY <1>4, <1>5 DEF SpareIsRouters
  <1>7. QED
    BY <1>6 DEF LeftOver, sw

\* Settled in the market of its quote, a plan pays and brings what was
\* promised, or fails for one of the three reasons.
THEOREM QuotesAreHonoured == Spec => QuoteIsHonoured
  <1> DEFINE Honoured ==
               Settle /\ ~moved =>
                 \/ outcome'.ok /\ outcome'.paid <= promised.sell /\ outcome'.got >= promised.buy
                 \/ ~outcome'.ok /\ ((SwapOf(plan).deadline /\ late) \/ LacksAllowance \/ LeftOver)
  <1>1. IInv /\ SpareIsRouters /\ [Next]_vars => Honoured
    <2> SUFFICES ASSUME IInv, SpareIsRouters, Settle, ~moved
                 PROVE  \/ outcome'.ok /\ outcome'.paid <= promised.sell
                           /\ outcome'.got >= promised.buy
                        \/ ~outcome'.ok /\ ((SwapOf(plan).deadline /\ late)
                                            \/ LacksAllowance \/ LeftOver)
      OBVIOUS
    <2> DEFINE s == Settlement(market, late, plan, allow, permit)
               sw == SwapOf(plan)
    <2>1. /\ PlanGood(plan, promised, market, Still) /\ market \in ToSet(Markets)
          /\ Still \in BOOLEAN /\ allow \in Allowances /\ permit \in Permits
          /\ outcome' = [ok |-> s.ok, paid |-> s.paid, got |-> s.got]
      BY SettleFacts
    <2>2. Still
      BY DEF Still
    <2>3. Settled(s, sw, promised, Still)
      BY <2>1, SettlementIs
    <2>4. s.paid <= promised.sell /\ s.got >= promised.buy
      BY <2>2, <2>3 DEF Settled
    <2>5. ASSUME ~s.ok
          PROVE  (SwapOf(plan).deadline /\ late) \/ LacksAllowance \/ LeftOver
      <3>1. Excused(plan, promised, allow, late)
        BY <2>1, <2>2, <2>5, WhyNot
      <3>2. QED
        BY <3>1, RefusedIs DEF Excused, LacksAllowance
    <2> HIDE DEF s, sw
    <2>6. outcome'.ok = s.ok /\ outcome'.paid = s.paid /\ outcome'.got = s.got
      BY <2>1
    <2>7. QED
      BY <2>4, <2>5, <2>6
  <1> HIDE DEF Honoured
  <1>2. QuoteIsHonoured <=> [][Honoured]_vars
    BY DEF QuoteIsHonoured, Honoured
  <1>3. QED
    BY <1>1, <1>2, Invariant, NoOtherSpare, PTL DEF Spec
=============================================================================
