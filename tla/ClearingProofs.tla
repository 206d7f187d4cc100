----------------------------- MODULE ClearingProofs -----------------------------
(***************************************************************************)
(* For any orders, pools and chains: what the filters, the EBBO check, the *)
(* feasibility gate and the score can be relied on for.                    *)
(***************************************************************************)
EXTENDS Clearing, FiniteSetTheorems, SequenceTheorems, WellFoundedInduction, TLAPS

-----------------------------------------------------------------------------
(* Recursion over a sequence.                                              *)

\* A set with 0 and with every successor of its members holds every natural
\* number.
LEMMA NatSetInduction ==
    ASSUME NEW S, 0 \in S, \A n \in Nat : n \in S => n + 1 \in S
    PROVE  Nat \subseteq S
  <1> SUFFICES ASSUME Nat \ S # {} PROVE FALSE
    OBVIOUS
  <1> DEFINE Below == OpToRel(<, Nat)
  <1>1. IsWellFoundedOn(Below, Nat)
    BY NatLessThanWellFounded
  <1>2. Below = {p \in Nat \X Nat : p[1] < p[2]}
    BY DEF OpToRel
  <1> HIDE DEF Below
  <1>3. PICK x \in Nat \ S : \A y \in Nat \ S : <<y, x>> \notin Below
    BY <1>1, WFMin
  <1>4. x # 0 /\ x - 1 \in Nat
    OBVIOUS
  <1>5. <<x - 1, x>> \in Below
    BY <1>2, <1>4
  <1>6. x - 1 \in S
    BY <1>3, <1>4, <1>5
  <1>7. QED
    BY <1>4, <1>6

\* The same for the numbers up to a bound.
Inductive(S, m) == 0 \in S /\ \A n \in 1..m : n - 1 \in S => n \in S

\* The same up to a bound.
LEMMA UpToInduction ==
    ASSUME NEW m \in Nat, NEW S, Inductive(S, m)
    PROVE  0..m \subseteq S
  <1> DEFINE T == {n \in Nat : n <= m => n \in S}
  <1>1. 0 \in T
    BY DEF Inductive
  <1>2. ASSUME NEW n \in Nat, n \in T PROVE n + 1 \in T
    <2>1. CASE n + 1 > m
      BY <2>1
    <2>2. CASE n + 1 <= m
      <3>1. n + 1 \in 1..m /\ (n + 1) - 1 = n /\ n \in S
        BY <1>2, <2>2
      <3>2. n + 1 \in S
        BY <3>1 DEF Inductive
      <3>3. QED
        BY <3>2
    <2>3. QED
      BY <2>1, <2>2
  <1>3. Nat \subseteq T
    <2> HIDE DEF T
    <2>1. QED
      BY <1>1, <1>2, NatSetInduction
  <1>4. QED
    BY <1>3

\* A step that stays in D can be taken any number of times.
StepsIn(D, m, step) == step \in [1..m -> [D -> D]]
\* f runs through the steps from base.
IsRun(f, D, m, base, step) ==
    f \in [0..m -> D] /\ f[0] = base /\ \A n \in 1..m : f[n] = step[n][f[n - 1]]

\* The recursive function that CHOOSE picks does so.
LEMMA Recursion ==
    ASSUME NEW m \in Nat, NEW D, NEW base \in D, NEW step, StepsIn(D, m, step)
    PROVE  \E f : IsRun(f, D, m, base, step)
  <1> DEFINE Steps(f, k) == /\ f \in [0..k -> D]
                            /\ f[0] = base
                            /\ \A n \in 1..k : f[n] = step[n][f[n - 1]]
             S == {k \in 0..m : \E f : Steps(f, k)}
  <1>1. 0 \in S
    <2> DEFINE f == [n \in 0..0 |-> base]
    <2>1. Steps(f, 0)
      OBVIOUS
    <2> HIDE DEF Steps, f
    <2>2. QED
      BY <2>1
  <1>2. ASSUME NEW k \in 1..m, k - 1 \in S PROVE k \in S
    <2>1. PICK f : Steps(f, k - 1)
      BY <1>2
    <2> DEFINE g == [n \in 0..k |-> IF n = k THEN step[k][f[k - 1]] ELSE f[n]]
    <2>2. f[k - 1] \in D /\ step[k][f[k - 1]] \in D
      BY <2>1 DEF StepsIn
    <2>3. g \in [0..k -> D]
      <3>1. ASSUME NEW n \in 0..k, n # k PROVE f[n] \in D
        <4>1. n \in 0..(k - 1)
          BY <3>1
        <4>2. QED
          BY <2>1, <4>1
      <3>2. QED
        BY <2>2, <3>1
    <2>4. g[0] = base
      <3>1. g[0] = f[0]
        OBVIOUS
      <3>2. QED
        BY <2>1, <3>1
    <2>5. ASSUME NEW n \in 1..k PROVE g[n] = step[n][g[n - 1]]
      <3>1. g[n - 1] = f[n - 1]
        OBVIOUS
      <3>2. CASE n = k
        <4>1. g[k] = step[k][f[k - 1]]
          OBVIOUS
        <4>2. QED
          <5> HIDE DEF g
          <5>1. QED
            BY <3>1, <3>2, <4>1
      <3>3. CASE n # k
        <4>1. n \in 1..(k - 1) /\ g[n] = f[n]
          BY <3>3
        <4>2. QED
          BY <2>1, <3>1, <4>1
      <3>4. QED
        BY <3>2, <3>3
    <2> HIDE DEF g
    <2>6. Steps(g, k)
      BY <2>3, <2>4, <2>5
    <2>7. QED
      BY <2>6
  <1>3. m \in S
    <2> HIDE DEF S
    <2>1. Inductive(S, m)
      BY <1>1, <1>2 DEF Inductive
    <2>2. m \in 0..m
      OBVIOUS
    <2>3. QED
      BY <2>1, <2>2, UpToInduction
  <1>4. PICK f : Steps(f, m)
    BY <1>3
  <1>5. QED
    BY <1>4 DEF IsRun

\* A run that stays in D never leaves it.
Stays(f, m, D) == f[0] \in D /\ \A n \in 1..m : f[n - 1] \in D => f[n] \in D

\* What every step keeps holds at the end.
LEMMA StaysIn ==
    ASSUME NEW m \in Nat, NEW D, NEW f, Stays(f, m, D)
    PROVE  \A n \in 0..m : f[n] \in D
  <1> DEFINE S == {n \in 0..m : f[n] \in D}
  <1>1. Inductive(S, m)
    <2>1. 0 \in S
      BY DEF Stays
    <2>2. ASSUME NEW n \in 1..m, n - 1 \in S PROVE n \in S
      BY <2>2 DEF Stays
    <2>3. QED
      BY <2>1, <2>2 DEF Inductive
  <1>2. 0..m \subseteq S
    <2> HIDE DEF S
    <2>1. QED
      BY <1>1, UpToInduction
  <1>3. QED
    BY <1>2

\* The elements of s in S, prefix by prefix.
LEMMA OnlyEquation ==
    ASSUME NEW T, NEW s \in Seq(T), NEW S
    PROVE  /\ OnlyUpTo(s, S)[0] = <<>>
           /\ \A n \in 1..Len(s) :
                OnlyUpTo(s, S)[n] = IF s[n] \in S THEN Append(OnlyUpTo(s, S)[n - 1], s[n])
                                                  ELSE OnlyUpTo(s, S)[n - 1]
           /\ \A n \in 0..Len(s) : OnlyUpTo(s, S)[n] \in Seq(T)
  <1> DEFINE m == Len(s)
             D == Seq(T)
             base == <<>>
             all == OnlyUpTo(s, S)
             OneMore(n, x) == IF s[n] \in S THEN Append(x, s[n]) ELSE x
             step == [n \in 1..m |-> [x \in D |-> OneMore(n, x)]]
             Eqn(f) == f = [n \in 0..m |-> IF n = 0 THEN base ELSE OneMore(n, f[n - 1])]
  <1>0. base \in D /\ m \in Nat
    OBVIOUS
  <1>1. ASSUME NEW n \in 1..m, NEW x \in D PROVE OneMore(n, x) \in D
    <2>1. s[n] \in T
      OBVIOUS
    <2>2. Append(x, s[n]) \in Seq(T)
      BY <2>1, AppendProperties
    <2>3. QED
      BY <2>2
  <1>2. all = CHOOSE g : Eqn(g)
    BY DEF OnlyUpTo
  <1> HIDE DEF m, D, base, all, OneMore
  <1>3. StepsIn(D, m, step)
    <2>1. ASSUME NEW n \in 1..m PROVE [x \in D |-> OneMore(n, x)] \in [D -> D]
      BY <1>1
    <2>2. QED
      BY <2>1 DEF StepsIn
  <1>4. PICK f : IsRun(f, D, m, base, step)
    <2> HIDE DEF step
    <2>1. QED
      BY <1>0, <1>3, Recursion
  <1>5. ASSUME NEW n \in 1..m PROVE f[n] = OneMore(n, f[n - 1])
    <2>1. n - 1 \in 0..m
      BY <1>0
    <2>2. f[n - 1] \in D /\ f[n] = step[n][f[n - 1]]
      <3> HIDE DEF step
      <3>1. QED
        BY <1>4, <2>1 DEF IsRun
    <2>3. QED
      BY <2>2
  <1>6. Eqn(f)
    <2> DEFINE h == [n \in 0..m |-> IF n = 0 THEN base ELSE OneMore(n, f[n - 1])]
    <2>1. ASSUME NEW n \in 0..m PROVE f[n] = h[n]
      <3>1. n = 0 \/ n \in 1..m
        BY <1>0
      <3>2. f[0] = base
        BY <1>4 DEF IsRun
      <3>3. QED
        BY <1>5, <3>1, <3>2
    <2>2. f \in [0..m -> D]
      BY <1>4 DEF IsRun
    <2>3. f = h
      BY <2>1, <2>2
    <2>4. QED
      BY <2>3
  <1>7. Eqn(all)
    <2> HIDE DEF Eqn
    <2>1. QED
      BY <1>2, <1>6
  <1>8. \A n \in 0..m : all[n] = IF n = 0 THEN base ELSE OneMore(n, all[n - 1])
    BY <1>7
  <1>9. all[0] = base /\ \A n \in 1..m : all[n] = OneMore(n, all[n - 1])
    BY <1>0, <1>8
  <1>10. Stays(all, m, D)
    BY <1>0, <1>1, <1>9 DEF Stays
  <1>11. \A n \in 0..m : all[n] \in D
    BY <1>0, <1>10, StaysIn
  <1>12. QED
    BY <1>9, <1>11 DEF m, D, base, all, OneMore

\* The sum of s, prefix by prefix.
LEMMA SumEquation ==
    ASSUME NEW s \in Seq(Int)
    PROVE  /\ SumUpTo(s)[0] = 0
           /\ \A n \in 1..Len(s) : SumUpTo(s)[n] = SumUpTo(s)[n - 1] + s[n]
           /\ \A n \in 0..Len(s) : SumUpTo(s)[n] \in Int
  <1> DEFINE m == Len(s)
             D == Int
             base == 0
             all == SumUpTo(s)
             OneMore(n, x) == x + s[n]
             step == [n \in 1..m |-> [x \in D |-> OneMore(n, x)]]
             Eqn(f) == f = [n \in 0..m |-> IF n = 0 THEN base ELSE OneMore(n, f[n - 1])]
  <1>0. base \in D /\ m \in Nat
    OBVIOUS
  <1>1. ASSUME NEW n \in 1..m, NEW x \in D PROVE OneMore(n, x) \in D
    OBVIOUS
  <1>2. all = CHOOSE g : Eqn(g)
    BY DEF SumUpTo
  <1> HIDE DEF m, D, base, all, OneMore
  <1>3. StepsIn(D, m, step)
    <2>1. ASSUME NEW n \in 1..m PROVE [x \in D |-> OneMore(n, x)] \in [D -> D]
      BY <1>1
    <2>2. QED
      BY <2>1 DEF StepsIn
  <1>4. PICK f : IsRun(f, D, m, base, step)
    <2> HIDE DEF step
    <2>1. QED
      BY <1>0, <1>3, Recursion
  <1>5. ASSUME NEW n \in 1..m PROVE f[n] = OneMore(n, f[n - 1])
    <2>1. n - 1 \in 0..m
      BY <1>0
    <2>2. f[n - 1] \in D /\ f[n] = step[n][f[n - 1]]
      <3> HIDE DEF step
      <3>1. QED
        BY <1>4, <2>1 DEF IsRun
    <2>3. QED
      BY <2>2
  <1>6. Eqn(f)
    <2> DEFINE h == [n \in 0..m |-> IF n = 0 THEN base ELSE OneMore(n, f[n - 1])]
    <2>1. ASSUME NEW n \in 0..m PROVE f[n] = h[n]
      <3>1. n = 0 \/ n \in 1..m
        BY <1>0
      <3>2. f[0] = base
        BY <1>4 DEF IsRun
      <3>3. QED
        BY <1>5, <3>1, <3>2
    <2>2. f \in [0..m -> D]
      BY <1>4 DEF IsRun
    <2>3. f = h
      BY <2>1, <2>2
    <2>4. QED
      BY <2>3
  <1>7. Eqn(all)
    <2> HIDE DEF Eqn
    <2>1. QED
      BY <1>2, <1>6
  <1>8. \A n \in 0..m : all[n] = IF n = 0 THEN base ELSE OneMore(n, all[n - 1])
    BY <1>7
  <1>9. all[0] = base /\ \A n \in 1..m : all[n] = OneMore(n, all[n - 1])
    BY <1>0, <1>8
  <1>10. Stays(all, m, D)
    BY <1>0, <1>1, <1>9 DEF Stays
  <1>11. \A n \in 0..m : all[n] \in D
    BY <1>0, <1>10, StaysIn
  <1>12. QED
    BY <1>9, <1>11 DEF m, D, base, all, OneMore

\* An insertion lands somewhere in the list.
LEMMA InsertedIn ==
    ASSUME NEW T, NEW s \in Seq(T), NEW u \in T
    PROVE  InsertAt(s, 1 + Ahead(s, u), u) \in Seq(T)
  <1> DEFINE ahead == {i \in DOMAIN s : ~Smaller(s[i], u)}
  <1>1. Ahead(s, u) \in Nat /\ Ahead(s, u) <= Len(s)
    <2>1. IsFiniteSet(DOMAIN s) /\ Cardinality(DOMAIN s) = Len(s)
      <3>1. DOMAIN s = 1..Len(s) /\ Len(s) \in Nat
        OBVIOUS
      <3>2. IsFiniteSet(1..Len(s)) /\ Cardinality(1..Len(s)) = Len(s)
        BY <3>1, FS_Interval
      <3>3. QED
        BY <3>1, <3>2
    <2> ahead \in SUBSET DOMAIN s
      OBVIOUS
    <2> HIDE DEF ahead
    <2>2. IsFiniteSet(ahead) /\ Cardinality(ahead) <= Len(s)
      BY <2>1, FS_Subset
    <2>3. QED
      BY <2>2, FS_CardinalityType DEF Ahead, ahead
  <1> DEFINE k == Ahead(s, u)
  <1> HIDE DEF k
  <1>2. k \in Nat /\ k <= Len(s)
    BY <1>1 DEF k
  <1>3. SubSeq(s, 1, k) \in Seq(T) /\ <<u>> \in Seq(T) /\ SubSeq(s, k + 1, Len(s)) \in Seq(T)
    BY <1>2
  <1>4. SubSeq(s, 1, k) \o <<u>> \o SubSeq(s, k + 1, Len(s)) \in Seq(T)
    BY <1>3
  <1>5. (1 + k) - 1 = k /\ 1 + k = k + 1
    BY <1>2
  <1>6. QED
    BY <1>4, <1>5 DEF InsertAt, k

\* The ranking of a list, prefix by prefix.
LEMMA RankedEquation ==
    ASSUME NEW T, NEW s \in Seq(T)
    PROVE  /\ RankedUpTo(s)[0] = <<>>
           /\ \A n \in 1..Len(s) :
                RankedUpTo(s)[n] = InsertAt(RankedUpTo(s)[n - 1], 1 + Ahead(RankedUpTo(s)[n - 1], s[n]), s[n])
           /\ \A n \in 0..Len(s) : RankedUpTo(s)[n] \in Seq(T)
  <1> DEFINE m == Len(s)
             D == Seq(T)
             base == <<>>
             all == RankedUpTo(s)
             OneMore(n, x) == InsertAt(x, 1 + Ahead(x, s[n]), s[n])
             step == [n \in 1..m |-> [x \in D |-> OneMore(n, x)]]
             Eqn(f) == f = [n \in 0..m |-> IF n = 0 THEN base ELSE OneMore(n, f[n - 1])]
  <1>0. base \in D /\ m \in Nat
    OBVIOUS
  <1>1. ASSUME NEW n \in 1..m, NEW x \in D PROVE OneMore(n, x) \in D
    <2>1. s[n] \in T
      OBVIOUS
    <2>2. QED
      BY <2>1, InsertedIn
  <1>2. all = CHOOSE g : Eqn(g)
    BY DEF RankedUpTo
  <1> HIDE DEF m, D, base, all, OneMore
  <1>3. StepsIn(D, m, step)
    <2>1. ASSUME NEW n \in 1..m PROVE [x \in D |-> OneMore(n, x)] \in [D -> D]
      BY <1>1
    <2>2. QED
      BY <2>1 DEF StepsIn
  <1>4. PICK f : IsRun(f, D, m, base, step)
    <2> HIDE DEF step
    <2>1. QED
      BY <1>0, <1>3, Recursion
  <1>5. ASSUME NEW n \in 1..m PROVE f[n] = OneMore(n, f[n - 1])
    <2>1. n - 1 \in 0..m
      BY <1>0
    <2>2. f[n - 1] \in D /\ f[n] = step[n][f[n - 1]]
      <3> HIDE DEF step
      <3>1. QED
        BY <1>4, <2>1 DEF IsRun
    <2>3. QED
      BY <2>2
  <1>6. Eqn(f)
    <2> DEFINE h == [n \in 0..m |-> IF n = 0 THEN base ELSE OneMore(n, f[n - 1])]
    <2>1. ASSUME NEW n \in 0..m PROVE f[n] = h[n]
      <3>1. n = 0 \/ n \in 1..m
        BY <1>0
      <3>2. f[0] = base
        BY <1>4 DEF IsRun
      <3>3. QED
        BY <1>5, <3>1, <3>2
    <2>2. f \in [0..m -> D]
      BY <1>4 DEF IsRun
    <2>3. f = h
      BY <2>1, <2>2
    <2>4. QED
      BY <2>3
  <1>7. Eqn(all)
    <2> HIDE DEF Eqn
    <2>1. QED
      BY <1>2, <1>6
  <1>8. \A n \in 0..m : all[n] = IF n = 0 THEN base ELSE OneMore(n, all[n - 1])
    BY <1>7
  <1>9. all[0] = base /\ \A n \in 1..m : all[n] = OneMore(n, all[n - 1])
    BY <1>0, <1>8
  <1>10. Stays(all, m, D)
    BY <1>0, <1>1, <1>9 DEF Stays
  <1>11. \A n \in 0..m : all[n] \in D
    BY <1>0, <1>10, StaysIn
  <1>12. QED
    BY <1>9, <1>11 DEF m, D, base, all, OneMore

\* What Only yields is in s and in S.
LEMMA OnlyIn ==
    ASSUME NEW T, NEW s \in Seq(T), NEW S
    PROVE  Only(s, S) \in Seq(T \cap S)
  <1> DEFINE D == Seq(T \cap S)
             f == OnlyUpTo(s, S)
  <1>1. f[0] \in D
    BY OnlyEquation
  <1>2. ASSUME NEW n \in 1..Len(s), f[n - 1] \in D PROVE f[n] \in D
    <2>1. f[n] = IF s[n] \in S THEN Append(f[n - 1], s[n]) ELSE f[n - 1]
      BY OnlyEquation
    <2>2. s[n] \in T
      OBVIOUS
    <2>3. ASSUME s[n] \in S PROVE Append(f[n - 1], s[n]) \in D
      BY <1>2, <2>2, <2>3, AppendProperties
    <2>4. QED
      BY <1>2, <2>1, <2>3
  <1> HIDE DEF D, f
  <1>3. Stays(f, Len(s), D) /\ Len(s) \in Nat
    BY <1>1, <1>2 DEF Stays
  <1>4. f[Len(s)] \in D
    BY <1>3, StaysIn
  <1>5. QED
    BY <1>4 DEF Only, D, f

\* Sums of integers are integers, and of naturals naturals.
LEMMA SumType ==
    ASSUME NEW s \in Seq(Int)
    PROVE  SumSeq(s) \in Int
  BY SumEquation DEF SumSeq

\* A sum of positive numbers is positive.
LEMMA SumPositive ==
    ASSUME NEW s \in Seq(Nat \ {0}), s # <<>>
    PROVE  SumSeq(s) \in Nat \ {0}
  <1> DEFINE f == SumUpTo(s)
             S == {n \in 0..Len(s) : f[n] \in Nat /\ (n > 0 => f[n] > 0)}
  <1>1. s \in Seq(Int) /\ Len(s) \in Nat \ {0}
    OBVIOUS
  <1>2. 0 \in S
    BY <1>1, SumEquation
  <1>3. ASSUME NEW n \in 1..Len(s), n - 1 \in S PROVE n \in S
    <2>1. f[n] = f[n - 1] + s[n] /\ s[n] \in Nat \ {0}
      BY <1>1, SumEquation
    <2>2. QED
      BY <1>3, <2>1
  <1>4. Inductive(S, Len(s))
    BY <1>2, <1>3 DEF Inductive
  <1>5. Len(s) \in S
    <2> HIDE DEF S
    <2>1. QED
      BY <1>1, <1>4, UpToInduction
  <1>6. QED
    BY <1>1, <1>5 DEF SumSeq

-----------------------------------------------------------------------------
(* Largest members.                                                        *)

\* A set of naturals that has a bound has a largest member.
LEMMA BoundedMax ==
    ASSUME NEW S, S \subseteq Nat, S # {}, NEW b \in Nat, \A x \in S : x <= b
    PROVE  \E x \in S : \A y \in S : y <= x
  <1> SUFFICES ASSUME \A x \in S : \E y \in S : ~(y <= x) PROVE FALSE
    OBVIOUS
  <1> DEFINE T == {n \in Nat : \E x \in S : x >= n}
  <1>1. 0 \in T
    <2>1. PICK x \in S : TRUE
      OBVIOUS
    <2>2. x \in Nat /\ x >= 0
      OBVIOUS
    <2>3. QED
      BY <2>2
  <1>2. ASSUME NEW n \in Nat, n \in T PROVE n + 1 \in T
    <2>1. PICK x \in S : x >= n
      BY <1>2
    <2>2. PICK y \in S : ~(y <= x)
      OBVIOUS
    <2>3. y >= n + 1
      BY <2>1, <2>2
    <2>4. QED
      BY <2>3
  <1>3. Nat \subseteq T
    <2> HIDE DEF T
    <2>1. QED
      BY <1>1, <1>2, NatSetInduction
  <1>4. b + 1 \in T
    <2> HIDE DEF T
    <2>1. b + 1 \in Nat
      OBVIOUS
    <2>2. QED
      BY <1>3, <2>1
  <1>5. QED
    BY <1>4

\* A set of naturals has a smallest member.
LEMMA NatMin ==
    ASSUME NEW S, S \subseteq Nat, S # {}
    PROVE  \E x \in S : \A y \in S : x <= y
  <1> SUFFICES ASSUME \A x \in S : \E y \in S : ~(x <= y) PROVE FALSE
    OBVIOUS
  <1> DEFINE T == {n \in Nat : \A x \in S : x >= n}
  <1>1. 0 \in T
    <2>1. \A x \in S : x \in Nat
      OBVIOUS
    <2>2. \A x \in S : x >= 0
      BY <2>1
    <2>3. QED
      BY <2>2
  <1>2. ASSUME NEW n \in Nat, n \in T PROVE n + 1 \in T
    <2>1. ASSUME NEW x \in S PROVE x >= n + 1
      <3>1. PICK y \in S : ~(x <= y)
        OBVIOUS
      <3>2. y >= n /\ x \in Nat /\ y \in Nat
        BY <1>2
      <3>3. QED
        BY <3>1, <3>2
    <2>2. QED
      BY <2>1
  <1>3. Nat \subseteq T
    <2> HIDE DEF T
    <2>1. QED
      BY <1>1, <1>2, NatSetInduction
  <1>4. PICK x \in S : TRUE
    OBVIOUS
  <1>5. x + 1 \in T
    <2> HIDE DEF T
    <2>1. x + 1 \in Nat
      OBVIOUS
    <2>2. QED
      BY <1>3, <2>1
  <1>6. QED
    BY <1>5

\* A list of naturals has a bound, and so has a finite set of them.
LEMMA ListBound ==
    ASSUME NEW m \in Nat, NEW f \in [1..m -> Nat]
    PROVE  \E b \in Nat : \A i \in 1..m : f[i] <= b
  <1> DEFINE S == {n \in 0..m : \E b \in Nat : \A i \in 1..n : f[i] <= b}
  <1>1. 0 \in S
    OBVIOUS
  <1>2. ASSUME NEW n \in 1..m, n - 1 \in S PROVE n \in S
    <2>1. PICK b \in Nat : \A i \in 1..(n - 1) : f[i] <= b
      BY <1>2
    <2> DEFINE c == IF f[n] <= b THEN b ELSE f[n]
    <2>2. f[n] \in Nat
      OBVIOUS
    <2>3. c \in Nat /\ b <= c /\ f[n] <= c
      BY <2>2
    <2> HIDE DEF c
    <2>4. ASSUME NEW i \in 1..n PROVE f[i] <= c
      <3>1. i = n \/ i \in 1..(n - 1)
        OBVIOUS
      <3>2. f[i] \in Nat
        OBVIOUS
      <3>3. QED
        BY <2>1, <2>3, <3>1, <3>2
    <2>5. QED
      BY <2>3, <2>4
  <1>3. m \in S
    <2> HIDE DEF S
    <2>1. Inductive(S, m)
      BY <1>1, <1>2 DEF Inductive
    <2>2. QED
      BY <2>1, UpToInduction
  <1>4. QED
    BY <1>3

\* A finite, nonempty set of numbers has a greatest.
LEMMA FiniteMax ==
    ASSUME NEW S, S \subseteq Nat, S # {}, IsFiniteSet(S)
    PROVE  \E x \in S : \A y \in S : y <= x
  <1>1. PICK m \in Nat : ExistsSurjection(1..m, S)
    BY FS_NatSurjection
  <1>2. PICK f \in [1..m -> S] : \A x \in S : \E i \in 1..m : f[i] = x
    BY <1>1 DEF ExistsSurjection, Surjection
  <1>3. f \in [1..m -> Nat]
    BY <1>2
  <1>4. PICK b \in Nat : \A i \in 1..m : f[i] <= b
    BY <1>3, ListBound
  <1>5. \A x \in S : x <= b
    BY <1>2, <1>4
  <1>6. QED
    BY <1>5, BoundedMax

\* Largest and Smallest pick members of the set.
LEMMA LargestIs ==
    ASSUME NEW S, S \subseteq Nat, S # {}, IsFiniteSet(S)
    PROVE  Largest(S) \in S /\ \A y \in S : y <= Largest(S)
  BY FiniteMax DEF Largest

\* A set of numbers that is not empty has a smallest.
LEMMA SmallestIs ==
    ASSUME NEW S, S \subseteq Nat, S # {}
    PROVE  Smallest(S) \in S /\ \A y \in S : Smallest(S) <= y
  BY NatMin DEF Smallest

\* The image of a finite set is finite.
LEMMA FiniteImage ==
    ASSUME NEW S, IsFiniteSet(S), NEW f
    PROVE  IsFiniteSet({f[x] : x \in S})
  <1> DEFINE T == {f[x] : x \in S}
             g == [x \in S |-> f[x]]
  <1>1. g \in Surjection(S, T)
    BY DEF Surjection
  <1> HIDE DEF g, T
  <1>2. IsFiniteSet(T)
    BY <1>1, FS_Surjection
  <1>3. QED
    BY <1>2 DEF T

-----------------------------------------------------------------------------
(* Orders, pools and quotes.                                               *)

\* What the assumptions say of an order, and of a token.
LEMMA OrderFacts ==
    ASSUME NEW u \in Uids
    PROVE  /\ Orders[u].sellToken \in DOMAIN Lower /\ Orders[u].buyToken \in DOMAIN Lower
           /\ Lower[Orders[u].sellToken] \in Tokens /\ Lower[Orders[u].buyToken] \in Tokens
           /\ Lower[Orders[u].sellToken] # Lower[Orders[u].buyToken]
           /\ Orders[u].sellAmount \in Nat \ {0} /\ Orders[u].buyAmount \in Nat \ {0}
           /\ Orders[u].kind \in {"sell", "buy"} /\ Orders[u].partial \in BOOLEAN
           /\ Orders[u].hooks \in BOOLEAN /\ Orders[u].source \in {"erc20", "internal"}
           /\ Orders[u].scheme \in {"eip712", "presign", "eip1271"}
           /\ Orders[u].signature \in {"plain", "prefixed"}
           /\ Target(Orders[u]) \in Nat \ {0}
  BY AuctionAssumption DEF Order, Tokens, Target

\* A token is its own spelling.
LEMMA TokenFacts ==
    ASSUME NEW t \in Tokens
    PROVE  t \in DOMAIN Lower /\ Lower[t] = t
  BY AuctionAssumption DEF Tokens

\* What a pool or a route returns is an amount.
LEMMA PoolOutNat ==
    ASSUME NEW c, IsChain(c), NEW hop, NEW amount \in Nat
    PROVE  PoolOut(c.pools, hop, amount) \in Nat
  <1>1. CASE hop \in DOMAIN c.pools
    <2>1. c.pools[hop][1] \in Nat \ {0} /\ c.pools[hop][2] \in Nat \ {0}
      BY <1>1 DEF IsChain
    <2> DEFINE x == c.pools[hop][1]
               y == c.pools[hop][2]
    <2> HIDE DEF x, y
    <2>2. x \in Nat \ {0} /\ y \in Nat \ {0}
      BY <2>1 DEF x, y
    <2>3. amount * y \in Nat /\ x + amount \in Nat \ {0}
      BY <2>2
    <2>4. (amount * y) \div (x + amount) \in Nat
      BY <2>3
    <2>5. QED
      BY <1>1, <2>4 DEF PoolOut, x, y
  <1>2. CASE hop \notin DOMAIN c.pools
    BY <1>2 DEF PoolOut
  <1>3. QED
    BY <1>1, <1>2

\* A route pays an amount.
LEMMA RouteOutNat ==
    ASSUME NEW c, IsChain(c), NEW route, NEW amount \in Nat
    PROVE  RouteOut(c.pools, route, amount) \in Nat
  BY PoolOutNat DEF RouteOut

\* The V3 candidates are routes, finitely many, and at least one.
LEMMA V3RoutesFacts ==
    ASSUME NEW sell \in Tokens, NEW buy \in Tokens
    PROVE  /\ V3Routes(sell, buy) \subseteq Seq(Hop)
           /\ V3Routes(sell, buy) # {}
           /\ IsFiniteSet(V3Routes(sell, buy))
  <1> DEFINE M == Intermediates \ {sell, buy}
             P == FeeTiers \X M
             direct == [f \in FeeTiers |-> << <<sell, buy, f>> >>]
             over == [p \in P |-> << <<sell, p[2], p[1]>>, <<p[2], buy, p[1]>> >>]
             One == {direct[f] : f \in FeeTiers}
             Two == {over[p] : p \in P}
  <1>1. IsFiniteSet(FeeTiers) /\ FeeTiers # {} /\ IsFiniteSet(Intermediates)
        /\ Intermediates \subseteq Tokens
    BY AuctionAssumption
  <1>2. IsFiniteSet(M)
    BY <1>1, FS_Difference
  <1>3. IsFiniteSet(P)
    <2> HIDE DEF M
    <2>1. QED
      BY <1>1, <1>2, FS_Product
  <1>4. IsFiniteSet(One)
    <2> HIDE DEF direct
    <2>1. QED
      BY <1>1, FiniteImage
  <1>5. IsFiniteSet(Two)
    <2> HIDE DEF over, P
    <2>1. QED
      BY <1>3, FiniteImage
  <1>6. One = {<< <<sell, buy, f>> >> : f \in FeeTiers}
    OBVIOUS
  <1>7. Two = {<< <<sell, m, f>>, <<m, buy, f>> >> : f \in FeeTiers, m \in M}
    <2>1. ASSUME NEW p \in P
          PROVE  \E f \in FeeTiers, m \in M : over[p] = << <<sell, m, f>>, <<m, buy, f>> >>
      <3>1. p[1] \in FeeTiers /\ p[2] \in M
        OBVIOUS
      <3>2. over[p] = << <<sell, p[2], p[1]>>, <<p[2], buy, p[1]>> >>
        OBVIOUS
      <3> HIDE DEF over
      <3>3. QED
        BY <3>1, <3>2
    <2>2. ASSUME NEW f \in FeeTiers, NEW m \in M
          PROVE  \E p \in P : over[p] = << <<sell, m, f>>, <<m, buy, f>> >>
      <3>1. <<f, m>> \in P /\ over[<<f, m>>] = << <<sell, m, f>>, <<m, buy, f>> >>
        OBVIOUS
      <3> HIDE DEF over, P
      <3>2. QED
        BY <3>1
    <2> HIDE DEF over, P
    <2>3. QED
      BY <2>1, <2>2
  <1>8. V3Routes(sell, buy) = One \cup Two
    BY <1>6, <1>7 DEF V3Routes
  <1>9. IsFiniteSet(One \cup Two)
    <2> HIDE DEF One, Two
    <2>1. QED
      BY <1>4, <1>5, FS_Union
  <1>10. One # {}
    BY <1>1
  <1>11. One \subseteq Seq(Hop)
    <2>1. ASSUME NEW f \in FeeTiers PROVE direct[f] \in Seq(Hop)
      <3>1. <<sell, buy, f>> \in Hop
        BY DEF Hop
      <3>2. QED
        BY <3>1
    <2>2. QED
      BY <2>1
  <1>12. Two \subseteq Seq(Hop)
    <2>1. ASSUME NEW f \in FeeTiers, NEW m \in M
          PROVE  << <<sell, m, f>>, <<m, buy, f>> >> \in Seq(Hop)
      <3>1. <<sell, m, f>> \in Hop /\ <<m, buy, f>> \in Hop
        BY <1>1 DEF Hop
      <3>2. QED
        BY <3>1
    <2>2. QED
      BY <1>7, <2>1
  <1>13. QED
    <2> HIDE DEF One, Two
    <2>1. QED
      BY <1>8, <1>9, <1>10, <1>11, <1>12

\* The best of some routes: NoQuote, or a route of theirs with something to
\* give, and none of them gives more.
LEMMA BestQuoteIs ==
    ASSUME NEW c, IsChain(c), NEW amount \in Nat, NEW routes, IsFiniteSet(routes)
    PROVE  LET q == BestQuote(c.pools, routes, amount)
           IN  /\ q.out \in Nat
               /\ q.out # 0 => q.route \in routes
               /\ \A r \in routes : RouteOut(c.pools, r, amount) <= q.out
  <1> DEFINE Out(r) == RouteOut(c.pools, r, amount)
             quotes == {[route |-> r, out |-> Out(r)] : r \in routes}
             useful == {q \in quotes : q.out > 0}
             outs == {Out(r) : r \in routes}
  <1>1. \A r \in routes : Out(r) \in Nat
    BY RouteOutNat
  <1> HIDE DEF Out
  <1>2. CASE useful = {}
    <2>1. BestQuote(c.pools, routes, amount) = NoQuote
      BY <1>2 DEF BestQuote, Out
    <2>2. ASSUME NEW r \in routes PROVE Out(r) <= 0
      <3>1. [route |-> r, out |-> Out(r)] \in quotes
        OBVIOUS
      <3>2. ~(Out(r) > 0)
        BY <1>2, <3>1
      <3>3. QED
        BY <1>1, <3>2
    <2>3. QED
      BY <2>1, <2>2 DEF NoQuote, Out
  <1>3. CASE useful # {}
    <2> DEFINE best == CHOOSE q \in useful : \A p \in useful : p.out <= q.out
    <2>1. IsFiniteSet(outs)
      <3> DEFINE g == [r \in routes |-> Out(r)]
      <3>1. IsFiniteSet({g[r] : r \in routes})
        <4> HIDE DEF g
        <4>1. QED
          BY FiniteImage
      <3>2. {g[r] : r \in routes} = outs
        OBVIOUS
      <3>3. QED
        BY <3>1, <3>2
    <2>2. outs \subseteq Nat /\ outs # {}
      BY <1>1, <1>3
    <2>3. PICK x \in outs : \A y \in outs : y <= x
      <3> HIDE DEF outs
      <3>1. QED
        BY <2>1, <2>2, FiniteMax
    <2>4. PICK r \in routes : x = Out(r)
      OBVIOUS
    <2> DEFINE q0 == [route |-> r, out |-> Out(r)]
    <2>5. \A p \in quotes : p.out \in outs
      OBVIOUS
    <2>6. x > 0
      <3>1. PICK p \in useful : TRUE
        BY <1>3
      <3>2. p.out > 0 /\ p.out <= x /\ p.out \in Nat /\ x \in Nat
        BY <2>2, <2>3, <2>5
      <3>3. QED
        BY <3>2
    <2>7. q0 \in useful /\ \A p \in useful : p.out <= q0.out
      BY <2>3, <2>4, <2>5, <2>6
    <2>8. best \in useful /\ \A p \in useful : p.out <= best.out
      <3> HIDE DEF useful, q0
      <3>1. QED
        BY <2>7
    <2>9. BestQuote(c.pools, routes, amount) = best
      BY <1>3 DEF BestQuote, Out
    <2> HIDE DEF best
    <2>10. best.out \in Nat /\ best.route \in routes
      BY <1>1, <2>8
    <2>11. ASSUME NEW k \in routes PROVE Out(k) <= best.out
      <3> DEFINE qk == [route |-> k, out |-> Out(k)]
      <3>1. qk \in quotes
        OBVIOUS
      <3>2. CASE Out(k) > 0
        <4>1. qk \in useful
          BY <3>1, <3>2
        <4>2. qk.out <= best.out
          BY <2>8, <4>1
        <4>3. QED
          BY <4>2
      <3>3. CASE ~(Out(k) > 0)
        BY <1>1, <2>10, <3>3
      <3>4. QED
        BY <3>2, <3>3
    <2>12. QED
      BY <2>9, <2>10, <2>11 DEF Out
  <1>4. QED
    BY <1>2, <1>3

\* The best of some tiers, 0 when none of them pays.
Offers(pools, a, b, amount, F) == {0} \cup {PoolOut(pools, <<a, b, f>>, amount) : f \in F}

\* The best tier offers what a pool of the hop does, and no pool offers more.
LEMMA BestTierIs ==
    ASSUME NEW c, IsChain(c), NEW a, NEW b, NEW amount \in Nat, NEW F, IsFiniteSet(F)
    PROVE  /\ Largest(Offers(c.pools, a, b, amount, F)) \in Nat
           /\ \A f \in F : PoolOut(c.pools, <<a, b, f>>, amount)
                              <= Largest(Offers(c.pools, a, b, amount, F))
           /\ \/ Largest(Offers(c.pools, a, b, amount, F)) = 0
              \/ \E f \in F : Largest(Offers(c.pools, a, b, amount, F))
                               = PoolOut(c.pools, <<a, b, f>>, amount)
  <1> DEFINE g == [f \in F |-> PoolOut(c.pools, <<a, b, f>>, amount)]
             S == {0} \cup {PoolOut(c.pools, <<a, b, f>>, amount) : f \in F}
  <1>1. IsFiniteSet({g[f] : f \in F})
    <2> HIDE DEF g
    <2>1. QED
      BY FiniteImage
  <1>2. {g[f] : f \in F} = {PoolOut(c.pools, <<a, b, f>>, amount) : f \in F}
    OBVIOUS
  <1>3. IsFiniteSet(S)
    BY <1>1, <1>2, FS_Singleton, FS_Union
  <1>4. S \subseteq Nat /\ S # {}
    <2>1. \A f \in F : PoolOut(c.pools, <<a, b, f>>, amount) \in Nat
      BY PoolOutNat
    <2>2. ASSUME NEW x \in S PROVE x \in Nat
      <3>1. x = 0 \/ \E f \in F : x = PoolOut(c.pools, <<a, b, f>>, amount)
        OBVIOUS
      <3> HIDE DEF S, g
      <3>2. CASE x = 0
        BY <3>2
      <3>3. CASE \E f \in F : x = PoolOut(c.pools, <<a, b, f>>, amount)
        BY <2>1, <3>3
      <3>4. QED
        BY <3>1, <3>2, <3>3
    <2>3. S \subseteq Nat
      <3> HIDE DEF S
      <3>1. QED
        BY <2>2
    <2>4. QED
      BY <2>3
  <1> HIDE DEF S
  <1>5. Largest(S) \in S /\ \A y \in S : y <= Largest(S)
    BY <1>3, <1>4, LargestIs
  <1>6. QED
    BY <1>4, <1>5 DEF S, Offers

\* The best hop is the best of the pools of a pair, or nothing.
LEMMA BestHopIs ==
    ASSUME NEW c, IsChain(c), NEW a, NEW b, NEW amount \in Nat
    PROVE  LET best == BestHop(c.pools, a, b, amount)
           IN  /\ best \in Nat
               /\ \A f \in FeeTiers \cup Factories : PoolOut(c.pools, <<a, b, f>>, amount) <= best
               /\ best # 0 =>
                    \E f \in FeeTiers \cup Factories : best = PoolOut(c.pools, <<a, b, f>>, amount)
  <1> DEFINE v3 == BestV3Quote(c.pools, a, b, amount)
             v2 == BestV2Quote(c.pools, a, b, amount)
             Out(f) == PoolOut(c.pools, <<a, b, f>>, amount)
             best == BestHop(c.pools, a, b, amount)
  <1>1. /\ v3 \in Nat /\ \A f \in FeeTiers : Out(f) <= v3
        /\ v3 = 0 \/ \E f \in FeeTiers : v3 = Out(f)
    <2>1. v3 = Largest(Offers(c.pools, a, b, amount, FeeTiers)) /\ IsFiniteSet(FeeTiers)
      BY AuctionAssumption DEF BestV3Quote, Offers
    <2> HIDE DEF v3
    <2>2. QED
      BY <2>1, BestTierIs
  <1>2. /\ v2 \in Nat /\ \A f \in Factories : Out(f) <= v2
        /\ v2 = 0 \/ \E f \in Factories : v2 = Out(f)
    <2>1. v2 = Largest(Offers(c.pools, a, b, amount, Factories)) /\ IsFiniteSet(Factories)
      BY AuctionAssumption DEF BestV2Quote, Offers
    <2> HIDE DEF v2
    <2>2. QED
      BY <2>1, BestTierIs
  <1>3. \A f : Out(f) \in Nat
    BY PoolOutNat
  <1>4. best = Largest({v3, v2})
    BY DEF BestHop
  <1> HIDE DEF v3, v2, Out, best
  <1>5. {v3, v2} \subseteq Nat /\ {v3, v2} # {} /\ IsFiniteSet({v3, v2})
    <2>1. {v3, v2} = {v3} \cup {v2}
      OBVIOUS
    <2>2. IsFiniteSet({v3}) /\ IsFiniteSet({v2})
      BY FS_Singleton
    <2>3. IsFiniteSet({v3, v2})
      BY <2>1, <2>2, FS_Union
    <2>4. QED
      BY <1>1, <1>2, <2>3
  <1>6. best \in {v3, v2} /\ v3 <= best /\ v2 <= best
    BY <1>4, <1>5, LargestIs
  <1>7. ASSUME NEW f \in FeeTiers \cup Factories PROVE Out(f) <= best
    <2>1. CASE f \in FeeTiers
      BY <1>1, <1>2, <1>3, <1>6, <2>1
    <2>2. CASE f \in Factories
      BY <1>1, <1>2, <1>3, <1>6, <2>2
    <2>3. QED
      BY <2>1, <2>2
  <1>8. best # 0 => \E f \in FeeTiers \cup Factories : best = Out(f)
    BY <1>1, <1>2, <1>6
  <1>9. QED
    BY <1>1, <1>2, <1>6, <1>7, <1>8 DEF best, Out

\* No hop and no two hops pay more than the best path.
LEMMA BestPathIs ==
    ASSUME NEW c, IsChain(c), NEW sell, NEW buy, NEW amount \in Nat
    PROVE  LET best == BestPath(c.pools, sell, buy, amount)
           IN  /\ best \in Nat
               /\ BestHop(c.pools, sell, buy, amount) <= best
               /\ \A m \in Intermediates \ {sell, buy} :
                    BestHop(c.pools, m, buy, BestHop(c.pools, sell, m, amount)) <= best
               /\ \/ best = BestHop(c.pools, sell, buy, amount)
                  \/ \E m \in Intermediates \ {sell, buy} :
                       best = BestHop(c.pools, m, buy, BestHop(c.pools, sell, m, amount))
  <1> DEFINE M == Intermediates \ {sell, buy}
             Over(m) == BestHop(c.pools, m, buy, BestHop(c.pools, sell, m, amount))
             direct == BestHop(c.pools, sell, buy, amount)
             g == [m \in M |-> Over(m)]
             S == {direct} \cup {Over(m) : m \in M}
  <1>1. IsFiniteSet(M)
    BY AuctionAssumption, FS_Difference
  <1>2. direct \in Nat /\ \A m \in M : Over(m) \in Nat
    BY BestHopIs
  <1> HIDE DEF Over, direct
  <1>3. IsFiniteSet({g[m] : m \in M})
    <2> HIDE DEF g, M
    <2>1. QED
      BY <1>1, FiniteImage
  <1>4. {g[m] : m \in M} = {Over(m) : m \in M}
    OBVIOUS
  <1>5. IsFiniteSet(S)
    BY <1>3, <1>4, FS_Singleton, FS_Union
  <1>6. S \subseteq Nat /\ S # {}
    BY <1>2
  <1>7. Largest(S) \in S /\ \A y \in S : y <= Largest(S)
    <2> HIDE DEF S
    <2>1. QED
      BY <1>5, <1>6, LargestIs
  <1>8. BestPath(c.pools, sell, buy, amount) = Largest(S)
    BY DEF BestPath, Over, direct
  <1>9. QED
    BY <1>6, <1>7, <1>8 DEF Over, direct

\* A pool pays no less for more, and no less for a part than that part of what
\* it pays for all: with whole amount all, part of it, and the rest of a path
\* reached with into for all and with less for part.
LEMMA PoolOutGrows ==
    ASSUME NEW c, IsChain(c), NEW hop, NEW a \in Nat, NEW b \in Nat, a <= b
    PROVE  PoolOut(c.pools, hop, a) <= PoolOut(c.pools, hop, b)
  <1>1. CASE hop \in DOMAIN c.pools
    <2> DEFINE x == c.pools[hop][1]
               y == c.pools[hop][2]
    <2>1. x \in Nat \ {0} /\ y \in Nat \ {0}
      BY <1>1 DEF IsChain
    <2>2. PoolOut(c.pools, hop, a) = (a * y) \div (x + a)
          /\ PoolOut(c.pools, hop, b) = (b * y) \div (x + b)
      BY <1>1 DEF PoolOut
    <2> HIDE DEF x, y
    <2> DEFINE k == (a * y) \div (x + a)
    <2>3. k \in Nat /\ k * (x + a) <= a * y
      <3> DEFINE p == a * y
                 q == x + a
      <3>1. p \in Nat /\ q \in Nat \ {0}
        BY <2>1
      <3> HIDE DEF p, q
      <3>2. p \div q \in Nat /\ (p \div q) * q <= p
        BY <3>1
      <3>3. QED
        BY <3>2 DEF p, q
    <2> HIDE DEF k
    <2>4. k <= y
      <3>1. k * (x + a) <= y * (x + a)
        BY <2>1, <2>3
      <3>2. QED
        BY <2>1, <2>3, <3>1
    <2>5. k * (x + b) <= b * y
      <3>1. k * (x + b) = k * (x + a) + k * (b - a)
        BY <2>1, <2>3
      <3>2. k * (b - a) <= y * (b - a)
        BY <2>1, <2>3, <2>4
      <3>3. b * y = a * y + y * (b - a)
        BY <2>1
      <3> DEFINE p1 == k * (x + b)
                 p2 == k * (x + a)
                 p3 == k * (b - a)
                 p4 == y * (b - a)
                 p5 == b * y
                 p6 == a * y
      <3>4. p1 \in Int /\ p2 \in Int /\ p3 \in Int /\ p4 \in Int /\ p5 \in Int /\ p6 \in Int
        BY <2>1, <2>3
      <3>5. p1 = p2 + p3 /\ p3 <= p4 /\ p5 = p6 + p4 /\ p2 <= p6
        BY <2>3, <3>1, <3>2, <3>3
      <3> HIDE DEF p1, p2, p3, p4, p5, p6
      <3>6. p1 <= p5
        BY <3>4, <3>5
      <3>7. QED
        BY <3>6 DEF p1, p5
    <2>6. k <= (b * y) \div (x + b)
      <3> DEFINE p == b * y
                 q == x + b
      <3>1. p \in Nat /\ q \in Nat \ {0} /\ k * q <= p
        BY <2>1, <2>5
      <3> HIDE DEF p, q
      <3>2. k <= p \div q
        BY <2>3, <3>1
      <3>3. QED
        BY <3>2 DEF p, q
    <2>7. QED
      BY <2>2, <2>6 DEF k
  <1>2. CASE hop \notin DOMAIN c.pools
    BY <1>2 DEF PoolOut
  <1>3. QED
    BY <1>1, <1>2

\* A smaller amount is exchanged at no worse a rate, but for the rounding.
LEMMA PoolOutScales ==
    ASSUME NEW c, IsChain(c), NEW hop, NEW all \in Nat \ {0}, NEW part \in Nat, part <= all,
           NEW into \in Nat, NEW less \in Nat, less * all >= part * into
    PROVE  (part * PoolOut(c.pools, hop, into)) \div all <= PoolOut(c.pools, hop, less)
  <1> DEFINE out == PoolOut(c.pools, hop, into)
             k == (part * out) \div all
  <1>1. out \in Nat /\ PoolOut(c.pools, hop, less) \in Nat
    BY PoolOutNat
  <1> HIDE DEF out
  <1>2. k \in Nat /\ k * all <= part * out
    <2> DEFINE p == part * out
    <2>1. p \in Nat
      BY <1>1
    <2> HIDE DEF p
    <2>2. p \div all \in Nat /\ (p \div all) * all <= p
      BY <2>1
    <2>3. QED
      BY <2>2 DEF p
  <1> HIDE DEF k
  <1>3. CASE less >= into
    <2>1. out <= PoolOut(c.pools, hop, less)
      BY <1>3, PoolOutGrows DEF out
    <2>2. k <= out
      <3>1. part * out <= all * out
        BY <1>1
      <3>2. k * all <= out * all
        <4> DEFINE p1 == k * all
                   p2 == part * out
                   p3 == all * out
        <4>1. p1 \in Int /\ p2 \in Int /\ p3 \in Int
          BY <1>1, <1>2
        <4>2. p1 <= p2 /\ p2 <= p3 /\ p3 = out * all
          BY <1>1, <1>2, <3>1
        <4> HIDE DEF p1, p2, p3
        <4>3. p1 <= p3
          BY <4>1, <4>2
        <4>4. QED
          BY <4>2, <4>3 DEF p1
      <3>3. QED
        BY <1>1, <1>2, <3>2
    <2> DEFINE more == PoolOut(c.pools, hop, less)
    <2> HIDE DEF more
    <2>3. k <= more
      BY <1>1, <1>2, <2>1, <2>2 DEF more
    <2>4. QED
      BY <2>3 DEF more, k, out
  <1>4. CASE less < into /\ hop \in DOMAIN c.pools
    <2> DEFINE x == c.pools[hop][1]
               y == c.pools[hop][2]
    <2>1. x \in Nat \ {0} /\ y \in Nat \ {0}
      BY <1>4 DEF IsChain
    <2>2. out = (into * y) \div (x + into) /\ PoolOut(c.pools, hop, less) = (less * y) \div (x + less)
      BY <1>4 DEF PoolOut, out
    <2> HIDE DEF x, y
    <2>3. out * (x + into) <= into * y
      <3> DEFINE p == into * y
                 q == x + into
      <3>1. p \in Nat /\ q \in Nat \ {0} /\ out = p \div q
        BY <2>1, <2>2
      <3> HIDE DEF p, q
      <3>2. out * q <= p
        BY <3>1
      <3>3. QED
        BY <3>2 DEF p, q
    <2> DEFINE d == x + into
    <2>4. d \in Nat \ {0}
      BY <2>1
    <2>5. (k * d) * all <= (less * y) * all
      <3>1. (k * all) * d <= (part * out) * d
        BY <1>1, <1>2, <2>4
      <3>2. part * (out * d) <= part * (into * y)
        <4> DEFINE p == out * d
                   q == into * y
        <4>1. p \in Nat /\ q \in Nat /\ p <= q
          BY <1>1, <2>1, <2>3, <2>4
        <4> HIDE DEF p, q
        <4>2. part * p <= part * q
          BY <4>1
        <4>3. QED
          BY <4>2 DEF p, q
      <3>3. (part * into) * y <= (less * all) * y
        <4> DEFINE p == part * into
                   q == less * all
        <4>1. p \in Nat /\ q \in Nat /\ p <= q
          OBVIOUS
        <4> HIDE DEF p, q
        <4>2. p * y <= q * y
          BY <2>1, <4>1
        <4>3. QED
          BY <4>2 DEF p, q
      <3> HIDE DEF d
      <3>4. (k * d) * all = (k * all) * d /\ (part * out) * d = part * (out * d)
            /\ part * (into * y) = (part * into) * y /\ (less * all) * y = (less * y) * all
        BY <1>1, <1>2, <2>1, <2>4
      <3> DEFINE a1 == (k * d) * all
                 a2 == (part * out) * d
                 a3 == (part * into) * y
                 a4 == (less * y) * all
      <3>5. a1 \in Int /\ a2 \in Int /\ a3 \in Int /\ a4 \in Int
        BY <1>1, <1>2, <2>1, <2>4
      <3>6. a1 <= a2 /\ a2 <= a3 /\ a3 <= a4
        BY <3>1, <3>2, <3>3, <3>4
      <3> HIDE DEF a1, a2, a3, a4
      <3>7. a1 <= a4
        BY <3>5, <3>6
      <3>8. QED
        BY <3>7 DEF a1, a4
    <2>6. k * d <= less * y
      <3> DEFINE p == k * d
                 q == less * y
      <3>1. p \in Nat /\ q \in Nat /\ p * all <= q * all
        BY <1>2, <2>1, <2>4, <2>5
      <3> HIDE DEF p, q
      <3>2. p <= q
        BY <3>1
      <3>3. QED
        BY <3>2 DEF p, q
    <2>7. k * (x + less) <= less * y
      <3>1. k * (x + less) <= k * d
        <4>1. x + less <= d /\ x + less \in Nat
          BY <1>4, <2>1
        <4> DEFINE e == x + less
        <4> HIDE DEF e, d
        <4>2. k * e <= k * d
          BY <1>2, <2>4, <4>1 DEF e
        <4>3. QED
          BY <4>2 DEF e
      <3> DEFINE p == k * (x + less)
                 q == k * d
                 r == less * y
      <3>2. p \in Int /\ q \in Int /\ r \in Int /\ p <= q /\ q <= r
        BY <1>2, <2>1, <2>4, <2>6, <3>1
      <3> HIDE DEF p, q, r
      <3>3. p <= r
        BY <3>2
      <3>4. QED
        BY <3>3 DEF p, r
    <2>8. k <= (less * y) \div (x + less)
      <3> DEFINE p == less * y
                 q == x + less
      <3>1. p \in Nat /\ q \in Nat \ {0} /\ k * q <= p
        BY <2>1, <2>7
      <3> HIDE DEF p, q
      <3>2. k <= p \div q
        BY <1>2, <3>1
      <3>3. QED
        BY <3>2 DEF p, q
    <2>9. QED
      BY <2>2, <2>8 DEF k, out
  <1>5. CASE hop \notin DOMAIN c.pools
    <2>1. PoolOut(c.pools, hop, into) = 0 /\ PoolOut(c.pools, hop, less) = 0
      BY <1>5 DEF PoolOut
    <2>2. (part * 0) \div all = 0
      OBVIOUS
    <2>3. QED
      BY <2>1, <2>2
  <1>6. QED
    BY <1>3, <1>4, <1>5

\* The same of the best of all tiers and factories.
LEMMA BestHopScales ==
    ASSUME NEW c, IsChain(c), NEW a, NEW b, NEW all \in Nat \ {0}, NEW part \in Nat, part <= all,
           NEW into \in Nat, NEW less \in Nat, less * all >= part * into
    PROVE  (part * BestHop(c.pools, a, b, into)) \div all <= BestHop(c.pools, a, b, less)
  <1> DEFINE best == BestHop(c.pools, a, b, into)
             then == BestHop(c.pools, a, b, less)
  <1>1. best # 0 => \E f \in FeeTiers \cup Factories : best = PoolOut(c.pools, <<a, b, f>>, into)
    BY BestHopIs
  <1>2. then \in Nat /\ \A f \in FeeTiers \cup Factories : PoolOut(c.pools, <<a, b, f>>, less) <= then
    BY BestHopIs
  <1> HIDE DEF best, then
  <1>3. CASE best = 0
    <2>1. (part * 0) \div all = 0
      OBVIOUS
    <2>2. (part * best) \div all <= then
      BY <1>2, <1>3, <2>1
    <2>3. QED
      BY <2>2 DEF best, then
  <1>4. ASSUME NEW f \in FeeTiers \cup Factories, best = PoolOut(c.pools, <<a, b, f>>, into)
        PROVE  (part * best) \div all <= then
    <2> DEFINE out == PoolOut(c.pools, <<a, b, f>>, less)
               k == (part * best) \div all
    <2>1. k <= out
      BY <1>4, PoolOutScales
    <2>2. out \in Nat /\ out <= then
      BY <1>2, PoolOutNat
    <2>3. k \in Int
      <3>1. best \in Nat
        BY BestHopIs DEF best
      <3> DEFINE p == part * best
      <3>2. p \in Nat
        BY <3>1
      <3> HIDE DEF p
      <3>3. p \div all \in Int
        BY <3>2
      <3>4. QED
        BY <3>3 DEF p
    <2> HIDE DEF k, out
    <2>4. k <= then
      BY <1>2, <2>1, <2>2, <2>3
    <2>5. QED
      BY <2>4 DEF k
  <1>5. QED
    BY <1>1, <1>3, <1>4 DEF best, then

\* The best hop pays no less for more.
LEMMA BestHopGrows ==
    ASSUME NEW c, IsChain(c), NEW a, NEW b, NEW f \in FeeTiers, NEW n \in Nat, NEW m \in Nat, n <= m
    PROVE  PoolOut(c.pools, <<a, b, f>>, n) <= BestHop(c.pools, a, b, m)
  <1> DEFINE one == PoolOut(c.pools, <<a, b, f>>, n)
             two == PoolOut(c.pools, <<a, b, f>>, m)
             best == BestHop(c.pools, a, b, m)
  <1>1. one <= two
    BY PoolOutGrows
  <1>2. two <= best /\ best \in Nat
    BY BestHopIs
  <1>3. one \in Nat /\ two \in Nat
    BY PoolOutNat
  <1> HIDE DEF one, two, best
  <1>4. one <= best
    BY <1>1, <1>2, <1>3
  <1>5. QED
    BY <1>4 DEF one, best

\* No V3 candidate beats the best path.
LEMMA PathBeatsV3 ==
    ASSUME NEW c, IsChain(c), NEW sell \in Tokens, NEW buy \in Tokens, NEW n \in Nat,
           NEW r \in V3Routes(sell, buy)
    PROVE  RouteOut(c.pools, r, n) <= BestPath(c.pools, sell, buy, n)
  <1> DEFINE best == BestPath(c.pools, sell, buy, n)
             direct == BestHop(c.pools, sell, buy, n)
  <1>0. direct \in Nat /\ best \in Nat /\ direct <= best
    BY BestHopIs, BestPathIs
  <1>1. ASSUME NEW f \in FeeTiers, r = << <<sell, buy, f>> >> PROVE RouteOut(c.pools, r, n) <= best
    <2>1. RouteOut(c.pools, r, n) = PoolOut(c.pools, <<sell, buy, f>>, n)
      BY <1>1 DEF RouteOut
    <2> DEFINE out == PoolOut(c.pools, <<sell, buy, f>>, n)
    <2>2. out <= direct /\ out \in Nat
      BY BestHopIs, PoolOutNat
    <2> HIDE DEF out, direct, best
    <2>3. out <= best
      BY <1>0, <2>2
    <2>4. QED
      BY <2>1, <2>3 DEF out
  <1>2. ASSUME NEW f \in FeeTiers, NEW m \in Intermediates \ {sell, buy},
               r = << <<sell, m, f>>, <<m, buy, f>> >>
        PROVE  RouteOut(c.pools, r, n) <= best
    <2> DEFINE mid == PoolOut(c.pools, <<sell, m, f>>, n)
               over == BestHop(c.pools, sell, m, n)
               out == PoolOut(c.pools, <<m, buy, f>>, mid)
               through == BestHop(c.pools, m, buy, over)
    <2>1. RouteOut(c.pools, r, n) = out
      BY <1>2 DEF RouteOut
    <2>2. mid \in Nat /\ over \in Nat /\ mid <= over
      BY PoolOutNat, BestHopIs
    <2>3. through <= best
      BY BestPathIs
    <2>4. out <= through /\ out \in Nat /\ through \in Nat
      <3> HIDE DEF mid, over
      <3>1. QED
        BY <2>2, BestHopGrows, PoolOutNat, BestHopIs
    <2> HIDE DEF out, through, best
    <2>5. out <= best
      BY <1>0, <2>3, <2>4
    <2>6. QED
      BY <2>1, <2>5
  <1>3. QED
    BY <1>1, <1>2 DEF V3Routes

-----------------------------------------------------------------------------
(* Solutions.                                                              *)

\* What the builders return.
Solutions ==
    {s \in [prices : UNION {[S -> Nat \ {0}] : S \in SUBSET DOMAIN Lower},
             trades : Seq(Trade), swaps : Seq(Swap)] : IsSolution(s)}

\* The empty solution is a solution.
LEMMA NoSolutionIn == NoSolution \in Solutions
  <1> DEFINE p == [t \in {} |-> 0]
  <1>1. p \in [{} -> Nat \ {0}] /\ DOMAIN p = {}
    OBVIOUS
  <1>2. p \in UNION {[S -> Nat \ {0}] : S \in SUBSET DOMAIN Lower}
    <2> HIDE DEF p
    <2>1. {} \in SUBSET DOMAIN Lower
      OBVIOUS
    <2>2. QED
      BY <1>1, <2>1
  <1>3. NoSolution = [prices |-> p, trades |-> <<>>, swaps |-> <<>>]
    BY DEF NoSolution
  <1> HIDE DEF p
  <1>4. IsSolution(NoSolution)
    BY <1>1, <1>3 DEF IsSolution
  <1>5. QED
    BY <1>2, <1>3, <1>4 DEF Solutions

\* What a solution with these parts must satisfy.
LEMMA SolutionOf ==
    ASSUME NEW D \in SUBSET DOMAIN Lower, NEW p \in [D -> Nat \ {0}],
           NEW trades \in Seq(Trade), NEW swaps \in Seq(Swap),
           \A i \in DOMAIN trades :
              LET o == Orders[trades[i].uid]
              IN  /\ trades[i].executed <= Target(o)
                  /\ {Lower[o.sellToken], Lower[o.buyToken]} \subseteq {Lower[t] : t \in D}
    PROVE  [prices |-> p, trades |-> trades, swaps |-> swaps] \in Solutions
  <1> DEFINE s == [prices |-> p, trades |-> trades, swaps |-> swaps]
  <1>1. s.prices = p /\ s.trades = trades /\ s.swaps = swaps /\ DOMAIN p = D
    OBVIOUS
  <1>2. p \in UNION {[S -> Nat \ {0}] : S \in SUBSET DOMAIN Lower}
    OBVIOUS
  <1>3. s \in [prices : UNION {[S -> Nat \ {0}] : S \in SUBSET DOMAIN Lower},
               trades : Seq(Trade), swaps : Seq(Swap)]
    BY <1>2
  <1> HIDE DEF s
  <1>4. IsSolution(s)
    BY <1>1 DEF IsSolution
  <1>5. QED
    BY <1>3, <1>4 DEF Solutions, s

\* The parts of a solution have their types.
LEMMA SolutionParts ==
    ASSUME NEW s \in Solutions
    PROVE  /\ s = [prices |-> s.prices, trades |-> s.trades, swaps |-> s.swaps]
           /\ s.prices \in [DOMAIN s.prices -> Nat \ {0}] /\ DOMAIN s.prices \in SUBSET DOMAIN Lower
           /\ s.trades \in Seq(Trade) /\ s.swaps \in Seq(Swap)
           /\ IsSolution(s)
  <1>1. s = [prices |-> s.prices, trades |-> s.trades, swaps |-> s.swaps]
    BY DEF Solutions
  <1>2. IsSolution(s)
    BY DEF Solutions
  <1>3. QED
    BY <1>1, <1>2 DEF IsSolution

\* These trades sell one token for the other, no more than they may.
Exchange(trades, sell, buy) ==
    /\ trades \in Seq(Trade)
    /\ \A i \in DOMAIN trades :
          /\ Lower[Orders[trades[i].uid].sellToken] = Lower[sell]
          /\ Lower[Orders[trades[i].uid].buyToken] = Lower[buy]
          /\ trades[i].executed <= Target(Orders[trades[i].uid])

\* A quote that has something to give.
Gives(q) == q.out \in Nat \ {0} /\ q.route \in Seq(Hop)

\* A fill of a solution is a solution.
LEMMA FillIn ==
    ASSUME NEW s \in Solutions, NEW sell \in DOMAIN Lower, NEW buy \in DOMAIN Lower,
           NEW sold \in Nat \ {0}, NEW q, Gives(q), NEW trades, Exchange(trades, sell, buy)
    PROVE  Fill(s, sell, buy, sold, q, trades) \in Solutions
  <1> DEFINE p == With(With(s.prices, sell, q.out), buy, sold)
             D == DOMAIN s.prices \cup {sell, buy}
             all == s.trades \o trades
             swap == [sell |-> Lower[sell], buy |-> Lower[buy], in |-> sold, out |-> q.out,
                      route |-> q.route]
             swaps == IF q.route = <<>> THEN s.swaps ELSE Append(s.swaps, swap)
  <1>1. D \in SUBSET DOMAIN Lower
    BY SolutionParts
  <1>2. p \in [D -> Nat \ {0}]
    <2>1. s.prices \in [DOMAIN s.prices -> Nat \ {0}]
      BY SolutionParts
    <2>2. p = [t \in D |-> IF t = buy THEN sold ELSE IF t = sell THEN q.out ELSE s.prices[t]]
      BY DEF With
    <2>3. QED
      BY <2>1, <2>2 DEF Gives
  <1>3. swaps \in Seq(Swap)
    <2>1. swap \in Swap
      BY DEF Swap, Tokens, Gives
    <2> HIDE DEF swap
    <2>2. Append(s.swaps, swap) \in Seq(Swap)
      BY <2>1, SolutionParts, AppendProperties
    <2>3. QED
      BY <2>2, SolutionParts
  <1>4. s.trades \in Seq(Trade) /\ trades \in Seq(Trade)
    BY SolutionParts DEF Exchange
  <1>5. all \in Seq(Trade) /\ Len(all) = Len(s.trades) + Len(trades)
        /\ \A i \in 1..Len(all) : all[i] = IF i <= Len(s.trades) THEN s.trades[i]
                                            ELSE trades[i - Len(s.trades)]
    BY <1>4, ConcatProperties
  <1>6. ASSUME NEW i \in DOMAIN all
        PROVE  LET o == Orders[all[i].uid]
               IN  /\ all[i].executed <= Target(o)
                   /\ {Lower[o.sellToken], Lower[o.buyToken]} \subseteq {Lower[t] : t \in D}
    <2> HIDE DEF all
    <2>1. i \in 1..Len(all) /\ Len(s.trades) \in Nat /\ Len(trades) \in Nat
      BY <1>4, <1>5
    <2>2. CASE i <= Len(s.trades)
      <3>1. i \in DOMAIN s.trades /\ all[i] = s.trades[i]
        BY <1>4, <1>5, <2>1, <2>2
      <3>2. QED
        BY <3>1, SolutionParts DEF IsSolution
    <2>3. CASE ~(i <= Len(s.trades))
      <3>1. i - Len(s.trades) \in DOMAIN trades /\ all[i] = trades[i - Len(s.trades)]
        BY <1>4, <1>5, <2>1, <2>3
      <3>2. QED
        BY <3>1 DEF Exchange
    <2>4. QED
      BY <2>2, <2>3
  <1> HIDE DEF p, D, all, swaps
  <1>7. [prices |-> p, trades |-> all, swaps |-> swaps] \in Solutions
    BY <1>1, <1>2, <1>3, <1>5, <1>6, SolutionOf
  <1>8. QED
    BY <1>7 DEF Fill, p, all, swaps

\* A whole sell of an order.
LEMMA WholeIs ==
    ASSUME NEW u \in Uids, Orders[u].kind = "sell"
    PROVE  Exchange(WholeOf(u), Orders[u].sellToken, Orders[u].buyToken)
  <1>1. WholeOf(u) = <<[uid |-> u, executed |-> Orders[u].sellAmount]>>
    BY DEF WholeOf
  <1>2. [uid |-> u, executed |-> Orders[u].sellAmount] \in Trade
    BY OrderFacts DEF Trade
  <1>3. Target(Orders[u]) = Orders[u].sellAmount /\ Orders[u].sellAmount <= Orders[u].sellAmount
    BY OrderFacts DEF Target
  <1>4. QED
    BY <1>1, <1>2, <1>3 DEF Exchange

\* So is each step of the three builders.
LEMMA LegacyFillIn ==
    ASSUME NEW c, IsChain(c), NEW s \in Solutions, NEW u \in Uids, NEW lost
    PROVE  LegacyFill(s, u, c.pools, lost) \in Solutions
  <1> DEFINE o == Orders[u]
             out == BestPath(c.pools, Lower[o.sellToken], Lower[o.buyToken], o.sellAmount)
             q == [route |-> <<>>, out |-> out]
             skip == o.kind = "buy" \/ u \in lost \/ out = 0 \/ out < o.buyAmount
  <1>1. out \in Nat
    BY OrderFacts, BestPathIs
  <1>2. LegacyFill(s, u, c.pools, lost) =
           IF skip THEN s ELSE Fill(s, o.sellToken, o.buyToken, o.sellAmount, q, WholeOf(u))
    BY DEF LegacyFill
  <1> HIDE DEF out
  <1>3. ASSUME ~skip
        PROVE  Fill(s, o.sellToken, o.buyToken, o.sellAmount, q, WholeOf(u)) \in Solutions
    <2>1. Gives(q)
      BY <1>1, <1>3 DEF Gives
    <2>2. Orders[u].kind = "sell"
      BY <1>3, OrderFacts
    <2>3. Exchange(WholeOf(u), o.sellToken, o.buyToken)
      BY <2>2, WholeIs
    <2> HIDE DEF q
    <2>4. QED
      BY <2>1, <2>3, OrderFacts, FillIn
  <1>4. QED
    BY <1>2, <1>3

\* The quote of one order: nothing, or a route of the candidates; with no call
\* lost none of them pays more.
LEMMA SoloQuoteIs ==
    ASSUME NEW c, IsChain(c), NEW u \in Uids, NEW lost
    PROVE  LET q == SoloQuote(u, c.pools, lost)
               o == Orders[u]
           IN  /\ q.out \in Nat
               /\ q.out # 0 => Gives(q)
               /\ lost = {} => \A r \in V3Routes(Lower[o.sellToken], Lower[o.buyToken]) :
                                 RouteOut(c.pools, r, o.sellAmount) <= q.out
  <1> DEFINE o == Orders[u]
             All == V3Routes(Lower[o.sellToken], Lower[o.buyToken])
             Rs(what) == {r \in All : <<r[1][3], what>> \notin lost}
             whole == BestQuote(c.pools, Rs("whole"), o.sellAmount)
             part == IF o.partial THEN BestQuote(c.pools, Rs("fraction"), (3 * o.sellAmount) \div 4)
                     ELSE NoQuote
             q == SoloQuote(u, c.pools, lost)
  <1>1. All \subseteq Seq(Hop) /\ IsFiniteSet(All)
    BY OrderFacts, V3RoutesFacts
  <1> HIDE DEF All
  <1>2. ASSUME NEW what PROVE IsFiniteSet(Rs(what)) /\ Rs(what) \subseteq Seq(Hop)
    <2>1. Rs(what) \in SUBSET All
      OBVIOUS
    <2> HIDE DEF Rs
    <2>2. QED
      BY <1>1, <2>1, FS_Subset
  <1>3. o.sellAmount \in Nat /\ (3 * o.sellAmount) \div 4 \in Nat
    <2>1. o.sellAmount \in Nat
      BY OrderFacts
    <2> HIDE DEF o
    <2>2. QED
      BY <2>1
  <1>4. /\ whole.out \in Nat
        /\ whole.out # 0 => whole.route \in Rs("whole")
        /\ \A r \in Rs("whole") : RouteOut(c.pools, r, o.sellAmount) <= whole.out
    <2> HIDE DEF Rs, o
    <2>1. QED
      BY <1>2, <1>3, BestQuoteIs
  <1>5. part.out \in Nat /\ (part.out # 0 => part.route \in Rs("fraction"))
    <2> HIDE DEF Rs, o
    <2>1. QED
      BY <1>2, <1>3, BestQuoteIs DEF NoQuote
  <1>6. q = IF part.out > whole.out THEN part ELSE whole
    BY DEF SoloQuote, All
  <1> HIDE DEF q, part, whole
  <1>7. q.out \in Nat /\ whole.out <= q.out
    BY <1>4, <1>5, <1>6
  <1>8. q.out # 0 => Gives(q)
    <2> HIDE DEF Rs
    <2>1. QED
      BY <1>2, <1>4, <1>5, <1>6, <1>7 DEF Gives
  <1>9. ASSUME lost = {}, NEW r \in All PROVE RouteOut(c.pools, r, o.sellAmount) <= q.out
    <2>1. r \in Rs("whole")
      BY <1>9
    <2>2. RouteOut(c.pools, r, o.sellAmount) \in Nat
      BY <1>3, RouteOutNat
    <2> HIDE DEF Rs, o
    <2>3. RouteOut(c.pools, r, o.sellAmount) <= whole.out
      BY <1>4, <2>1
    <2> DEFINE out == RouteOut(c.pools, r, o.sellAmount)
    <2> HIDE DEF out
    <2>4. out \in Nat /\ out <= whole.out
      BY <2>2, <2>3 DEF out
    <2>5. out <= q.out
      BY <1>4, <1>7, <2>4
    <2>6. QED
      BY <2>5 DEF out
  <1>10. QED
    BY <1>7, <1>8, <1>9 DEF q, All

\* A single order that gets a quote keeps the solution one.
LEMMA FillSoloIn ==
    ASSUME NEW c, IsChain(c), NEW s \in Solutions, NEW u \in Uids, NEW lost
    PROVE  FillSolo(s, u, c.pools, lost) \in Solutions
  <1> DEFINE o == Orders[u]
             q == SoloQuote(u, c.pools, lost)
             filled == \E i \in DOMAIN s.trades : s.trades[i].uid = u
             skip == filled \/ o.kind = "buy" \/ q.out = 0 \/ q.out < o.buyAmount
  <1>1. FillSolo(s, u, c.pools, lost) =
           IF skip THEN s ELSE Fill(s, o.sellToken, o.buyToken, o.sellAmount, q, WholeOf(u))
    BY DEF FillSolo
  <1>2. q.out # 0 => Gives(q)
    BY SoloQuoteIs
  <1> HIDE DEF q, filled
  <1>3. ASSUME ~skip
        PROVE  Fill(s, o.sellToken, o.buyToken, o.sellAmount, q, WholeOf(u)) \in Solutions
    <2>1. Gives(q)
      BY <1>2, <1>3
    <2>2. Orders[u].kind = "sell"
      BY <1>3, OrderFacts
    <2>3. Exchange(WholeOf(u), o.sellToken, o.buyToken)
      BY <2>2, WholeIs
    <2>4. QED
      BY <2>1, <2>3, OrderFacts, FillIn
  <1>4. QED
    BY <1>1, <1>3

\* A group has members, and all of them sell the same token for the same.
IsGroup(group) ==
    /\ group \in Seq(Uids) /\ group # <<>>
    /\ \A i \in DOMAIN group : Groupable(group[i]) /\ PairOf(group[i]) = PairOf(group[1])

\* A group has orders, all of its pair.
LEMMA GroupIs ==
    ASSUME NEW us \in Seq(Uids), NEW n \in 1..Len(us), OpensGroup(us, n)
    PROVE  IsGroup(Group(us, PairOf(us[n]))) /\ PairOf(Group(us, PairOf(us[n]))[1]) = PairOf(us[n])
  <1> DEFINE S == {u \in ToSet(us) : Groupable(u) /\ PairOf(u) = PairOf(us[n])}
             group == Only(us, S)
  <1>1. group = Group(us, PairOf(us[n]))
    BY DEF Group
  <1>2. group \in Seq(Uids \cap S)
    <2> HIDE DEF S
    <2>1. QED
      BY OnlyIn
  <1>3. group # <<>>
    <2>1. Len(group) >= MinGroup /\ MinGroup \in Nat \ {0}
      BY <1>1, GroupAssumption DEF OpensGroup
    <2> HIDE DEF group
    <2>2. QED
      BY <1>2, <2>1
  <1> HIDE DEF group
  <1>4. \A i \in DOMAIN group : group[i] \in Uids /\ group[i] \in S
    <2> HIDE DEF S
    <2>1. QED
      BY <1>2
  <1>5. 1 \in DOMAIN group /\ group \in Seq(Uids)
    <2> HIDE DEF S
    <2>1. QED
      BY <1>2, <1>3
  <1>6. \A i \in DOMAIN group : Groupable(group[i]) /\ PairOf(group[i]) = PairOf(us[n])
    BY <1>4
  <1>7. QED
    <2> HIDE DEF S
    <2>1. IsGroup(group) /\ PairOf(group[1]) = PairOf(us[n])
      BY <1>3, <1>5, <1>6 DEF IsGroup
    <2>2. QED
      BY <1>1, <2>1

\* What a group sells together.
LEMMA CombinedIs ==
    ASSUME NEW group, IsGroup(group)
    PROVE  Combined(group) \in Nat \ {0}
  <1> DEFINE s == [i \in DOMAIN group |-> Orders[group[i]].sellAmount]
  <1>1. s \in Seq(Nat \ {0}) /\ s # <<>>
    <2>1. Len(group) \in Nat \ {0} /\ DOMAIN group = 1..Len(group)
          /\ \A i \in DOMAIN group : group[i] \in Uids
      BY DEF IsGroup
    <2>2. \A i \in DOMAIN group : Orders[group[i]].sellAmount \in Nat \ {0}
      BY <2>1, OrderFacts
    <2>3. QED
      BY <2>1, <2>2
  <1> HIDE DEF s
  <1>2. SumSeq(s) \in Nat \ {0}
    BY <1>1, SumPositive
  <1>3. QED
    BY <1>2 DEF Combined, s

\* A group that gets a quote keeps the solution one.
LEMMA FillGroupIn ==
    ASSUME NEW c, IsChain(c), NEW s \in Solutions, NEW group, IsGroup(group), NEW tiers
    PROVE  FillGroup(s, group, c.pools, tiers) \in Solutions
  <1> DEFINE pair == PairOf(Head(group))
             All == V3Routes(pair[1], pair[2])
             routes == {r \in All : r[1][3] \in tiers}
             sold == Combined(group)
             best == BestQuote(c.pools, routes, sold)
             trades == [i \in DOMAIN group |-> WholeOf(group[i])[1]]
             skip == best.out = 0 \/ ~AllLimitsSatisfied(group, sold, best.out)
  <1>1. FillGroup(s, group, c.pools, tiers) =
           IF skip THEN s ELSE Fill(s, pair[1], pair[2], sold, best, trades)
    BY DEF FillGroup
  <1>2. sold \in Nat \ {0}
    BY CombinedIs
  <1> HIDE DEF sold
  <1>3. /\ Head(group) = group[1] /\ Len(group) \in Nat /\ DOMAIN group = 1..Len(group)
        /\ \A i \in DOMAIN group : group[i] \in Uids
        /\ 1 \in DOMAIN group
    BY DEF IsGroup
  <1>4. pair[1] \in Tokens /\ pair[2] \in Tokens
    BY <1>3, OrderFacts DEF PairOf
  <1>5. pair[1] \in DOMAIN Lower /\ pair[2] \in DOMAIN Lower
        /\ Lower[pair[1]] = pair[1] /\ Lower[pair[2]] = pair[2]
    BY <1>4, TokenFacts
  <1>6. Exchange(trades, pair[1], pair[2])
    <2>1. ASSUME NEW i \in DOMAIN group
          PROVE  /\ trades[i] = [uid |-> group[i], executed |-> Orders[group[i]].sellAmount]
                 /\ trades[i] \in Trade
                 /\ trades[i].executed <= Target(Orders[trades[i].uid])
                 /\ Lower[Orders[trades[i].uid].sellToken] = Lower[pair[1]]
                 /\ Lower[Orders[trades[i].uid].buyToken] = Lower[pair[2]]
      <3>1. trades[i] = [uid |-> group[i], executed |-> Orders[group[i]].sellAmount]
        BY DEF WholeOf
      <3> HIDE DEF trades
      <3>2. group[i] \in Uids /\ Groupable(group[i]) /\ PairOf(group[i]) = pair
        BY <1>3 DEF IsGroup
      <3>3. trades[i] \in Trade /\ trades[i].uid = group[i]
        BY <3>1, <3>2, OrderFacts DEF Trade
      <3>4. trades[i].executed <= Target(Orders[group[i]])
        BY <3>1, <3>2, OrderFacts DEF Target, Groupable
      <3>5. Lower[Orders[group[i]].sellToken] = pair[1] /\ Lower[Orders[group[i]].buyToken] = pair[2]
        BY <3>2 DEF PairOf
      <3>6. QED
        BY <1>5, <3>1, <3>3, <3>4, <3>5
    <2>2. trades \in Seq(Trade) /\ DOMAIN trades = DOMAIN group
      <3>1. DOMAIN trades = 1..Len(group) /\ trades = [i \in 1..Len(group) |-> trades[i]]
        BY <1>3
      <3>2. \A i \in 1..Len(group) : trades[i] \in Trade
        BY <1>3, <2>1
      <3> HIDE DEF trades
      <3>3. QED
        BY <1>3, <3>1, <3>2
    <2> HIDE DEF trades, pair
    <2>3. QED
      BY <2>1, <2>2 DEF Exchange
  <1> HIDE DEF pair, trades
  <1>7. best.out \in Nat /\ (best.out # 0 => best.route \in routes)
    <2>1. IsFiniteSet(All)
      BY <1>4, V3RoutesFacts
    <2>2. routes \in SUBSET All
      OBVIOUS
    <2> HIDE DEF routes, All
    <2>3. IsFiniteSet(routes)
      BY <2>1, <2>2, FS_Subset
    <2>4. QED
      BY <1>2, <2>3, BestQuoteIs
  <1> HIDE DEF best
  <1>8. ASSUME ~skip PROVE Gives(best)
    BY <1>4, <1>7, <1>8, V3RoutesFacts DEF Gives
  <1>9. ASSUME ~skip PROVE Fill(s, pair[1], pair[2], sold, best, trades) \in Solutions
    BY <1>2, <1>5, <1>6, <1>8, <1>9, FillIn
  <1>10. QED
    BY <1>1, <1>9

\* The legacy path, order by order.
LEMMA LegacyEquation ==
    ASSUME NEW c, IsChain(c), NEW us \in Seq(Uids), NEW lost
    PROVE  /\ LegacyFills(us, c.pools, lost)[0] = NoSolution
           /\ \A n \in 1..Len(us) :
                LegacyFills(us, c.pools, lost)[n]
                  = LegacyFill(LegacyFills(us, c.pools, lost)[n - 1], us[n], c.pools, lost)
           /\ \A n \in 0..Len(us) : LegacyFills(us, c.pools, lost)[n] \in Solutions
  <1> DEFINE m == Len(us)
             D == Solutions
             base == NoSolution
             all == LegacyFills(us, c.pools, lost)
             OneMore(n, x) == LegacyFill(x, us[n], c.pools, lost)
             step == [n \in 1..m |-> [x \in D |-> OneMore(n, x)]]
             Eqn(f) == f = [n \in 0..m |-> IF n = 0 THEN base ELSE OneMore(n, f[n - 1])]
  <1>0. base \in D /\ m \in Nat
    BY NoSolutionIn
  <1>1. ASSUME NEW n \in 1..m, NEW x \in D PROVE OneMore(n, x) \in D
    <2>1. us[n] \in Uids
      OBVIOUS
    <2>2. QED
      BY <2>1, LegacyFillIn
  <1>2. all = CHOOSE g : Eqn(g)
    BY DEF LegacyFills
  <1> HIDE DEF m, D, base, all, OneMore
  <1>3. StepsIn(D, m, step)
    <2>1. ASSUME NEW n \in 1..m PROVE [x \in D |-> OneMore(n, x)] \in [D -> D]
      BY <1>1
    <2>2. QED
      BY <2>1 DEF StepsIn
  <1>4. PICK f : IsRun(f, D, m, base, step)
    <2> HIDE DEF step
    <2>1. QED
      BY <1>0, <1>3, Recursion
  <1>5. ASSUME NEW n \in 1..m PROVE f[n] = OneMore(n, f[n - 1])
    <2>1. n - 1 \in 0..m
      BY <1>0
    <2>2. f[n - 1] \in D /\ f[n] = step[n][f[n - 1]]
      <3> HIDE DEF step
      <3>1. QED
        BY <1>4, <2>1 DEF IsRun
    <2>3. QED
      BY <2>2
  <1>6. Eqn(f)
    <2> DEFINE h == [n \in 0..m |-> IF n = 0 THEN base ELSE OneMore(n, f[n - 1])]
    <2>1. ASSUME NEW n \in 0..m PROVE f[n] = h[n]
      <3>1. n = 0 \/ n \in 1..m
        BY <1>0
      <3>2. f[0] = base
        BY <1>4 DEF IsRun
      <3>3. QED
        BY <1>5, <3>1, <3>2
    <2>2. f \in [0..m -> D]
      BY <1>4 DEF IsRun
    <2>3. f = h
      BY <2>1, <2>2
    <2>4. QED
      BY <2>3
  <1>7. Eqn(all)
    <2> HIDE DEF Eqn
    <2>1. QED
      BY <1>2, <1>6
  <1>8. \A n \in 0..m : all[n] = IF n = 0 THEN base ELSE OneMore(n, all[n - 1])
    BY <1>7
  <1>9. all[0] = base /\ \A n \in 1..m : all[n] = OneMore(n, all[n - 1])
    BY <1>0, <1>8
  <1>10. Stays(all, m, D)
    BY <1>0, <1>1, <1>9 DEF Stays
  <1>11. \A n \in 0..m : all[n] \in D
    BY <1>0, <1>10, StaysIn
  <1>12. QED
    BY <1>9, <1>11 DEF m, D, base, all, OneMore

\* Joint clearing after its groups, order by order.
LEMMA SoloEquation ==
    ASSUME NEW c, IsChain(c), NEW s \in Solutions, NEW us \in Seq(Uids), NEW lost
    PROVE  /\ SoloFills(s, us, c.pools, lost)[0] = s
           /\ \A n \in 1..Len(us) :
                SoloFills(s, us, c.pools, lost)[n]
                  = FillSolo(SoloFills(s, us, c.pools, lost)[n - 1], us[n], c.pools, lost)
           /\ \A n \in 0..Len(us) : SoloFills(s, us, c.pools, lost)[n] \in Solutions
  <1> DEFINE m == Len(us)
             D == Solutions
             base == s
             all == SoloFills(s, us, c.pools, lost)
             OneMore(n, x) == FillSolo(x, us[n], c.pools, lost)
             step == [n \in 1..m |-> [x \in D |-> OneMore(n, x)]]
             Eqn(f) == f = [n \in 0..m |-> IF n = 0 THEN base ELSE OneMore(n, f[n - 1])]
  <1>0. base \in D /\ m \in Nat
    OBVIOUS
  <1>1. ASSUME NEW n \in 1..m, NEW x \in D PROVE OneMore(n, x) \in D
    <2>1. us[n] \in Uids
      OBVIOUS
    <2>2. QED
      BY <2>1, FillSoloIn
  <1>2. all = CHOOSE g : Eqn(g)
    BY DEF SoloFills
  <1> HIDE DEF m, D, base, all, OneMore
  <1>3. StepsIn(D, m, step)
    <2>1. ASSUME NEW n \in 1..m PROVE [x \in D |-> OneMore(n, x)] \in [D -> D]
      BY <1>1
    <2>2. QED
      BY <2>1 DEF StepsIn
  <1>4. PICK f : IsRun(f, D, m, base, step)
    <2> HIDE DEF step
    <2>1. QED
      BY <1>0, <1>3, Recursion
  <1>5. ASSUME NEW n \in 1..m PROVE f[n] = OneMore(n, f[n - 1])
    <2>1. n - 1 \in 0..m
      BY <1>0
    <2>2. f[n - 1] \in D /\ f[n] = step[n][f[n - 1]]
      <3> HIDE DEF step
      <3>1. QED
        BY <1>4, <2>1 DEF IsRun
    <2>3. QED
      BY <2>2
  <1>6. Eqn(f)
    <2> DEFINE h == [n \in 0..m |-> IF n = 0 THEN base ELSE OneMore(n, f[n - 1])]
    <2>1. ASSUME NEW n \in 0..m PROVE f[n] = h[n]
      <3>1. n = 0 \/ n \in 1..m
        BY <1>0
      <3>2. f[0] = base
        BY <1>4 DEF IsRun
      <3>3. QED
        BY <1>5, <3>1, <3>2
    <2>2. f \in [0..m -> D]
      BY <1>4 DEF IsRun
    <2>3. f = h
      BY <2>1, <2>2
    <2>4. QED
      BY <2>3
  <1>7. Eqn(all)
    <2> HIDE DEF Eqn
    <2>1. QED
      BY <1>2, <1>6
  <1>8. \A n \in 0..m : all[n] = IF n = 0 THEN base ELSE OneMore(n, all[n - 1])
    BY <1>7
  <1>9. all[0] = base /\ \A n \in 1..m : all[n] = OneMore(n, all[n - 1])
    BY <1>0, <1>8
  <1>10. Stays(all, m, D)
    BY <1>0, <1>1, <1>9 DEF Stays
  <1>11. \A n \in 0..m : all[n] \in D
    BY <1>0, <1>10, StaysIn
  <1>12. QED
    BY <1>9, <1>11 DEF m, D, base, all, OneMore

\* The groups of joint clearing, each at its first member.
LEMMA GroupEquation ==
    ASSUME NEW c, IsChain(c), NEW us \in Seq(Uids), NEW tiers
    PROVE  /\ GroupFills(us, c.pools, tiers)[0] = NoSolution
           /\ \A n \in 1..Len(us) :
                GroupFills(us, c.pools, tiers)[n]
                  = IF OpensGroup(us, n)
                    THEN FillGroup(GroupFills(us, c.pools, tiers)[n - 1],
                                   Group(us, PairOf(us[n])), c.pools, tiers)
                    ELSE GroupFills(us, c.pools, tiers)[n - 1]
           /\ \A n \in 0..Len(us) : GroupFills(us, c.pools, tiers)[n] \in Solutions
  <1> DEFINE m == Len(us)
             D == Solutions
             base == NoSolution
             all == GroupFills(us, c.pools, tiers)
             OneMore(n, x) == (IF OpensGroup(us, n) THEN FillGroup(x, Group(us, PairOf(us[n])), c.pools, tiers) ELSE x)
             step == [n \in 1..m |-> [x \in D |-> OneMore(n, x)]]
             Eqn(f) == f = [n \in 0..m |-> IF n = 0 THEN base ELSE OneMore(n, f[n - 1])]
  <1>0. base \in D /\ m \in Nat
    BY NoSolutionIn
  <1>1. ASSUME NEW n \in 1..m, NEW x \in D PROVE OneMore(n, x) \in D
    BY GroupIs, FillGroupIn
  <1>2. all = CHOOSE g : Eqn(g)
    BY DEF GroupFills
  <1> HIDE DEF m, D, base, all, OneMore
  <1>3. StepsIn(D, m, step)
    <2>1. ASSUME NEW n \in 1..m PROVE [x \in D |-> OneMore(n, x)] \in [D -> D]
      BY <1>1
    <2>2. QED
      BY <2>1 DEF StepsIn
  <1>4. PICK f : IsRun(f, D, m, base, step)
    <2> HIDE DEF step
    <2>1. QED
      BY <1>0, <1>3, Recursion
  <1>5. ASSUME NEW n \in 1..m PROVE f[n] = OneMore(n, f[n - 1])
    <2>1. n - 1 \in 0..m
      BY <1>0
    <2>2. f[n - 1] \in D /\ f[n] = step[n][f[n - 1]]
      <3> HIDE DEF step
      <3>1. QED
        BY <1>4, <2>1 DEF IsRun
    <2>3. QED
      BY <2>2
  <1>6. Eqn(f)
    <2> DEFINE h == [n \in 0..m |-> IF n = 0 THEN base ELSE OneMore(n, f[n - 1])]
    <2>1. ASSUME NEW n \in 0..m PROVE f[n] = h[n]
      <3>1. n = 0 \/ n \in 1..m
        BY <1>0
      <3>2. f[0] = base
        BY <1>4 DEF IsRun
      <3>3. QED
        BY <1>5, <3>1, <3>2
    <2>2. f \in [0..m -> D]
      BY <1>4 DEF IsRun
    <2>3. f = h
      BY <2>1, <2>2
    <2>4. QED
      BY <2>3
  <1>7. Eqn(all)
    <2> HIDE DEF Eqn
    <2>1. QED
      BY <1>2, <1>6
  <1>8. \A n \in 0..m : all[n] = IF n = 0 THEN base ELSE OneMore(n, all[n - 1])
    BY <1>7
  <1>9. all[0] = base /\ \A n \in 1..m : all[n] = OneMore(n, all[n - 1])
    BY <1>0, <1>8
  <1>10. Stays(all, m, D)
    BY <1>0, <1>1, <1>9 DEF Stays
  <1>11. \A n \in 0..m : all[n] \in D
    BY <1>0, <1>10, StaysIn
  <1>12. QED
    BY <1>9, <1>11 DEF m, D, base, all, OneMore

\* The builders return solutions.
LEMMA LegacySolveIn ==
    ASSUME NEW c, IsChain(c), NEW us \in Seq(Uids), NEW lost
    PROVE  LegacySolve(us, c.pools, lost) \in Solutions
  <1>1. Len(us) \in 0..Len(us)
    OBVIOUS
  <1>2. QED
    BY <1>1, LegacyEquation DEF LegacySolve

\* What joint clearing builds is a solution.
LEMMA JointSolveIn ==
    ASSUME NEW c, IsChain(c), NEW us \in Seq(Uids), NEW lost
    PROVE  JointSolve(us, c.pools, lost) \in Solutions
  <1> DEFINE tiers == {f \in FeeTiers : <<f, "group">> \notin lost}
             joint == GroupFills(us, c.pools, tiers)[Len(us)]
  <1>1. Len(us) \in 0..Len(us)
    OBVIOUS
  <1>2. joint \in Solutions
    <2> HIDE DEF tiers
    <2>1. QED
      BY <1>1, GroupEquation
  <1>3. JointSolve(us, c.pools, lost) = SoloFills(joint, us, c.pools, lost)[Len(us)]
    BY DEF JointSolve
  <1> HIDE DEF joint
  <1>4. QED
    BY <1>1, <1>2, <1>3, SoloEquation

\* A solution at the reference prices trades the orders it is given.
LEMMA AtReferenceIn ==
    ASSUME NEW us \in Seq(Uids), \A i \in DOMAIN us : NaiveTakes(us[i])
    PROVE  AtReference(us) \in Solutions /\ TradedUids(AtReference(us)) = us
  <1> DEFINE D == UNION {{Orders[u].sellToken, Orders[u].buyToken} : u \in ToSet(us)}
             p == [t \in D |-> Reference[Lower[t]]]
             trades == [i \in DOMAIN us |-> WholeOf(us[i])[1]]
             sol0 == [prices |-> p, trades |-> trades, swaps |-> <<>>]
  <1>1. Len(us) \in Nat /\ DOMAIN us = 1..Len(us) /\ \A i \in DOMAIN us : us[i] \in Uids
    OBVIOUS
  <1>2. ASSUME NEW t \in D PROVE t \in DOMAIN Lower /\ Reference[Lower[t]] \in Nat \ {0}
    <2>1. PICK i \in DOMAIN us : t = Orders[us[i]].sellToken \/ t = Orders[us[i]].buyToken
      BY DEF ToSet
    <2>2. Priced(t)
      BY <2>1 DEF NaiveTakes
    <2>3. QED
      BY <1>1, <2>1, <2>2, OrderFacts, AuctionAssumption DEF Priced
  <1>3. D \in SUBSET DOMAIN Lower /\ p \in [D -> Nat \ {0}]
    <2> HIDE DEF D
    <2>1. QED
      BY <1>2
  <1>4. ASSUME NEW i \in DOMAIN us
        PROVE  /\ trades[i].uid = us[i] /\ trades[i] \in Trade
               /\ trades[i].executed <= Target(Orders[trades[i].uid])
               /\ {Lower[Orders[trades[i].uid].sellToken], Lower[Orders[trades[i].uid].buyToken]}
                    \subseteq {Lower[t] : t \in D}
    <2>1. trades[i] = [uid |-> us[i], executed |-> Orders[us[i]].sellAmount]
      BY DEF WholeOf
    <2>2. Orders[us[i]].sellToken \in D /\ Orders[us[i]].buyToken \in D
      BY DEF ToSet
    <2> HIDE DEF trades, D
    <2>3. trades[i] \in Trade /\ trades[i].uid = us[i]
      BY <1>1, <2>1, OrderFacts DEF Trade
    <2>4. trades[i].executed <= Target(Orders[us[i]])
      BY <1>1, <2>1, OrderFacts DEF Target, NaiveTakes
    <2>5. QED
      BY <2>1, <2>2, <2>3, <2>4
  <1>5. trades \in Seq(Trade) /\ DOMAIN trades = DOMAIN us
    <2>1. DOMAIN trades = 1..Len(us) /\ trades = [i \in 1..Len(us) |-> trades[i]]
      BY <1>1
    <2>2. \A i \in 1..Len(us) : trades[i] \in Trade
      BY <1>1, <1>4
    <2> HIDE DEF trades
    <2>3. QED
      BY <1>1, <2>1, <2>2
  <1>6. sol0 = AtReference(us)
    BY DEF AtReference
  <1>7. sol0.trades = trades
    OBVIOUS
  <1> HIDE DEF D, p, trades
  <1>8. sol0 \in Solutions
    <2>1. <<>> \in Seq(Swap)
      OBVIOUS
    <2>2. \A i \in DOMAIN trades :
              LET o == Orders[trades[i].uid]
              IN  /\ trades[i].executed <= Target(o)
                  /\ {Lower[o.sellToken], Lower[o.buyToken]} \subseteq {Lower[t] : t \in D}
      BY <1>4, <1>5
    <2> DEFINE swaps == <<>>
    <2> HIDE DEF swaps
    <2>3. [prices |-> p, trades |-> trades, swaps |-> swaps] \in Solutions
      BY <1>3, <1>5, <2>1, <2>2, SolutionOf DEF swaps
    <2>4. QED
      BY <2>3 DEF swaps
  <1> HIDE DEF sol0
  <1>9. TradedUids(sol0) = us
    <2>1. \A i \in DOMAIN us : sol0.trades[i].uid = us[i]
      <3>1. \A i \in DOMAIN us : trades[i].uid = us[i]
        BY <1>4
      <3>2. QED
        BY <1>7, <3>1
    <2>2. DOMAIN sol0.trades = DOMAIN us
      BY <1>5, <1>7
    <2>3. us = [i \in DOMAIN us |-> us[i]]
      OBVIOUS
    <2>4. QED
      BY <2>1, <2>2, <2>3 DEF TradedUids
  <1>10. QED
    BY <1>6, <1>8, <1>9

\* Naive takes the sells it can, and keeps some of them.
LEMMA RefinedIn ==
    ASSUME NEW us \in Seq(Uids), NEW pools, NEW lost
    PROVE  RefineSolutionPrices(NaiveSolve(us), pools, lost) \in Solutions
  <1> DEFINE takes == {u \in ToSet(us) : NaiveTakes(u)}
             taken == Only(us, takes)
             first == NaiveSolve(us)
             stay == {u \in ToSet(TradedUids(first)) :
                        Quoted(first, u, pools, lost)
                          => RealBuy(first, u, pools, lost) >= Orders[u].buyAmount}
             kept == Only(TradedUids(first), stay)
  <1>1. taken \in Seq(Uids \cap takes)
    <2> HIDE DEF takes
    <2>1. QED
      BY OnlyIn
  <1>2. taken \in Seq(Uids) /\ \A i \in DOMAIN taken : NaiveTakes(taken[i])
    <2>1. \A i \in DOMAIN taken : taken[i] \in Uids /\ taken[i] \in takes
      <3> HIDE DEF taken, takes
      <3>1. QED
        BY <1>1
    <2>2. taken \in Seq(Uids)
      <3> HIDE DEF taken, takes
      <3>1. QED
        BY <1>1
    <2> HIDE DEF taken
    <2>3. QED
      BY <2>1, <2>2
  <1>3. first = AtReference(taken)
    BY DEF NaiveSolve
  <1> HIDE DEF taken
  <1>4. first \in Solutions /\ TradedUids(first) = taken
    BY <1>2, <1>3, AtReferenceIn
  <1> HIDE DEF first
  <1>5. kept \in Seq(ToSet(taken) \cap stay)
    <2> HIDE DEF stay
    <2>1. taken \in Seq(ToSet(taken))
      BY <1>2 DEF ToSet
    <2>2. QED
      BY <1>4, <2>1, OnlyIn
  <1>6. kept \in Seq(Uids) /\ \A i \in DOMAIN kept : NaiveTakes(kept[i])
    <2> HIDE DEF kept, stay
    <2>1. \A i \in DOMAIN kept : kept[i] \in ToSet(taken)
      BY <1>5
    <2>2. \A u \in ToSet(taken) : u \in Uids /\ NaiveTakes(u)
      BY <1>2 DEF ToSet
    <2>3. kept \in Seq(Uids)
      BY <1>5, <2>2
    <2>4. QED
      BY <2>1, <2>2, <2>3
  <1>7. RefineSolutionPrices(first, pools, lost) =
           IF kept = <<>> THEN first ELSE AtReference(kept)
    BY DEF RefineSolutionPrices
  <1> HIDE DEF kept
  <1>8. RefineSolutionPrices(first, pools, lost) \in Solutions
    BY <1>4, <1>6, <1>7, AtReferenceIn
  <1>9. QED
    BY <1>8 DEF first

-----------------------------------------------------------------------------
(* What every state is made of.                                            *)

\* The type invariant: the orders listed are those of the auction, and the solution is one.
Typed == TypeOK /\ uids \in Seq(Uids) /\ IsSolution(sol)

\* The filters return orders of the auction, each once.
LEMMA TopIn ==
    ASSUME NEW us \in Seq(Uids), NEW n \in Nat
    PROVE  Top(us, n) \in Seq(Uids) /\ Len(Top(us, n)) <= n
  BY DEF Top

\* The candidates of a solver are orders of the auction.
LEMMA CandidatesIn ==
    ASSUME NEW us \in Seq(Uids)
    PROVE  Candidates(us) \in Seq(Uids)
  <1> DEFINE live == Only(us, Uids \ Ghosts)
  <1>1. live \in Seq(Uids)
    <2>1. Only(us, Uids \ Ghosts) \in Seq(Uids \cap (Uids \ Ghosts))
      BY OnlyIn
    <2>2. QED
      BY <2>1
  <1> HIDE DEF live
  <1>2. Len(live) \in 0..Len(live)
    BY <1>1
  <1>3. Ranked(live) \in Seq(Uids)
    BY <1>1, <1>2, RankedEquation DEF Ranked
  <1>4. QED
    BY <1>3 DEF Candidates, live

\* What a solution trades are orders.
LEMMA TradedIn ==
    ASSUME NEW s, IsSolution(s)
    PROVE  TradedUids(s) \in Seq(Uids)
  <1>1. s.trades \in Seq(Trade)
    BY DEF IsSolution
  <1> DEFINE trades == s.trades
  <1> HIDE DEF trades
  <1>2. /\ DOMAIN trades = 1..Len(trades) /\ Len(trades) \in Nat
        /\ \A i \in 1..Len(trades) : trades[i] \in Trade
    BY <1>1 DEF trades
  <1>3. \A i \in 1..Len(trades) : trades[i].uid \in Uids
    BY <1>2 DEF Trade
  <1>4. [i \in DOMAIN trades |-> trades[i].uid] \in Seq(Uids)
    BY <1>2, <1>3
  <1>5. QED
    BY <1>4 DEF TradedUids, trades

\* What a filter drops are orders.
LEMMA DroppedIn ==
    ASSUME NEW c, NEW us \in Seq(Uids), NEW lost
    PROVE  Dropped(c, us, lost) \subseteq Uids
  BY DEF Dropped, ToSet

\* What a filter leaves are orders of the auction.
LEMMA FilteredIn ==
    ASSUME NEW c, NEW us \in Seq(Uids), NEW lost
    PROVE  FilterValidOrders(c, us, lost) \in Seq(Uids)
  <1> DEFINE S == ToSet(us) \ Dropped(c, us, lost)
  <1> HIDE DEF S
  <1>1. Only(us, S) \in Seq(Uids \cap S)
    BY OnlyIn
  <1>2. Only(us, S) \in Seq(Uids)
    BY <1>1
  <1>3. QED
    BY <1>2 DEF FilterValidOrders, S

\* What the builders return is of the type of the solution.
LEMMA SolutionsAreSolutions ==
    ASSUME NEW s \in Solutions
    PROVE  IsSolution(s)
  BY DEF Solutions

\* A chain knows its pools, allowances and fills.
LEMMA ChainFacts ==
    ASSUME Typed
    PROVE  /\ chain \in DOMAIN Chains /\ chain \in 1..Len(Chains) /\ IsChain(Chains[chain])
           /\ Block \in DOMAIN Chains /\ Block \in 1..Len(Chains) /\ IsChain(Chains[Block])
           /\ Block = IF sim = 0 THEN chain ELSE sim
  <1>1. Len(Chains) \in Nat \ {0} /\ DOMAIN Chains = 1..Len(Chains)
    BY ClearingAssumption
  <1>2. chain \in 1..Len(Chains) /\ sim \in 0..Len(Chains)
    BY <1>1 DEF Typed, TypeOK
  <1>3. Block \in 1..Len(Chains)
    BY <1>1, <1>2 DEF Block
  <1>4. QED
    BY <1>1, <1>2, <1>3, ClearingAssumption DEF Block

\* The types hold at the start.
LEMMA TypedInit == Init => Typed
  <1>1. IsSolution(NoSolution)
    BY NoSolutionIn, SolutionsAreSolutions
  <1>2. 1 \in DOMAIN Chains /\ 0 \in 0..Len(Chains) /\ 0 \in 0..MaxMoves
    BY ClearingAssumption
  <1>3. <<>> \in Seq(Uids) /\ ToSet(<<>>) \subseteq Uids
    BY DEF ToSet
  <1>4. QED
    BY <1>1, <1>2, <1>3 DEF Init, Typed, TypeOK, Phases, NoEbbo, NoVerdict

\* The orders of a list are orders.
LEMMA ListIn ==
    ASSUME NEW us \in Seq(Uids)
    PROVE  ToSet(us) \subseteq Uids
  BY DEF ToSet

\* A solution that is built is of its type.
LEMMA BuiltTyped ==
    ASSUME Typed, NEW s, IsSolution(s), NEW after \in Phases, NEW lost, Built(s, after, lost)
    PROVE  Typed'
  BY ChainFacts, ClearingAssumption DEF Typed, TypeOK, Built, Phases

\* Each step keeps the types.
LEMMA TypedStep ==
    ASSUME Typed, [Next]_vars
    PROVE  Typed'
  <1>0. Len(Chains) \in Nat \ {0} /\ DOMAIN Chains = 1..Len(Chains) /\ MaxMoves \in Nat
        /\ MaxOrders \in Nat \ {0}
    BY ClearingAssumption, AuctionAssumption
  <1>1. ASSUME NEW a \in Auctions, NEW s \in {"joint", "router", "naive", "edge"},
               NEW replayed \in BOOLEAN, Start(a, s, replayed)
        PROVE  Typed'
    <2>1. a \in Seq(Uids)
      BY ClearingAssumption
    <2>2. Top(Candidates(a), MaxOrders) \in Seq(Uids)
      BY <1>0, <2>1, CandidatesIn, TopIn
    <2>3. Top(Candidates(a), 3 * MaxOrders) \in Seq(Uids)
      <3>1. 3 * MaxOrders \in Nat
        BY <1>0
      <3>2. QED
        BY <2>1, <3>1, CandidatesIn, TopIn
    <2>4. uids' \in Seq(Uids) /\ ToSet(uids') \subseteq Uids
      BY <1>1, <2>1, <2>2, <2>3, ListIn DEF Start
    <2>5. IsSolution(sol')
      BY <1>1, NoSolutionIn, SolutionsAreSolutions DEF Start
    <2>6. QED
      BY <1>0, <1>1, <2>4, <2>5, ChainFacts DEF Start, Typed, TypeOK, Phases, NoEbbo, NoVerdict
  <1>2. ASSUME NEW c \in DOMAIN Chains, ChainMoves(c) PROVE Typed'
    BY <1>0, <1>2 DEF ChainMoves, Typed, TypeOK
  <1>3. ASSUME NEW lost \in SUBSET Checks, ValidityFilter(lost) PROVE Typed'
    <2> DEFINE kept == FilterValidOrders(Chains[Block], uids, lost)
    <2>1. kept \in Seq(Uids) /\ Dropped(Chains[Block], uids, lost) \subseteq Uids
      BY FilteredIn, DroppedIn DEF Typed
    <2> HIDE DEF kept
    <2>2. Top(kept, MaxOrders) \in Seq(Uids)
      BY <1>0, <2>1, TopIn
    <2>3. uids' \in Seq(Uids) /\ ToSet(uids') \subseteq Uids /\ phase' \in Phases
          /\ dropped' \subseteq Uids
      BY <1>3, <2>1, <2>2, ListIn DEF ValidityFilter, kept, Phases
    <2>4. readAt' \in 0..Len(Chains)
      BY <1>0, <1>3, ChainFacts DEF ValidityFilter
    <2>5. QED
      BY <1>0, <1>3, <2>3, <2>4 DEF ValidityFilter, Typed, TypeOK
  <1>4. ASSUME NEW lost \in SUBSET Checks, FundingGate(lost) PROVE Typed'
    <2>1. Dropped(Chains[Block], TradedUids(sol), lost) \subseteq Uids
      BY TradedIn, DroppedIn DEF Typed
    <2>2. readAt' \in 0..Len(Chains)
      BY <1>0, <1>4, ChainFacts DEF FundingGate
    <2>3. QED
      BY <1>0, <1>4, <2>1, <2>2 DEF FundingGate, Typed, TypeOK, Phases
  <1>5. ASSUME NEW lost \in SUBSET V3Calls, JointClears(lost) PROVE Typed'
    <2>1. IsSolution(JointSolve(uids, Pools, lost))
      BY ChainFacts, JointSolveIn, SolutionsAreSolutions DEF Pools, Typed
    <2>2. QED
      BY <1>5, <2>1, BuiltTyped DEF JointClears, Phases
  <1>6. ASSUME NEW lost \in SUBSET ToSet(uids), RouterSolves(lost) PROVE Typed'
    <2>1. IsSolution(LegacySolve(uids, Pools, lost))
      BY ChainFacts, LegacySolveIn, SolutionsAreSolutions DEF Pools, Typed
    <2>2. QED
      BY <1>6, <2>1, BuiltTyped DEF RouterSolves, Phases
  <1>7. ASSUME NEW lost \in SUBSET {PairOf(u) : u \in ToSet(uids)}, NaiveSolves(lost)
        PROVE  Typed'
    <2>1. IsSolution(RefineSolutionPrices(NaiveSolve(uids), Pools, lost))
      BY RefinedIn, SolutionsAreSolutions DEF Typed
    <2>2. QED
      BY <1>7, <2>1, BuiltTyped DEF NaiveSolves, Phases
  <1>8. ASSUME NEW s \in EdgeSolutions \cup {NoSolution}, EdgeProposes(s) PROVE Typed'
    <2>1. IsSolution(s)
      BY ClearingAssumption, NoSolutionIn, SolutionsAreSolutions
    <2>2. QED
      BY <1>8, <2>1, BuiltTyped DEF EdgeProposes, Phases
  <1>9. ASSUME NEW failed \in SUBSET ToSet(TradedUids(sol)), EbboCheck(failed) PROVE Typed'
    BY <1>0, <1>9, ChainFacts DEF EbboCheck, Typed, TypeOK, Phases
  <1>10. ASSUME NEW known \in SUBSET ToSet(TradedUids(sol)), NEW answered \in BOOLEAN,
                GateCheck(known, answered)
         PROVE  Typed'
    <2>1. ValidateSolution(Chains[GateBlock], sol, known, answered)
            \in {"feasible", "phantom", "unknown"}
      BY DEF ValidateSolution
    <2>2. QED
      BY <1>0, <1>10, <2>1, ChainFacts DEF GateCheck, Typed, TypeOK, Phases
  <1>11. CASE Settle
    BY <1>11 DEF Settle, Typed, TypeOK, Phases
  <1>12. CASE UNCHANGED vars
    BY <1>12 DEF vars, Typed, TypeOK
  <1>13. QED
    BY <1>1, <1>2, <1>3, <1>4, <1>5, <1>6, <1>7, <1>8, <1>9, <1>10, <1>11, <1>12 DEF Next

\* Every state is typed: the orders considered are orders of the auction, and
\* a solution prices what it trades and executes no more than was signed,
\* whatever was lost on the way to it.
THEOREM TypeCorrect == Spec => []Typed
  <1>1. QED
    BY TypedInit, TypedStep, PTL DEF Spec

-----------------------------------------------------------------------------
(* Dropped orders.                                                         *)

\* The fractions of a sell are at least its half, and at most all of it.
LEMMA ExecutionBounds ==
    ASSUME NEW u \in Uids, NEW e \in Executions(Orders[u])
    PROVE  /\ e \in Nat \ {0}
           /\ e = Target(Orders[u])
              \/ (Orders[u].partial /\ Orders[u].kind = "sell" /\ e >= Orders[u].sellAmount \div 2)
  <1> DEFINE o == Orders[u]
             n == o.sellAmount
             part == (3 * n) \div 4
             half == n \div 2
  <1>1. n \in Nat \ {0} /\ Target(o) \in Nat \ {0}
    BY OrderFacts
  <1>2. part \in Nat /\ half \in Nat /\ part >= half
    <2> HIDE DEF n
    <2>1. QED
      BY <1>1
  <1>3. e = Target(o) \/ (o.partial /\ o.kind = "sell" /\ e # 0 /\ (e = part \/ e = half))
    BY DEF Executions
  <1> HIDE DEF part, half
  <1>4. CASE e = Target(o)
    BY <1>1, <1>4
  <1>5. CASE o.partial /\ o.kind = "sell" /\ e # 0 /\ (e = part \/ e = half)
    <2>1. e \in Nat \ {0} /\ e >= half
      BY <1>2, <1>5
    <2>2. QED
      BY <1>5, <2>1 DEF half
  <1>6. QED
    BY <1>3, <1>4, <1>5

\* An order taken out for a reading cannot be settled where it was read.
LEMMA DroppedIsDead ==
    ASSUME NEW c, IsChain(c), NEW u \in Uids, NEW lost,
           ReasonsToDrop(Orders[u], Readings(c, u, lost)) # {}
    PROVE  Dead(c, u)
  <1> DEFINE o == Orders[u]
             r == Readings(c, u, lost)
             filled == c.filled[u]
  <1>1. filled \in Nat /\ c.balance[u] \in Nat /\ c.allowance[u] \in Nat
    BY DEF IsChain
  <1>2. /\ DOMAIN r = BuildChecks(o) \ lost
        /\ \A check \in DOMAIN r : r[check] = OnChain(c, u, check)
    BY DEF Readings
  <1> HIDE DEF r
  <1> DEFINE read == IF "filled" \in DOMAIN r THEN r["filled"] ELSE 0
             required == RequiredFunding(o, read)
  <1>3. read = 0 \/ read = filled
    BY <1>2 DEF OnChain
  <1> HIDE DEF read
  <1>4. PICK reason \in {"filled", "presig", "balance", "allowance"} :
            /\ reason \in DOMAIN r
            /\ CASE reason = "filled" -> r["filled"] > 0 /\ (~o.partial \/ r["filled"] >= Target(o))
                 [] reason = "presig" -> r["presig"] = 0
                 [] OTHER -> r[reason] < required
    BY DEF ReasonsToDrop, r, read
  <1>5. ASSUME NEW e \in Executions(o) PROVE ~Fillable(c, u, e, PulledAtLimit(o, e))
    <2> DEFINE pulled == PulledAtLimit(o, e)
    <2>1. e \in Nat \ {0}
      BY ExecutionBounds
    <2>2. CASE reason = "filled"
      <3>1. filled > 0 /\ (~o.partial \/ filled >= Target(o))
        BY <1>2, <1>4, <2>2 DEF OnChain
      <3>2. CASE ~o.partial
        BY <1>1, <3>1, <3>2 DEF Fillable
      <3>3. CASE o.partial
        <4>1. ~(filled + e <= Target(o))
          BY <1>1, <2>1, <3>1, <3>3, OrderFacts
        <4>2. QED
          BY <3>3, <4>1 DEF Fillable
      <3>4. QED
        BY <3>2, <3>3
    <2>3. CASE reason = "presig"
      <3>1. o.scheme = "presign"
        BY <1>2, <1>4, <2>3 DEF BuildChecks
      <3>2. u \notin c.presigned
        BY <1>2, <1>4, <2>3 DEF OnChain
      <3>3. QED
        BY <3>1, <3>2 DEF Fillable
    <2>4. ASSUME filled = 0 \/ o.partial PROVE required <= pulled /\ pulled \in Nat /\ required \in Nat
      <3> DEFINE sell == o.sellAmount
                 buy == o.buyAmount
                 remaining == sell - (IF read < sell THEN read ELSE sell)
                 half == sell \div 2
      <3>1. sell \in Nat \ {0} /\ buy \in Nat \ {0} /\ read \in Nat
            /\ o.kind \in {"sell", "buy"} /\ o.partial \in BOOLEAN
        BY <1>1, <1>3, OrderFacts
      <3>2. required = CASE o.kind = "sell" /\ o.partial -> IF half < remaining THEN half ELSE remaining
                         [] o.kind = "sell" /\ ~o.partial -> remaining
                         [] o.kind = "buy" /\ ~o.partial -> sell
                         [] o.kind = "buy" /\ o.partial -> 0
        BY DEF RequiredFunding
      <3>3. pulled = IF o.kind = "sell" THEN e ELSE (e * sell) \div buy
        BY DEF PulledAtLimit
      <3>4. e = Target(o) \/ (o.partial /\ o.kind = "sell" /\ e >= half)
        BY ExecutionBounds
      <3>5. Target(o) = IF o.kind = "sell" THEN sell ELSE buy
        BY DEF Target
      <3> HIDE DEF required, pulled, sell, buy
      <3>6. remaining \in Nat /\ remaining <= sell /\ half \in Nat /\ half <= sell
        BY <3>1
      <3> HIDE DEF half, remaining
      <3>7. CASE o.kind = "sell" /\ o.partial
        <4>1. required = (IF half < remaining THEN half ELSE remaining) /\ pulled = e
          BY <3>2, <3>3, <3>7
        <4>2. e >= half
          BY <2>1, <3>4, <3>5, <3>6, <3>7
        <4>3. QED
          BY <2>1, <3>6, <4>1, <4>2
      <3>8. CASE o.kind = "sell" /\ ~o.partial
        <4>1. required = remaining /\ pulled = e /\ e = sell
          BY <3>2, <3>3, <3>4, <3>5, <3>8
        <4>2. QED
          BY <2>1, <3>6, <4>1
      <3>9. CASE o.kind = "buy" /\ ~o.partial
        <4>1. required = sell /\ pulled = (buy * sell) \div buy
          BY <3>2, <3>3, <3>4, <3>5, <3>9
        <4>2. (buy * sell) \div buy = sell
          BY <3>1
        <4>3. QED
          BY <3>1, <4>1, <4>2
      <3>10. CASE o.kind = "buy" /\ o.partial
        <4>1. required = 0 /\ pulled = (buy * sell) \div buy
          BY <3>2, <3>3, <3>4, <3>5, <3>10
        <4>2. (buy * sell) \div buy = sell
          BY <3>1
        <4>3. QED
          BY <3>1, <4>1, <4>2
      <3>11. QED
        BY <3>1, <3>7, <3>8, <3>9, <3>10
    <2>5. CASE ~(filled = 0 \/ o.partial)
      BY <2>5 DEF Fillable
    <2>6. CASE reason = "balance" /\ (filled = 0 \/ o.partial)
      <3>1. o.source = "erc20" /\ c.balance[u] < required
        BY <1>2, <1>4, <2>6 DEF BuildChecks, OnChain
      <3>2. required <= pulled /\ pulled \in Nat /\ required \in Nat
        BY <2>4, <2>6
      <3> HIDE DEF pulled, required
      <3>3. ~(c.balance[u] >= pulled)
        BY <1>1, <3>1, <3>2
      <3>4. QED
        BY <3>1, <3>3 DEF Fillable, pulled
    <2>7. CASE reason = "allowance" /\ (filled = 0 \/ o.partial)
      <3>1. o.source = "erc20" /\ ~o.hooks /\ c.allowance[u] < required
        BY <1>2, <1>4, <2>7 DEF BuildChecks, OnChain
      <3>2. required <= pulled /\ pulled \in Nat /\ required \in Nat
        BY <2>4, <2>7
      <3> HIDE DEF pulled, required
      <3>3. ~(c.allowance[u] >= pulled)
        BY <1>1, <3>1, <3>2
      <3>4. QED
        BY <3>1, <3>3 DEF Fillable, pulled
    <2>8. QED
      BY <2>2, <2>3, <2>5, <2>6, <2>7
  <1>6. QED
    BY <1>5 DEF Dead

\* So none of them can.
LEMMA AllDroppedDead ==
    ASSUME NEW c, IsChain(c), NEW us \in Seq(Uids), NEW lost
    PROVE  \A u \in Dropped(c, us, lost) : Dead(c, u)
  <1> SUFFICES ASSUME NEW u \in Dropped(c, us, lost) PROVE Dead(c, u)
    OBVIOUS
  <1>1. u \in Uids /\ ReasonsToDrop(Orders[u], Readings(c, u, lost)) # {}
    BY ListIn DEF Dropped
  <1>2. QED
    BY <1>1, DroppedIsDead

\* Each step keeps it.
LEMMA DeadStep ==
    ASSUME Typed, DroppedAreDead, [Next]_vars
    PROVE  DroppedAreDead'
  <1>1. ASSUME NEW a \in Auctions, NEW s \in {"joint", "router", "naive", "edge"},
               NEW replayed \in BOOLEAN, Start(a, s, replayed)
        PROVE  DroppedAreDead'
    BY <1>1 DEF Start, DroppedAreDead
  <1>2. ASSUME NEW us \in Seq(Uids), NEW lost, dropped' = Dropped(Chains[Block], us, lost),
               readAt' = IF sim = 0 THEN chain ELSE sim
        PROVE  DroppedAreDead'
    <2>1. readAt' = Block /\ IsChain(Chains[Block])
      BY <1>2, ChainFacts
    <2>2. QED
      BY <1>2, <2>1, AllDroppedDead DEF DroppedAreDead
  <1>3. ASSUME NEW lost \in SUBSET Checks, ValidityFilter(lost) PROVE DroppedAreDead'
    BY <1>2, <1>3 DEF ValidityFilter, Typed
  <1>4. ASSUME NEW lost \in SUBSET Checks, FundingGate(lost) PROVE DroppedAreDead'
    BY <1>2, <1>4, TradedIn DEF FundingGate, Typed
  <1>5. CASE UNCHANGED <<dropped, readAt>>
    BY <1>5 DEF DroppedAreDead
  <1>6. QED
    BY <1>1, <1>3, <1>4, <1>5
    DEF Next, vars, ChainMoves, JointClears, RouterSolves, NaiveSolves, EdgeProposes, Built,
        EbboCheck, GateCheck, Settle

\* For any orders and any chain, and whichever readings are lost: what the
\* validity filter and the funding gate take out, no execution of the router's
\* could settle at its limit.
THEOREM DroppedCannotSettle == Spec => []DroppedAreDead
  <1>1. Init => DroppedAreDead
    BY DEF Init, DroppedAreDead
  <1>2. Typed /\ DroppedAreDead /\ [Next]_vars => DroppedAreDead'
    BY DeadStep
  <1>3. QED
    BY <1>1, <1>2, TypeCorrect, PTL DEF Spec

-----------------------------------------------------------------------------
(* The simulated call and the settlement of the driver.                    *)

\* A finite set, put in a sequence, is all there.
LEMMA SetToSeqIs ==
    ASSUME NEW S, IsFiniteSet(S)
    PROVE  SetToSeq(S) \in Seq(S) /\ \A x \in S : \E i \in DOMAIN SetToSeq(S) : SetToSeq(S)[i] = x
  <1> DEFINE n == Cardinality(S)
             f == SetToSeq(S)
  <1>1. n \in Nat /\ ExistsBijection(1..n, S)
    BY FS_CardinalityType
  <1>2. PICK g \in Bijection(1..n, S) : TRUE
    BY <1>1 DEF ExistsBijection
  <1>3. g \in [1..n -> S] /\ IsInjective(g)
    BY <1>2 DEF Bijection, Injection, IsInjective
  <1>4. f \in [1..n -> S] /\ IsInjective(f)
    BY <1>3 DEF SetToSeq
  <1> HIDE DEF f
  <1>5. f \in Injection(1..n, S)
    BY <1>4 DEF Injection, IsInjective
  <1>6. Cardinality(1..n) = Cardinality(S)
    BY <1>1, FS_Interval
  <1>7. f \in Surjection(1..n, S)
    BY <1>5, <1>6, FS_Injection
  <1>8. \A x \in S : \E i \in 1..n : f[i] = x
    BY <1>7 DEF Surjection
  <1> HIDE DEF n
  <1>9. f \in Seq(S) /\ DOMAIN f = 1..n
    BY <1>1, <1>4
  <1>10. QED
    BY <1>8, <1>9 DEF f

\* The tokens of the call are those the solution prices.
Spelled(s) == {Lower[t] : t \in DOMAIN s.prices}

\* Each token that is spelled has a place in the settlement.
LEMMA SettleTokensIs ==
    ASSUME NEW s, IsSolution(s)
    PROVE  /\ SettleTokens(s) \in Seq(Spelled(s))
           /\ \A x \in Spelled(s) : \E i \in DOMAIN SettleTokens(s) : SettleTokens(s)[i] = x
           /\ Spelled(s) \subseteq Tokens
  <1> DEFINE D == DOMAIN s.prices
             g == [t \in D |-> Lower[t]]
  <1>1. D \in SUBSET DOMAIN Lower /\ IsFiniteSet(DOMAIN Lower)
    BY AuctionAssumption DEF IsSolution
  <1>2. IsFiniteSet(D)
    <2> HIDE DEF D
    <2>1. QED
      BY <1>1, FS_Subset
  <1>3. IsFiniteSet({g[t] : t \in D})
    <2> HIDE DEF D, g
    <2>1. QED
      BY <1>2, FiniteImage
  <1>4. {g[t] : t \in D} = Spelled(s)
    BY DEF Spelled
  <1>5. SettleTokens(s) = SetToSeq(Spelled(s))
    BY DEF SettleTokens, Spelled
  <1>6. Spelled(s) \subseteq Tokens
    BY <1>1 DEF Spelled, Tokens
  <1>7. QED
    BY <1>3, <1>4, <1>5, <1>6, SetToSeqIs

\* Where the token stands in the call, the driver's prices are the solution's,
\* and so are those of the simulated call when no token is spelled twice.
LEMMA PriceIs ==
    ASSUME NEW s, IsSolution(s), NEW t \in DOMAIN Lower, Lower[t] \in Spelled(s)
    PROVE  LET i == TokenIndex(s, t)
           IN  /\ i \in DOMAIN SettleTokens(s) /\ i \in Nat \ {0}
               /\ SettleTokens(s)[i] = Lower[t]
               /\ DriverSettle(s).prices[i] = ScorePrice(s, t)
               /\ ScorePrice(s, t) \in Nat \ {0}
               /\ ~DuplicateTokens(s) => EncodeSettle(s).prices[i] = ScorePrice(s, t)
               /\ ~DuplicateTokens(s) /\ t \in DOMAIN s.prices => ScorePrice(s, t) = s.prices[t]
  <1> DEFINE tokens == SettleTokens(s)
             i == TokenIndex(s, t)
             D == DOMAIN s.prices
             spelled == {r \in D : Lower[r] = Lower[t]}
  <1>1. tokens \in Seq(Spelled(s)) /\ \E k \in DOMAIN tokens : tokens[k] = Lower[t]
    BY SettleTokensIs
  <1>2. i = CHOOSE k \in DOMAIN tokens : tokens[k] = Lower[t]
    <2>1. Lower[t] \in ToSet(tokens)
      BY <1>1 DEF ToSet
    <2>2. QED
      BY <2>1 DEF TokenIndex
  <1> HIDE DEF tokens, i
  <1>3. i \in DOMAIN tokens /\ tokens[i] = Lower[t]
    BY <1>1, <1>2
  <1>4. i \in Nat \ {0}
    BY <1>1, <1>3
  <1>5. Lower[Lower[t]] = Lower[t]
    BY AuctionAssumption
  <1>6. DriverSettle(s).prices[i] = ScorePrice(s, tokens[i])
    BY <1>3 DEF DriverSettle, tokens
  <1>7. spelled # {}
    BY DEF Spelled
  <1>8. ScorePrice(s, t) = s.prices[CHOOSE r \in spelled : TRUE]
    BY <1>7 DEF ScorePrice
  <1>9. ScorePrice(s, tokens[i]) = ScorePrice(s, t)
    BY <1>3, <1>5 DEF ScorePrice
  <1>10. (CHOOSE r \in spelled : TRUE) \in spelled
    BY <1>7
  <1>11. ScorePrice(s, t) \in Nat \ {0}
    <2>1. s.prices \in [D -> Nat \ {0}]
      BY DEF IsSolution
    <2>2. \A r \in spelled : s.prices[r] \in Nat \ {0}
      BY <2>1
    <2>3. QED
      BY <1>8, <1>10, <2>2
  <1>12. ASSUME ~DuplicateTokens(s), NEW r \in spelled PROVE ScorePrice(s, t) = s.prices[r]
    BY <1>8, <1>10, <1>12 DEF DuplicateTokens
  <1>13. ASSUME ~DuplicateTokens(s) PROVE EncodeSettle(s).prices[i] = ScorePrice(s, t)
    <2> DEFINE same == {r \in D : Lower[r] = tokens[i]}
    <2>1. ClearingPrices(s)[i] = s.prices[CHOOSE r \in D : Lower[r] = tokens[i]]
      BY <1>3 DEF ClearingPrices, tokens
    <2>2. (CHOOSE r \in D : Lower[r] = tokens[i]) \in spelled
      BY <1>3, <1>7
    <2>3. EncodeSettle(s).prices = ClearingPrices(s)
      BY DEF EncodeSettle
    <2>4. QED
      BY <1>12, <1>13, <2>1, <2>2, <2>3
  <1>14. ASSUME ~DuplicateTokens(s), t \in D PROVE ScorePrice(s, t) = s.prices[t]
    <2>1. t \in spelled
      BY <1>14
    <2>2. QED
      BY <1>12, <1>14, <2>1
  <1>15. QED
    BY <1>3, <1>4, <1>6, <1>9, <1>11, <1>13, <1>14 DEF i, tokens

\* Without a token spelled twice both calls have the same prices.
LEMMA PricesAgree ==
    ASSUME NEW s, IsSolution(s), ~DuplicateTokens(s)
    PROVE  EncodeSettle(s).prices = DriverSettle(s).prices
  <1> DEFINE tokens == SettleTokens(s)
             D == DOMAIN s.prices
  <1>1. /\ EncodeSettle(s).prices =
             [i \in DOMAIN tokens |-> s.prices[CHOOSE t \in D : Lower[t] = tokens[i]]]
        /\ DriverSettle(s).prices = [i \in DOMAIN tokens |-> ScorePrice(s, tokens[i])]
    BY DEF EncodeSettle, ClearingPrices, DriverSettle
  <1>2. ASSUME NEW i \in DOMAIN tokens
        PROVE  s.prices[CHOOSE t \in D : Lower[t] = tokens[i]] = ScorePrice(s, tokens[i])
    <2>1. tokens[i] \in Spelled(s) /\ tokens[i] \in Tokens
      BY SettleTokensIs
    <2>2. tokens[i] \in DOMAIN Lower /\ Lower[tokens[i]] = tokens[i]
      BY <2>1, TokenFacts
    <2> DEFINE spelled == {r \in D : Lower[r] = Lower[tokens[i]]}
    <2>3. spelled # {}
      BY <2>1, <2>2 DEF Spelled
    <2>4. ScorePrice(s, tokens[i]) = s.prices[CHOOSE r \in spelled : TRUE]
      BY <2>3 DEF ScorePrice
    <2>5. (CHOOSE r \in spelled : TRUE) \in spelled
      BY <2>3
    <2>6. (CHOOSE t \in D : Lower[t] = tokens[i]) \in spelled
      BY <2>2, <2>3
    <2>7. \A q, r \in spelled : q = r
      BY DEF DuplicateTokens
    <2>8. QED
      BY <2>4, <2>5, <2>6, <2>7
  <1>3. QED
    BY <1>1, <1>2

\* Calls that differ in their hooks alone settle alike but for the funding.
LEMMA SettlesAlike ==
    ASSUME NEW c, NEW one, NEW two, one.prices = two.prices, one.trades = two.trades,
           one.intra = two.intra, Settles(c, one),
           \A i \in DOMAIN one.trades :
              Funded(c, one, one.trades[i]) => Funded(c, two, two.trades[i])
    PROVE  Settles(c, two)
  <1> DEFINE trades == one.trades
             swaps == one.intra
             pulls(call, t) == [i \in DOMAIN trades |->
                                  IF Sells(trades[i], t) THEN Pulled(call, trades[i]) ELSE 0]
             pays(call, t) == [i \in DOMAIN trades |->
                                 IF Buys(trades[i], t) THEN Paid(call, trades[i]) ELSE 0]
             spends(t) == [i \in DOMAIN swaps |-> IF swaps[i].sell = t THEN swaps[i].in ELSE 0]
             brings(t) == [i \in DOMAIN swaps |->
                             IF swaps[i].buy = t THEN SwapOut(c, swaps[i]) ELSE 0]
             Holds(call) ==
                /\ \A i \in DOMAIN trades :
                     Authentic(trades[i]) /\ WithinLimit(call, trades[i]) /\ Funded(c, call, trades[i])
                /\ \A i \in DOMAIN swaps : SwapOut(c, swaps[i]) > 0
                /\ \A t \in Tokens :
                     /\ SumSeq(spends(t)) <= c.buffer[t] + SumSeq(pulls(call, t))
                     /\ SumSeq(pays(call, t)) <= c.buffer[t] + SumSeq(pulls(call, t))
                                                - SumSeq(spends(t)) + SumSeq(brings(t))
  <1>1. Settles(c, one) <=> Holds(one)
    BY DEF Settles
  <1>2. Settles(c, two) <=> Holds(two)
    BY DEF Settles
  <1>3. ASSUME NEW x
        PROVE  /\ Pulled(one, x) = Pulled(two, x) /\ Paid(one, x) = Paid(two, x)
               /\ WithinLimit(one, x) <=> WithinLimit(two, x)
    BY DEF Pulled, Paid, WithinLimit, SellPrice, BuyPrice
  <1>4. ASSUME NEW t PROVE pulls(one, t) = pulls(two, t) /\ pays(one, t) = pays(two, t)
    BY <1>3
  <1> HIDE DEF pulls, pays, spends, brings
  <1>5. Holds(two)
    BY <1>1, <1>3, <1>4
  <1>6. QED
    BY <1>2, <1>5

\* What makes both calls of one solution comparable.
LEMMA CallsAgree ==
    ASSUME NEW s, IsSolution(s), ~DuplicateTokens(s)
    PROVE  LET simulated == EncodeSettle(s)
               settled == DriverSettle(s)
           IN  /\ simulated.prices = settled.prices /\ simulated.intra = settled.intra
               /\ DOMAIN simulated.trades = DOMAIN s.trades /\ DOMAIN settled.trades = DOMAIN s.trades
               /\ ~simulated.hooks /\ settled.hooks
               /\ \A i \in DOMAIN s.trades :
                    /\ Authentic(settled.trades[i])
                    /\ Authentic(simulated.trades[i]) => simulated.trades[i] = settled.trades[i]
                    /\ simulated.trades[i].uid = s.trades[i].uid
                    /\ settled.trades[i].uid = s.trades[i].uid
  <1> DEFINE simulated == EncodeSettle(s)
             settled == DriverSettle(s)
  <1>1. simulated.prices = settled.prices
    BY PricesAgree
  <1>2. /\ simulated.intra = s.swaps /\ settled.intra = s.swaps
        /\ simulated.hooks = FALSE /\ settled.hooks = TRUE
        /\ DOMAIN simulated.trades = DOMAIN s.trades /\ DOMAIN settled.trades = DOMAIN s.trades
    BY DEF EncodeSettle, DriverSettle
  <1>3. ASSUME NEW i \in DOMAIN s.trades
        PROVE  /\ Authentic(settled.trades[i])
               /\ Authentic(simulated.trades[i]) => simulated.trades[i] = settled.trades[i]
               /\ simulated.trades[i].uid = s.trades[i].uid
               /\ settled.trades[i].uid = s.trades[i].uid
    <2> DEFINE trade == s.trades[i]
               o == Orders[trade.uid]
               flags == [kind |-> o.kind, partial |-> o.partial, scheme |-> o.scheme,
                         sellBalance |-> o.source]
               signature == CASE o.scheme = "presign" -> <<"owner">>
                              [] o.scheme = "eip1271" -> <<"owner", "payload">>
                              [] OTHER -> <<"payload">>
    <2>1. settled.trades[i] =
             [uid |-> trade.uid, executed |-> trade.executed,
              sellIndex |-> TokenIndex(s, o.sellToken), buyIndex |-> TokenIndex(s, o.buyToken),
              flags |-> flags, signature |-> signature]
      BY DEF DriverSettle
    <2>2. simulated.trades[i] =
             [uid |-> trade.uid, sellIndex |-> TokenIndex(s, o.sellToken),
              buyIndex |-> TokenIndex(s, o.buyToken), executed |-> trade.executed,
              flags |-> EncodeTradeFlags(o), signature |-> SigBytes(o)]
      BY DEF EncodeSettle, EncodeTrade
    <2> HIDE DEF simulated, settled
    <2>3. simulated.trades[i].uid = trade.uid /\ settled.trades[i].uid = trade.uid
      BY <2>1, <2>2
    <2>4. ASSUME NEW x, x.uid = trade.uid
          PROVE  Authentic(x) <=> x.flags = flags /\ x.signature = signature
      BY <2>4 DEF Authentic
    <2> HIDE DEF flags, signature
    <2>5. Authentic(settled.trades[i])
      BY <2>1, <2>3, <2>4
    <2>6. ASSUME Authentic(simulated.trades[i]) PROVE simulated.trades[i] = settled.trades[i]
      <3>1. EncodeTradeFlags(o) = flags /\ SigBytes(o) = signature
        BY <2>2, <2>3, <2>4, <2>6
      <3>2. QED
        BY <2>1, <2>2, <3>1
    <2>7. QED
      BY <2>3, <2>5, <2>6
  <1>4. QED
    BY <1>1, <1>2, <1>3

\* A solution whose simulation settles, the driver settles, on the same chain.
LEMMA GateIsStrict ==
    ASSUME NEW c, NEW s, IsSolution(s), ~DuplicateTokens(s), Settles(c, EncodeSettle(s))
    PROVE  Settles(c, DriverSettle(s))
  <1> DEFINE one == EncodeSettle(s)
             two == DriverSettle(s)
  <1>1. /\ one.prices = two.prices /\ one.intra = two.intra /\ two.hooks
        /\ DOMAIN one.trades = DOMAIN s.trades /\ DOMAIN two.trades = DOMAIN s.trades
        /\ \A i \in DOMAIN s.trades : Authentic(one.trades[i]) => one.trades[i] = two.trades[i]
    BY CallsAgree
  <1>2. \A i \in DOMAIN s.trades : Authentic(one.trades[i])
    BY <1>1 DEF Settles
  <1>3. one.trades = two.trades
    <2>1. /\ one.trades = [i \in DOMAIN s.trades |-> one.trades[i]]
          /\ two.trades = [i \in DOMAIN s.trades |-> two.trades[i]]
      BY DEF EncodeSettle, DriverSettle
    <2> HIDE DEF one, two
    <2>2. QED
      BY <1>1, <1>2, <2>1
  <1> HIDE DEF one, two
  <1>4. ASSUME NEW i \in DOMAIN one.trades, Funded(c, one, one.trades[i])
        PROVE  Funded(c, two, two.trades[i])
    <2>1. Pulled(one, one.trades[i]) = Pulled(two, two.trades[i])
      BY <1>1, <1>3 DEF Pulled, SellPrice, BuyPrice
    <2>2. QED
      BY <1>1, <1>3, <1>4, <2>1 DEF Funded
  <1>5. Settles(c, one)
    BY DEF one
  <1>6. QED
    BY <1>1, <1>3, <1>4, <1>5, SettlesAlike DEF two

\* The signature of a contract wallet without its owner, framed.
LEMMA PrefixIs ==
    /\ Head(<<"payload">>) = "payload" /\ Head(<<"owner", "payload">>) = "owner"
    /\ <<"owner">> \o <<"payload">> = <<"owner", "payload">>
  <1> DEFINE S == {"owner", "payload"}
             framed == Append(<<"owner">>, "payload")
             whole == <<"owner", "payload">>
  <1>1. <<"owner">> \in Seq(S) /\ "payload" \in S /\ Len(<<"owner">>) = 1
    OBVIOUS
  <1>2. framed = <<"owner">> \o <<"payload">>
    BY <1>1, AppendIsConcat
  <1>3. framed \in Seq(S) /\ Len(framed) = 2 /\ framed[1] = "owner" /\ framed[2] = "payload"
    BY <1>1, AppendProperties
  <1>4. whole \in Seq(S) /\ Len(whole) = 2 /\ whole[1] = "owner" /\ whole[2] = "payload"
    OBVIOUS
  <1>5. framed = whole
    <2> HIDE DEF framed, whole, S
    <2>1. \A i \in 1..Len(framed) : framed[i] = whole[i]
      BY <1>3, <1>4
    <2>2. QED
      BY <1>3, <1>4, <2>1, SeqEqual
  <1>6. Head(<<"payload">>) = "payload" /\ Head(<<"owner", "payload">>) = "owner"
    OBVIOUS
  <1>7. QED
    BY <1>2, <1>5, <1>6

\* The other way round, for orders that hold ERC-20 tokens and no hooks.
LEMMA GateIsFair ==
    ASSUME NEW c, NEW s, IsSolution(s), NEW known, Encodable(s, known),
           \A u \in ToSet(TradedUids(s)) : Orders[u].source = "erc20" /\ ~Orders[u].hooks,
           Settles(c, DriverSettle(s))
    PROVE  Settles(c, EncodeSettle(s))
  <1> DEFINE one == DriverSettle(s)
             two == EncodeSettle(s)
  <1>0. ~DuplicateTokens(s)
    BY DEF Encodable
  <1>1. /\ one.prices = two.prices /\ one.intra = two.intra
        /\ DOMAIN one.trades = DOMAIN s.trades /\ DOMAIN two.trades = DOMAIN s.trades
        /\ \A i \in DOMAIN s.trades : /\ Authentic(two.trades[i]) => one.trades[i] = two.trades[i]
                                      /\ two.trades[i].uid = s.trades[i].uid
    BY <1>0, CallsAgree
  <1>2. ASSUME NEW i \in DOMAIN s.trades
        PROVE  /\ Authentic(two.trades[i])
               /\ Orders[s.trades[i].uid].source = "erc20" /\ ~Orders[s.trades[i].uid].hooks
    <2> DEFINE o == Orders[s.trades[i].uid]
    <2>1. s.trades[i].uid \in ToSet(TradedUids(s))
      BY DEF ToSet, TradedUids
    <2>2. s.trades[i].uid \in Uids
      <3>1. TradedUids(s) \in Seq(Uids)
        BY TradedIn
      <3>2. QED
        BY <2>1, <3>1, ListIn
    <2>3. two.trades[i].flags = EncodeTradeFlags(o) /\ two.trades[i].signature = SigBytes(o)
      BY DEF EncodeSettle, EncodeTrade
    <2>4. o.source = "erc20" /\ ~o.hooks
      BY <2>1
    <2>5. SigBytes(o) = CASE o.scheme = "presign" -> <<"owner">>
                          [] o.scheme = "eip1271" -> <<"owner", "payload">>
                          [] OTHER -> <<"payload">>
      <3>1. /\ Head(<<"payload">>) = "payload" /\ Head(<<"owner", "payload">>) = "owner"
            /\ <<"owner">> \o <<"payload">> = <<"owner", "payload">>
        BY PrefixIs
      <3>2. CASE o.scheme = "presign"
        BY <3>2 DEF SigBytes
      <3>3. CASE o.scheme = "eip1271" /\ o.signature = "prefixed"
        <4>1. ServedSignature(o) = <<"owner", "payload">>
          BY <3>3 DEF ServedSignature
        <4>2. QED
          BY <3>1, <3>3, <4>1 DEF SigBytes
      <3>4. CASE o.scheme = "eip1271" /\ o.signature # "prefixed"
        <4>1. ServedSignature(o) = <<"payload">>
          BY <3>4 DEF ServedSignature
        <4>2. QED
          BY <3>1, <3>4, <4>1 DEF SigBytes
      <3>5. CASE o.scheme # "presign" /\ o.scheme # "eip1271"
        <4>1. ServedSignature(o) = <<"payload">>
          BY <3>5 DEF ServedSignature
        <4>2. QED
          BY <3>5, <4>1 DEF SigBytes
      <3>6. QED
        BY <3>2, <3>3, <3>4, <3>5
    <2>6. EncodeTradeFlags(o) = [kind |-> o.kind, partial |-> o.partial, scheme |-> o.scheme,
                                 sellBalance |-> o.source]
      BY <2>4 DEF EncodeTradeFlags
    <2> HIDE DEF two
    <2>7. Authentic(two.trades[i])
      BY <1>1, <2>3, <2>5, <2>6 DEF Authentic
    <2>8. QED
      BY <2>4, <2>7
  <1>3. one.trades = two.trades
    <2>1. /\ one.trades = [i \in DOMAIN s.trades |-> one.trades[i]]
          /\ two.trades = [i \in DOMAIN s.trades |-> two.trades[i]]
      BY DEF EncodeSettle, DriverSettle
    <2> HIDE DEF one, two
    <2>2. QED
      BY <1>1, <1>2, <2>1
  <1> HIDE DEF one, two
  <1>4. ASSUME NEW i \in DOMAIN one.trades, Funded(c, one, one.trades[i])
        PROVE  Funded(c, two, two.trades[i])
    <2> DEFINE trade == two.trades[i]
    <2>1. Pulled(one, trade) = Pulled(two, trade)
      BY <1>1 DEF Pulled, SellPrice, BuyPrice
    <2>2. Orders[trade.uid].source = "erc20" /\ ~Orders[trade.uid].hooks
      BY <1>1, <1>2
    <2>3. one.trades[i] = trade
      BY <1>3
    <2> HIDE DEF trade
    <2>4. Fillable(c, trade.uid, Whole(trade), Pulled(two, trade))
      BY <1>4, <2>1, <2>3 DEF Funded
    <2>5. c.allowance[trade.uid] >= Pulled(two, trade)
      BY <2>2, <2>4 DEF Fillable
    <2>6. Funded(c, two, trade)
      BY <2>4, <2>5 DEF Funded
    <2>7. QED
      BY <2>6 DEF trade
  <1>5. Settles(c, one)
    BY DEF one
  <1>6. QED
    BY <1>1, <1>3, <1>4, <1>5, SettlesAlike DEF two

-----------------------------------------------------------------------------
(* What the gate and the check have established.                           *)

\* What led up to the state: nothing is judged before it is built, and what is
\* submitted was simulated and compared with the outside as it is.
Judged ==
    /\ outcome # "none" => phase = "idle"
    /\ phase \in {"listed", "quoting", "funding", "ebbo", "gate"} => gate = NoVerdict
    /\ phase = "submitted" =>
         /\ Settles(Chains[gate.at], EncodeSettle(sol))
         /\ moves = 0 => chain = gate.at
    /\ phase = "submitted" \/ outcome # "none" => ~DuplicateTokens(sol)
    /\ phase \in {"gate", "submitted"} \/ outcome # "none" =>
         ValidateSolutionEbbo(Chains[ebbo.at].pools, sol, ebbo.failed)

\* What the gate is proved by.
GateInv == Judged /\ RevertNeedsMove /\ PhantomsRevert

\* At the start the gate has judged nothing.
LEMMA JudgedInit == Init => GateInv
  BY DEF Init, GateInv, Judged, RevertNeedsMove, PhantomsRevert, NoVerdict

\* Steps that touch neither the solution nor a judgement.
LEMMA QuietStep ==
    ASSUME Typed, GateInv, UNCHANGED <<chain, moves, sol, ebbo, gate, outcome>>,
           phase' \notin {"gate", "submitted"}, outcome = "none",
           phase \in {"listed", "quoting", "funding", "ebbo", "gate"}
    PROVE  GateInv'
  BY DEF GateInv, Judged, RevertNeedsMove, PhantomsRevert, NoVerdict

\* A solution just built has no verdict yet.
LEMMA BuiltStep ==
    ASSUME GateInv, phase = "quoting", NEW s, NEW after \in {"idle", "funding", "ebbo"}, NEW lost,
           Built(s, after, lost)
    PROVE  GateInv'
  <1>1. gate = NoVerdict /\ gate' = NoVerdict /\ outcome = "none" /\ outcome' = "none"
    BY DEF GateInv, Judged, Built
  <1>2. phase' \in {"idle", "funding", "ebbo"}
    BY DEF Built
  <1>3. QED
    BY <1>1, <1>2 DEF GateInv, Judged, RevertNeedsMove, PhantomsRevert, NoVerdict

\* The verdict is that of the chain it was asked of.
LEMMA GateCheckStep ==
    ASSUME Typed, GateInv, NEW known, NEW answered, GateCheck(known, answered)
    PROVE  GateInv'
  <1>1. /\ phase = "gate" /\ outcome = "none" /\ outcome' = "none" /\ sol' = sol /\ ebbo' = ebbo
        /\ chain' = chain
        /\ gate'.verdict = ValidateSolution(Chains[chain], sol, known, answered) /\ gate'.at = chain
        /\ phase' = IF gate'.verdict = "feasible" /\ sim = 0 THEN "submitted" ELSE "idle"
    BY DEF GateInv, Judged, GateCheck, GateBlock
  <1>2. ValidateSolutionEbbo(Chains[ebbo.at].pools, sol, ebbo.failed)
    BY <1>1 DEF GateInv, Judged
  <1>3. ASSUME gate'.verdict = "feasible"
        PROVE  ~DuplicateTokens(sol) /\ Settles(Chains[chain], EncodeSettle(sol))
    BY <1>1, <1>3 DEF ValidateSolution, Encodable
  <1>4. ASSUME gate'.verdict = "phantom",
               \A u \in ToSet(TradedUids(sol)) : Orders[u].source = "erc20" /\ ~Orders[u].hooks
        PROVE  ~Settles(Chains[chain], DriverSettle(sol))
    <2>1. Encodable(sol, known) /\ ~Settles(Chains[chain], EncodeSettle(sol))
      BY <1>1, <1>4 DEF ValidateSolution
    <2>2. IsSolution(sol)
      BY DEF Typed
    <2>3. QED
      BY <1>4, <2>1, <2>2, GateIsFair
  <1>5. Judged'
    BY <1>1, <1>2, <1>3 DEF Judged
  <1>6. RevertNeedsMove'
    BY <1>1 DEF RevertNeedsMove
  <1>7. PhantomsRevert'
    <2> SUFFICES ASSUME gate'.verdict = "phantom",
                        \A u \in ToSet(TradedUids(sol')) : Orders[u].source = "erc20" /\ ~Orders[u].hooks
                 PROVE  ~Settles(Chains[gate'.at], DriverSettle(sol'))
      BY DEF PhantomsRevert
    <2>1. QED
      BY <1>1, <1>4
  <1>8. QED
    BY <1>5, <1>6, <1>7 DEF GateInv

\* Settling on an unmoved chain repeats the verdict.
LEMMA SettleStep ==
    ASSUME Typed, GateInv, Settle
    PROVE  GateInv'
  <1>1. /\ phase = "submitted" /\ phase' = "idle"
        /\ sol' = sol /\ ebbo' = ebbo /\ gate' = gate /\ chain' = chain /\ moves' = moves
        /\ outcome' = IF Settles(Chains[chain], DriverSettle(sol)) THEN "settled" ELSE "reverted"
    BY DEF Settle
  <1>2. /\ Settles(Chains[gate.at], EncodeSettle(sol)) /\ ~DuplicateTokens(sol)
        /\ moves = 0 => chain = gate.at
        /\ ValidateSolutionEbbo(Chains[ebbo.at].pools, sol, ebbo.failed)
    BY <1>1 DEF GateInv, Judged
  <1>3. Settles(Chains[gate.at], DriverSettle(sol))
    BY <1>2, GateIsStrict DEF Typed
  <1>4. moves \in Nat
    BY ClearingAssumption DEF Typed, TypeOK
  <1>5. RevertNeedsMove'
    <2>1. CASE chain = gate.at
      BY <1>1, <1>3, <2>1 DEF RevertNeedsMove
    <2>2. CASE chain # gate.at
      BY <1>1, <1>2, <1>4, <2>2 DEF RevertNeedsMove
    <2>3. QED
      BY <2>1, <2>2
  <1>6. Judged'
    BY <1>1, <1>2 DEF Judged
  <1>7. PhantomsRevert'
    BY <1>1 DEF GateInv, PhantomsRevert
  <1>8. QED
    BY <1>5, <1>6, <1>7 DEF GateInv

\* Each step keeps it.
LEMMA GateStep ==
    ASSUME Typed, GateInv, [Next]_vars
    PROVE  GateInv'
  <1>1. ASSUME NEW a \in Auctions, NEW s \in {"joint", "router", "naive", "edge"},
               NEW replayed \in BOOLEAN, Start(a, s, replayed)
        PROVE  GateInv'
    <2>1. phase' \in {"listed", "quoting"} /\ gate' = NoVerdict /\ outcome' = "none"
      BY <1>1 DEF Start
    <2>2. QED
      BY <2>1 DEF GateInv, Judged, RevertNeedsMove, PhantomsRevert, NoVerdict
  <1>2. ASSUME NEW c \in DOMAIN Chains, ChainMoves(c) PROVE GateInv'
    <2>1. /\ phase # "idle" /\ outcome = "none" /\ moves' = moves + 1 /\ moves \in Nat
          /\ UNCHANGED <<phase, sol, ebbo, gate, outcome>>
      BY <1>2, ClearingAssumption DEF ChainMoves, GateInv, Judged, Typed, TypeOK
    <2>2. moves' # 0
      BY <2>1
    <2>3. QED
      BY <2>1, <2>2 DEF GateInv, Judged, RevertNeedsMove, PhantomsRevert
  <1>3. ASSUME NEW lost \in SUBSET Checks, ValidityFilter(lost) PROVE GateInv'
    BY <1>3, QuietStep DEF ValidityFilter, GateInv, Judged
  <1>4. ASSUME NEW lost \in SUBSET Checks, FundingGate(lost) PROVE GateInv'
    BY <1>4, QuietStep DEF FundingGate, GateInv, Judged
  <1>5. ASSUME NEW lost \in SUBSET V3Calls, JointClears(lost) PROVE GateInv'
    BY <1>5, BuiltStep DEF JointClears
  <1>6. ASSUME NEW lost \in SUBSET ToSet(uids), RouterSolves(lost) PROVE GateInv'
    BY <1>6, BuiltStep DEF RouterSolves
  <1>7. ASSUME NEW lost \in SUBSET {PairOf(u) : u \in ToSet(uids)}, NaiveSolves(lost)
        PROVE  GateInv'
    BY <1>7, BuiltStep DEF NaiveSolves
  <1>8. ASSUME NEW s \in EdgeSolutions \cup {NoSolution}, EdgeProposes(s) PROVE GateInv'
    BY <1>8, BuiltStep DEF EdgeProposes
  <1>9. ASSUME NEW failed \in SUBSET ToSet(TradedUids(sol)), EbboCheck(failed) PROVE GateInv'
    <2>1. /\ phase = "ebbo" /\ gate = NoVerdict /\ outcome = "none" /\ gate' = gate
          /\ outcome' = outcome /\ sol' = sol /\ moves' = moves /\ chain' = chain
          /\ ebbo'.at = chain /\ ebbo'.failed = failed
          /\ ebbo'.passes = ValidateSolutionEbbo(Pools, sol, failed)
          /\ phase' = IF ebbo'.passes THEN "gate" ELSE "idle"
      BY <1>9 DEF EbboCheck, GateInv, Judged
    <2>2. phase' = "gate" => ValidateSolutionEbbo(Chains[ebbo'.at].pools, sol', ebbo'.failed)
      BY <2>1 DEF Pools
    <2>3. QED
      BY <2>1, <2>2 DEF GateInv, Judged, RevertNeedsMove, PhantomsRevert, NoVerdict
  <1>10. ASSUME NEW known \in SUBSET ToSet(TradedUids(sol)), NEW answered \in BOOLEAN,
                GateCheck(known, answered)
         PROVE  GateInv'
    BY <1>10, GateCheckStep
  <1>11. CASE Settle
    BY <1>11, SettleStep
  <1>12. CASE UNCHANGED vars
    BY <1>12 DEF vars, GateInv, Judged, RevertNeedsMove, PhantomsRevert
  <1>13. QED
    BY <1>1, <1>2, <1>3, <1>4, <1>5, <1>6, <1>7, <1>8, <1>9, <1>10, <1>11, <1>12 DEF Next

\* The types and the verdict of the gate hold in every state.
LEMMA GateHolds == Spec => [](Typed /\ GateInv)
  <1>1. Typed /\ GateInv /\ [Next]_vars => (Typed /\ GateInv)'
    BY TypedStep, GateStep
  <1>2. Init => Typed /\ GateInv
    BY TypedInit, JudgedInit
  <1>3. QED
    BY <1>1, <1>2, PTL DEF Spec

\* For any solution, whoever proposed it: one the gate has passed reverts only
\* if the chain is no longer where it was simulated.
THEOREM GatePassesWhatSettles == Spec => []RevertNeedsMove
  <1>1. Typed /\ GateInv => RevertNeedsMove
    BY DEF GateInv
  <1>2. QED
    BY <1>1, GateHolds, PTL

\* For any solution of orders that need neither hooks nor the vault: what the
\* gate calls a phantom, the settlement would have reverted.
THEOREM PhantomsAreReal == Spec => []PhantomsRevert
  <1>1. Typed /\ GateInv => PhantomsRevert
    BY DEF GateInv
  <1>2. QED
    BY <1>1, GateHolds, PTL

-----------------------------------------------------------------------------
(* What the score and the outside promise the trader.                      *)

\* Arithmetic of a price: what a sell at its signed amount needs, and a buy.
LEMMA SellNearLimit ==
    ASSUME NEW sell \in Nat \ {0}, NEW buy \in Nat \ {0}, NEW ps \in Nat \ {0}, NEW pb \in Nat \ {0},
           ~(CeilDiv(sell * ps, pb) < CeilDiv(sell * buy, sell))
    PROVE  sell * ps > (buy - 1) * pb
  <1>1. CeilDiv(sell * buy, sell) = buy
    <2>1. (sell * buy + sell - 1) \div sell = buy
      OBVIOUS
    <2>2. QED
      BY <2>1 DEF CeilDiv
  <1> DEFINE x == sell * ps
  <1>2. x \in Nat
    OBVIOUS
  <1> HIDE DEF x
  <1>3. (x + pb - 1) \div pb >= buy
    <2>1. (x + pb - 1) \div pb = CeilDiv(sell * ps, pb)
      BY DEF CeilDiv, x
    <2>2. (x + pb - 1) \div pb \in Int
      BY <1>2
    <2>3. QED
      BY <1>1, <2>1, <2>2
  <1>4. x > (buy - 1) * pb
    <2> DEFINE k == (x + pb - 1) \div pb
    <2>1. k * pb <= x + pb - 1 /\ k \in Int
      BY <1>2
    <2> HIDE DEF k
    <2>2. buy * pb <= k * pb
      BY <1>3, <2>1 DEF k
    <2>3. (buy - 1) * pb = buy * pb - pb
      OBVIOUS
    <2>4. buy * pb \in Int /\ k * pb \in Int
      BY <2>1
    <2> DEFINE a == buy * pb
               b == k * pb
    <2>5. a \in Int /\ b \in Int /\ a <= b /\ b <= x + pb - 1
      BY <2>1, <2>2, <2>4
    <2> HIDE DEF a, b
    <2>6. x > a - pb
      BY <1>2, <2>5
    <2>7. QED
      BY <2>3, <2>6 DEF a
  <1>5. QED
    BY <1>4 DEF x

\* The same of a buy order.
LEMMA BuyNearLimit ==
    ASSUME NEW sell \in Nat \ {0}, NEW buy \in Nat \ {0}, NEW ps \in Nat \ {0}, NEW pb \in Nat \ {0},
           ~((buy * pb) \div ps > (buy * sell) \div buy)
    PROVE  (sell + 1) * ps > buy * pb
  <1>1. (buy * sell) \div buy = sell
    OBVIOUS
  <1> DEFINE x == buy * pb
             k == x \div ps
  <1>2. x \in Nat
    OBVIOUS
  <1>3. k <= sell /\ k \in Int /\ x < (k + 1) * ps
    <2> HIDE DEF x
    <2>1. k \in Int /\ x < (k + 1) * ps
      BY <1>2
    <2>2. k <= sell
      <3>1. ~(k > sell)
        BY <1>1 DEF x
      <3> HIDE DEF k
      <3>2. QED
        BY <2>1, <3>1
    <2>3. QED
      BY <2>1, <2>2
  <1> HIDE DEF x, k
  <1>4. (k + 1) * ps <= (sell + 1) * ps
    BY <1>3
  <1> DEFINE a == (k + 1) * ps
             b == (sell + 1) * ps
  <1>5. a \in Int /\ b \in Int
    BY <1>3
  <1>6. a <= b /\ x < a
    BY <1>3, <1>4
  <1> HIDE DEF a, b
  <1>7. x < b
    BY <1>2, <1>5, <1>6
  <1>8. QED
    BY <1>7 DEF x, b

\* The score adds what no trade outside its limit may have.
LEMMA ScoredNear ==
    ASSUME Typed
    PROVE  ScoredTradesNearLimit
  <1> SUFFICES ASSUME ~DuplicateTokens(sol), ComputeSolutionScore(sol) > 0,
                      NEW i \in DOMAIN DriverSettle(sol).trades,
                      DriverSettle(sol).trades[i].executed
                         = Target(Orders[DriverSettle(sol).trades[i].uid])
               PROVE  LET call == DriverSettle(sol)
                          o == Orders[call.trades[i].uid]
                      IN  IF o.kind = "sell"
                          THEN o.sellAmount * SellPrice(call, call.trades[i])
                                  > (o.buyAmount - 1) * BuyPrice(call, call.trades[i])
                          ELSE (o.sellAmount + 1) * SellPrice(call, call.trades[i])
                                  > o.buyAmount * BuyPrice(call, call.trades[i])
    BY DEF ScoredTradesNearLimit
  <1> DEFINE call == DriverSettle(sol)
             trade == sol.trades[i]
             o == Orders[trade.uid]
             ps == ScorePrice(sol, o.sellToken)
             pb == ScorePrice(sol, o.buyToken)
  <1>1. /\ i \in DOMAIN sol.trades
        /\ call.trades[i].uid = trade.uid /\ call.trades[i].executed = trade.executed
        /\ call.trades[i].sellIndex = TokenIndex(sol, o.sellToken)
        /\ call.trades[i].buyIndex = TokenIndex(sol, o.buyToken)
    BY DEF DriverSettle
  <1>2. IsSolution(sol) /\ trade.uid \in Uids
    <2>1. IsSolution(sol) /\ sol.trades \in Seq(Trade)
      BY DEF Typed, IsSolution
    <2>2. trade \in Trade
      BY <1>1, <2>1
    <2>3. QED
      BY <2>1, <2>2 DEF Trade
  <1>3. /\ o.sellToken \in DOMAIN Lower /\ o.buyToken \in DOMAIN Lower
        /\ Lower[o.sellToken] \in Spelled(sol) /\ Lower[o.buyToken] \in Spelled(sol)
    BY <1>1, <1>2, OrderFacts DEF IsSolution, Spelled
  <1>4. /\ SellPrice(call, call.trades[i]) = ps /\ ps \in Nat \ {0}
        /\ BuyPrice(call, call.trades[i]) = pb /\ pb \in Nat \ {0}
    BY <1>1, <1>2, <1>3, PriceIs DEF SellPrice, BuyPrice
  <1>5. ~OutsideLimit(sol, trade)
    BY <1>1 DEF ComputeSolutionScore
  <1>6. trade.executed = Target(o)
    BY <1>1
  <1> DEFINE sell == o.sellAmount
             buy == o.buyAmount
  <1>7. sell \in Nat \ {0} /\ buy \in Nat \ {0}
    BY <1>2, OrderFacts
  <1> HIDE DEF call
  <1>8. CASE o.kind = "sell"
    <2>1. trade.executed = sell
      BY <1>6, <1>8 DEF Target
    <2>2. ~(CeilDiv(sell * ps, pb) < CeilDiv(sell * buy, sell))
      BY <1>4, <1>5, <1>8, <2>1 DEF OutsideLimit, Bought, LimitBuy
    <2>3. sell * ps > (buy - 1) * pb
      <3> HIDE DEF sell, buy, ps, pb
      <3>1. QED
        BY <1>4, <1>7, <2>2, SellNearLimit
    <2>4. QED
      BY <1>1, <1>4, <1>8, <2>3 DEF call
  <1>9. CASE o.kind # "sell"
    <2>1. trade.executed = buy
      BY <1>6, <1>9 DEF Target
    <2>2. ~((buy * pb) \div ps > (buy * sell) \div buy)
      BY <1>4, <1>5, <1>9, <2>1 DEF OutsideLimit, Sold, LimitSell
    <2>3. (sell + 1) * ps > buy * pb
      <3> HIDE DEF sell, buy, ps, pb
      <3>1. QED
        BY <1>4, <1>7, <2>2, BuyNearLimit
    <2>4. QED
      BY <1>1, <1>4, <1>9, <2>3 DEF call
  <1>10. QED
    BY <1>8, <1>9

\* For any solution, those of edge included: one that scores has no whole fill
\* more than a unit outside what its owner signed.
THEOREM ScoresRespectLimits == Spec => []ScoredTradesNearLimit
  <1>1. Typed => ScoredTradesNearLimit
    BY ScoredNear
  <1>2. QED
    BY <1>1, TypeCorrect, PTL

\* The outside has a quote, or it has 0.
LEMMA ExternalNat ==
    ASSUME NEW c, IsChain(c), NEW u \in Uids, NEW n \in Nat, Orders[u].kind = "sell"
    PROVE  QuoteBestExactInput(c.pools, Lower[Orders[u].sellToken], Lower[Orders[u].buyToken], n) \in Nat
  <1> DEFINE All == V3Routes(Lower[Orders[u].sellToken], Lower[Orders[u].buyToken])
             g == [r \in All |-> RouteOut(c.pools, r, n)]
             outs == {g[r] : r \in All}
  <1>1. IsFiniteSet(All) /\ All # {}
    BY OrderFacts, V3RoutesFacts
  <1> HIDE DEF All
  <1>2. IsFiniteSet(outs)
    <2> HIDE DEF g
    <2>1. QED
      BY <1>1, FiniteImage
  <1>3. outs \subseteq Nat /\ outs # {}
    BY <1>1, RouteOutNat
  <1>4. outs = {RouteOut(c.pools, r, n) : r \in All}
    OBVIOUS
  <1> HIDE DEF outs
  <1>5. Largest(outs) \in Nat
    BY <1>2, <1>3, LargestIs
  <1>6. QED
    BY <1>4, <1>5 DEF QuoteBestExactInput, All

\* A trader who sells more gets no less.
LEMMA BoughtGrows ==
    ASSUME NEW a \in Nat, NEW b \in Nat, a <= b, NEW ps \in Nat \ {0}, NEW pb \in Nat \ {0}
    PROVE  Bought(a, ps, pb) \in Nat /\ Bought(b, ps, pb) \in Nat /\ Bought(a, ps, pb) <= Bought(b, ps, pb)
  <1> DEFINE x == a * ps
             y == b * ps
  <1>1. x \in Nat /\ y \in Nat /\ x <= y
    OBVIOUS
  <1> HIDE DEF x, y
  <1>2. (x + pb - 1) \div pb \in Nat /\ (y + pb - 1) \div pb \in Nat
        /\ (x + pb - 1) \div pb <= (y + pb - 1) \div pb
    BY <1>1
  <1>3. QED
    BY <1>2 DEF Bought, CeilDiv, x, y

\* What the check lets pass is within the tolerance, and a unit.
LEMMA WithinTolerance ==
    ASSUME NEW best \in Nat, NEW keep \in Nat, NEW unit \in Nat \ {0}, NEW bought \in Nat, NEW paid \in Nat,
           bought <= paid, ~(bought < (best * keep) \div unit)
    PROVE  (paid + 1) * unit >= best * keep
  <1> DEFINE x == best * keep
             k == x \div unit
  <1>1. x \in Nat
    OBVIOUS
  <1>2. k \in Int /\ x < (k + 1) * unit /\ k <= paid
    <2> HIDE DEF x
    <2>1. k \in Int /\ x < (k + 1) * unit
      BY <1>1
    <2>2. ~(bought < k)
      BY DEF x
    <2> HIDE DEF k
    <2>3. QED
      BY <2>1, <2>2
  <1> HIDE DEF x, k
  <1>3. (k + 1) * unit <= (paid + 1) * unit
    BY <1>2
  <1> DEFINE a == (k + 1) * unit
             b == (paid + 1) * unit
  <1>4. a \in Int /\ b \in Int /\ a <= b /\ x < a
    BY <1>2, <1>3
  <1> HIDE DEF a, b
  <1>5. b >= x
    BY <1>1, <1>4
  <1>6. QED
    BY <1>5 DEF b, x

\* What the check passes is near the best outside quote.
LEMMA ExternalBest ==
    ASSUME Typed, GateInv
    PROVE  TradersGetExternalBest
  <1> SUFFICES ASSUME outcome = "settled", Chains[ebbo.at].pools = Chains[chain].pools,
                      NEW i \in DOMAIN sol.trades,
                      Orders[sol.trades[i].uid].kind = "sell", sol.trades[i].uid \notin ebbo.failed,
                      {Orders[sol.trades[i].uid].sellToken, Orders[sol.trades[i].uid].buyToken}
                         \subseteq DOMAIN sol.prices
               PROVE  LET call == DriverSettle(sol)
                      IN  (Paid(call, call.trades[i]) + 1) * Unit
                             >= External(Pools, sol.trades[i]) * (Unit - ToleranceBps)
    BY DEF TradersGetExternalBest
  <1> DEFINE call == DriverSettle(sol)
             trade == sol.trades[i]
             o == Orders[trade.uid]
             ps == ScorePrice(sol, o.sellToken)
             pb == ScorePrice(sol, o.buyToken)
             best == External(Pools, trade)
             paid == Paid(call, call.trades[i])
  <1>1. /\ call.trades[i].uid = trade.uid /\ call.trades[i].executed = trade.executed
        /\ call.trades[i].sellIndex = TokenIndex(sol, o.sellToken)
        /\ call.trades[i].buyIndex = TokenIndex(sol, o.buyToken)
    BY DEF DriverSettle
  <1>2. IsSolution(sol) /\ trade.uid \in Uids /\ trade.executed \in Nat
        /\ trade.executed <= Target(o)
    <2>1. IsSolution(sol) /\ sol.trades \in Seq(Trade)
      BY DEF Typed, IsSolution
    <2>2. trade \in Trade
      BY <2>1
    <2>3. trade.uid \in Uids /\ trade.executed \in Nat
      BY <2>2 DEF Trade
    <2>4. trade.executed <= Target(o)
      BY <2>1 DEF IsSolution
    <2>5. QED
      BY <2>1, <2>3, <2>4
  <1>3. ~DuplicateTokens(sol) /\ ValidateSolutionEbbo(Pools, sol, ebbo.failed)
    BY DEF GateInv, Judged, Pools
  <1>4. /\ o.sellToken \in DOMAIN Lower /\ o.buyToken \in DOMAIN Lower
        /\ Lower[o.sellToken] \in Spelled(sol) /\ Lower[o.buyToken] \in Spelled(sol)
    BY <1>2, OrderFacts DEF Spelled
  <1>5. /\ SellPrice(call, call.trades[i]) = ps /\ ps \in Nat \ {0} /\ EbboPrice(sol, o.sellToken) = ps
        /\ BuyPrice(call, call.trades[i]) = pb /\ pb \in Nat \ {0} /\ EbboPrice(sol, o.buyToken) = pb
    BY <1>1, <1>2, <1>3, <1>4, PriceIs DEF SellPrice, BuyPrice, EbboPrice
  <1>6. best \in Nat
    <2>1. best = QuoteBestExactInput(Chains[chain].pools, Lower[o.sellToken], Lower[o.buyToken],
                                     trade.executed)
      BY DEF External, Pools
    <2> HIDE DEF best, trade
    <2>2. QED
      BY <1>2, <2>1, ChainFacts, ExternalNat DEF trade
  <1>7. /\ paid = Bought(Whole(call.trades[i]), ps, pb)
        /\ Whole(call.trades[i]) = IF o.partial THEN trade.executed ELSE Target(o)
    BY <1>1, <1>5 DEF Paid, Whole
  <1>8. Target(o) \in Nat /\ o.partial \in BOOLEAN
    BY <1>2, OrderFacts
  <1>9. /\ Bought(trade.executed, ps, pb) \in Nat /\ paid \in Nat
        /\ Bought(trade.executed, ps, pb) <= paid
    <2>1. CASE o.partial
      <3>1. trade.executed <= trade.executed
        BY <1>2
      <3> HIDE DEF ps, pb, paid, call
      <3>2. QED
        BY <1>2, <1>5, <1>7, <2>1, <3>1, BoughtGrows
    <2>2. CASE ~o.partial
      <3> HIDE DEF ps, pb, paid, call
      <3>1. QED
        BY <1>2, <1>5, <1>7, <1>8, <2>2, BoughtGrows
    <2>3. QED
      BY <2>1, <2>2
  <1>10. Unit \in Nat \ {0} /\ Unit - ToleranceBps \in Nat
    BY EbboAssumption
  <1>11. CASE best = 0
    <2> HIDE DEF best, paid
    <2>1. (paid + 1) * Unit \in Nat
      BY <1>9, <1>10
    <2>2. best * (Unit - ToleranceBps) = 0
      BY <1>10, <1>11
    <2>3. (paid + 1) * Unit >= best * (Unit - ToleranceBps)
      BY <2>1, <2>2
    <2>4. QED
      BY <2>3 DEF best, paid
  <1>12. CASE best > 0
    <2>1. Checked(Pools, sol, trade, ebbo.failed)
      BY <1>5, <1>12 DEF Checked
    <2>2. ~Violates(Pools, sol, trade)
      BY <1>3, <2>1 DEF ValidateSolutionEbbo
    <2>3. ~(Bought(trade.executed, ps, pb) < (best * (Unit - ToleranceBps)) \div Unit)
      BY <1>5, <2>2 DEF Violates
    <2> DEFINE bought == Bought(trade.executed, ps, pb)
    <2> HIDE DEF best, paid, bought
    <2>4. (paid + 1) * Unit >= best * (Unit - ToleranceBps)
      BY <1>6, <1>9, <1>10, <2>3, WithinTolerance DEF bought
    <2>5. QED
      BY <2>4 DEF best, paid
  <1>13. QED
    BY <1>6, <1>11, <1>12

\* For any solution, any pools and any tolerance below one: who sells in a
\* settled solution gets what V3 alone would have paid, less the tolerance and
\* a unit, while the pools stay as they were checked.
THEOREM OutsideIsMatched == Spec => []TradersGetExternalBest
  <1>1. Typed /\ GateInv => TradersGetExternalBest
    BY ExternalBest
  <1>2. QED
    BY <1>1, GateHolds, PTL

-----------------------------------------------------------------------------
(* Fills with a quote of their own.                                        *)

\* Trade i has another of its pair beside it.
Shared(trades, i) ==
    \E j \in DOMAIN trades : j # i /\ PairOf(trades[j].uid) = PairOf(trades[i].uid)

\* Sold whole for bought, which no V3 candidate beats.
BestFor(trade, pools, bought) ==
    LET o == Orders[trade.uid]
    IN  /\ o.kind = "sell" /\ trade.executed = o.sellAmount
        /\ \A r \in V3Routes(Lower[o.sellToken], Lower[o.buyToken]) :
              RouteOut(pools, r, o.sellAmount) <= bought

\* The solution prices the trade at just that.
OwnPrice(prices, trade, pools) ==
    LET o == Orders[trade.uid]
    IN  /\ {o.sellToken, o.buyToken} \subseteq DOMAIN prices
        /\ prices[o.buyToken] = o.sellAmount
        /\ BestFor(trade, pools, prices[o.sellToken])

\* Every trade is of an order in U, and shares its pair or has its own price.
FairlyPriced(s, pools, U) ==
    \A i \in DOMAIN s.trades :
        /\ s.trades[i].uid \in U
        /\ Shared(s.trades, i) \/ OwnPrice(s.prices, s.trades[i], pools)

\* A fill leaves the prices before it as they were.
PricesAfter(q, p, sell, buy, out, sold) ==
    /\ DOMAIN q = DOMAIN p \cup {sell, buy}
    /\ \A t \in DOMAIN p : q[t] = p[t]
    /\ q[sell] = out /\ q[buy] = sold

\* A fill prices the two tokens and leaves the others.
LEMMA FillKeepsPrices ==
    ASSUME NEW p, NEW sell, NEW buy, NEW out, NEW sold, sell # buy, Agrees(p, sell, buy, out, sold)
    PROVE  PricesAfter(With(With(p, sell, out), buy, sold), p, sell, buy, out, sold)
  BY DEF With, Agrees, PricesAfter

\* What a fill may add to keep a solution fair: as above, at this rate.
AddsFairly(trades, sell, buy, sold, out, pools, U) ==
    \A i \in DOMAIN trades :
        LET o == Orders[trades[i].uid]
        IN  /\ trades[i].uid \in U
            /\ \/ Shared(trades, i)
               \/ /\ o.sellToken = sell /\ o.buyToken = buy /\ sold = o.sellAmount
                  /\ BestFor(trades[i], pools, out)

\* So a fill at its own quote keeps the solution fairly priced.
LEMMA FillStaysFair ==
    ASSUME NEW s \in Solutions, NEW pools, NEW U, FairlyPriced(s, pools, U),
           NEW sell, NEW buy, sell # buy, NEW sold, NEW q, NEW trades \in Seq(Trade),
           AddsFairly(trades, sell, buy, sold, q.out, pools, U)
    PROVE  FairlyPriced(Fill(s, sell, buy, sold, q, trades), pools, U)
  <1> DEFINE after == Fill(s, sell, buy, sold, q, trades)
             p == With(With(s.prices, sell, q.out), buy, sold)
             old == s.trades
             all == old \o trades
  <1>1. CASE ~Agrees(s.prices, sell, buy, q.out, sold)
    BY <1>1 DEF Fill
  <1>2. CASE Agrees(s.prices, sell, buy, q.out, sold)
    <2>1. after.prices = p /\ after.trades = all
      BY <1>2 DEF Fill
    <2>2. PricesAfter(p, s.prices, sell, buy, q.out, sold)
      BY <1>2, FillKeepsPrices
    <2> HIDE DEF after, p
    <2>3. old \in Seq(Trade) /\ trades \in Seq(Trade)
      BY SolutionParts
    <2>4. FairlyPriced(s, pools, U) <=>
            \A i \in DOMAIN old : old[i].uid \in U
                /\ (Shared(old, i) \/ OwnPrice(s.prices, old[i], pools))
      BY DEF FairlyPriced
    <2> HIDE DEF old
    <2>5. /\ all \in Seq(Trade) /\ Len(all) = Len(old) + Len(trades)
          /\ \A i \in 1..Len(all) : all[i] = IF i <= Len(old) THEN old[i] ELSE trades[i - Len(old)]
          /\ Len(old) \in Nat /\ Len(trades) \in Nat /\ DOMAIN old = 1..Len(old)
          /\ DOMAIN trades = 1..Len(trades)
      BY <2>3, ConcatProperties
    <2> HIDE DEF all
    <2>6. /\ DOMAIN all = 1..(Len(old) + Len(trades))
          /\ \A i \in DOMAIN old : i \in DOMAIN all /\ all[i] = old[i]
          /\ \A i \in DOMAIN trades : i + Len(old) \in DOMAIN all /\ all[i + Len(old)] = trades[i]
          /\ \A i \in DOMAIN all : i \in DOMAIN old \/ i - Len(old) \in DOMAIN trades
      BY <2>5
    <2>7. ASSUME NEW i \in DOMAIN old
          PROVE  all[i].uid \in U /\ (Shared(all, i) \/ OwnPrice(p, all[i], pools))
      <3>1. all[i] = old[i] /\ old[i].uid \in U
        BY <2>4, <2>6
      <3>2. CASE Shared(old, i)
        <4>1. Shared(all, i)
          BY <2>6, <3>1, <3>2 DEF Shared
        <4>2. QED
          BY <3>1, <4>1
      <3>3. CASE OwnPrice(s.prices, old[i], pools)
        <4>1. OwnPrice(p, old[i], pools)
          BY <2>2, <3>3 DEF OwnPrice, PricesAfter
        <4>2. QED
          BY <3>1, <4>1
      <3>4. QED
        BY <2>4, <3>2, <3>3
    <2>8. ASSUME NEW k \in DOMAIN trades
          PROVE  /\ all[k + Len(old)].uid \in U
                 /\ Shared(all, k + Len(old)) \/ OwnPrice(p, all[k + Len(old)], pools)
      <3>1. all[k + Len(old)] = trades[k] /\ trades[k].uid \in U
        BY <2>6 DEF AddsFairly
      <3>2. CASE Shared(trades, k)
        <4>1. PICK j \in DOMAIN trades : j # k /\ PairOf(trades[j].uid) = PairOf(trades[k].uid)
          BY <3>2 DEF Shared
        <4>2. j + Len(old) \in DOMAIN all /\ j + Len(old) # k + Len(old)
              /\ all[j + Len(old)] = trades[j]
          BY <2>5, <2>6, <4>1
        <4>3. Shared(all, k + Len(old))
          BY <3>1, <4>1, <4>2 DEF Shared
        <4>4. QED
          BY <3>1, <4>3
      <3>3. CASE ~Shared(trades, k)
        <4>1. LET o == Orders[trades[k].uid]
              IN  /\ o.sellToken = sell /\ o.buyToken = buy /\ sold = o.sellAmount
                  /\ BestFor(trades[k], pools, q.out)
          BY <3>3 DEF AddsFairly
        <4>2. OwnPrice(p, trades[k], pools)
          BY <2>2, <4>1 DEF OwnPrice, PricesAfter
        <4>3. QED
          BY <3>1, <4>2
      <3>4. QED
        BY <3>2, <3>3
    <2>9. ASSUME NEW i \in DOMAIN all
          PROVE  all[i].uid \in U /\ (Shared(all, i) \/ OwnPrice(p, all[i], pools))
      <3>1. CASE i \in DOMAIN old
        BY <2>7, <3>1
      <3>2. CASE i - Len(old) \in DOMAIN trades
        <4> DEFINE k == i - Len(old)
        <4>1. k \in DOMAIN trades /\ k + Len(old) = i
          BY <2>5, <2>6, <3>2
        <4> HIDE DEF k
        <4>2. QED
          BY <2>8, <4>1
      <3>3. QED
        BY <2>6, <3>1, <3>2
    <2>10. QED
      BY <2>1, <2>9 DEF FairlyPriced, after
  <1>3. QED
    BY <1>1, <1>2

\* An order sold whole for the best there is.
LEMMA WholeAddsFairly ==
    ASSUME NEW u \in Uids, Orders[u].kind = "sell", NEW U, u \in U, NEW pools, NEW out,
           \A r \in V3Routes(Lower[Orders[u].sellToken], Lower[Orders[u].buyToken]) :
              RouteOut(pools, r, Orders[u].sellAmount) <= out
    PROVE  /\ WholeOf(u) \in Seq(Trade) /\ Orders[u].sellToken # Orders[u].buyToken
           /\ AddsFairly(WholeOf(u), Orders[u].sellToken, Orders[u].buyToken, Orders[u].sellAmount,
                         out, pools, U)
  <1> DEFINE trade == [uid |-> u, executed |-> Orders[u].sellAmount]
  <1>1. WholeOf(u) = <<trade>>
    BY DEF WholeOf
  <1>2. trade.uid = u /\ trade.executed = Orders[u].sellAmount
    OBVIOUS
  <1>3. WholeOf(u) \in Seq(Trade) /\ Orders[u].sellToken # Orders[u].buyToken
    BY WholeIs, OrderFacts DEF Exchange
  <1> HIDE DEF trade
  <1>4. BestFor(trade, pools, out)
    BY <1>2 DEF BestFor
  <1>5. DOMAIN WholeOf(u) = {1} /\ WholeOf(u)[1] = trade
    BY <1>1
  <1>6. QED
    BY <1>2, <1>3, <1>4, <1>5 DEF AddsFairly

\* Each step of the three builders is such a fill.
LEMMA LegacyStaysFair ==
    ASSUME NEW c, IsChain(c), NEW s \in Solutions, NEW U, FairlyPriced(s, c.pools, U),
           NEW u \in Uids, u \in U, NEW lost
    PROVE  FairlyPriced(LegacyFill(s, u, c.pools, lost), c.pools, U)
  <1> DEFINE o == Orders[u]
             out == BestPath(c.pools, Lower[o.sellToken], Lower[o.buyToken], o.sellAmount)
             q == [route |-> <<>>, out |-> out]
             skip == o.kind = "buy" \/ u \in lost \/ out = 0 \/ out < o.buyAmount
  <1>1. LegacyFill(s, u, c.pools, lost) =
           IF skip THEN s ELSE Fill(s, o.sellToken, o.buyToken, o.sellAmount, q, WholeOf(u))
    BY DEF LegacyFill
  <1>2. \A r \in V3Routes(Lower[o.sellToken], Lower[o.buyToken]) :
           RouteOut(c.pools, r, o.sellAmount) <= out
    BY OrderFacts, PathBeatsV3
  <1> HIDE DEF out
  <1>3. q.out = out
    OBVIOUS
  <1> HIDE DEF q
  <1>4. ASSUME ~skip
        PROVE  FairlyPriced(Fill(s, o.sellToken, o.buyToken, o.sellAmount, q, WholeOf(u)), c.pools, U)
    <2>1. o.kind = "sell"
      BY <1>4, OrderFacts
    <2>2. /\ WholeOf(u) \in Seq(Trade) /\ o.sellToken # o.buyToken
          /\ AddsFairly(WholeOf(u), o.sellToken, o.buyToken, o.sellAmount, q.out, c.pools, U)
      BY <1>2, <1>3, <2>1, WholeAddsFairly
    <2> HIDE DEF o
    <2>3. QED
      BY <2>2, FillStaysFair
  <1>5. QED
    BY <1>1, <1>4

\* One more fill on its own keeps the solution fairly priced.
LEMMA SoloStaysFair ==
    ASSUME NEW c, IsChain(c), NEW s \in Solutions, NEW U, FairlyPriced(s, c.pools, U),
           NEW u \in Uids, u \in U
    PROVE  FairlyPriced(FillSolo(s, u, c.pools, {}), c.pools, U)
  <1> DEFINE o == Orders[u]
             q == SoloQuote(u, c.pools, {})
             filled == \E i \in DOMAIN s.trades : s.trades[i].uid = u
             skip == filled \/ o.kind = "buy" \/ q.out = 0 \/ q.out < o.buyAmount
  <1>1. FillSolo(s, u, c.pools, {}) =
           IF skip THEN s ELSE Fill(s, o.sellToken, o.buyToken, o.sellAmount, q, WholeOf(u))
    BY DEF FillSolo
  <1>2. \A r \in V3Routes(Lower[o.sellToken], Lower[o.buyToken]) :
           RouteOut(c.pools, r, o.sellAmount) <= q.out
    BY SoloQuoteIs
  <1> HIDE DEF q, filled
  <1>3. ASSUME ~skip
        PROVE  FairlyPriced(Fill(s, o.sellToken, o.buyToken, o.sellAmount, q, WholeOf(u)), c.pools, U)
    <2>1. o.kind = "sell"
      BY <1>3, OrderFacts
    <2>2. /\ WholeOf(u) \in Seq(Trade) /\ o.sellToken # o.buyToken
          /\ AddsFairly(WholeOf(u), o.sellToken, o.buyToken, o.sellAmount, q.out, c.pools, U)
      BY <1>2, <2>1, WholeAddsFairly
    <2> HIDE DEF o
    <2>3. QED
      BY <2>2, FillStaysFair
  <1>4. QED
    BY <1>1, <1>3

\* The members of a group of two or more share their pair.
LEMMA GroupStaysFair ==
    ASSUME NEW c, IsChain(c), NEW s \in Solutions, NEW U, FairlyPriced(s, c.pools, U),
           NEW group, IsGroup(group), Len(group) >= 2, \A i \in DOMAIN group : group[i] \in U,
           NEW tiers
    PROVE  FairlyPriced(FillGroup(s, group, c.pools, tiers), c.pools, U)
  <1> DEFINE pair == PairOf(Head(group))
             routes == {r \in V3Routes(pair[1], pair[2]) : r[1][3] \in tiers}
             sold == Combined(group)
             best == BestQuote(c.pools, routes, sold)
             trades == [i \in DOMAIN group |-> WholeOf(group[i])[1]]
             skip == best.out = 0 \/ ~AllLimitsSatisfied(group, sold, best.out)
  <1>1. FillGroup(s, group, c.pools, tiers) =
           IF skip THEN s ELSE Fill(s, pair[1], pair[2], sold, best, trades)
    BY DEF FillGroup
  <1>2. /\ Head(group) = group[1] /\ Len(group) \in Nat /\ DOMAIN group = 1..Len(group)
        /\ \A i \in DOMAIN group : group[i] \in Uids
        /\ 1 \in DOMAIN group /\ 2 \in DOMAIN group
    BY DEF IsGroup
  <1>3. pair[1] # pair[2]
    BY <1>2, OrderFacts DEF PairOf
  <1>4. ASSUME NEW i \in DOMAIN group
        PROVE  trades[i] \in Trade /\ trades[i].uid = group[i]
    <2>1. trades[i] = [uid |-> group[i], executed |-> Orders[group[i]].sellAmount]
      BY DEF WholeOf
    <2> HIDE DEF trades
    <2>2. QED
      BY <1>2, <2>1, OrderFacts DEF Trade
  <1>5. DOMAIN trades = DOMAIN group /\ trades \in Seq(Trade)
    <2>1. DOMAIN trades = 1..Len(group) /\ trades = [i \in 1..Len(group) |-> trades[i]]
      BY <1>2
    <2>2. \A i \in 1..Len(group) : trades[i] \in Trade
      BY <1>2, <1>4
    <2> HIDE DEF trades
    <2>3. QED
      BY <1>2, <2>1, <2>2
  <1> HIDE DEF trades, best, sold, pair
  <1>6. ASSUME NEW i \in DOMAIN trades PROVE trades[i].uid \in U /\ Shared(trades, i)
    <2>1. /\ i \in DOMAIN group /\ trades[i].uid = group[i]
          /\ trades[1].uid = group[1] /\ trades[2].uid = group[2]
          /\ 1 \in DOMAIN trades /\ 2 \in DOMAIN trades
      BY <1>2, <1>4, <1>5
    <2>2. PairOf(group[i]) = PairOf(group[1]) /\ PairOf(group[2]) = PairOf(group[1])
      BY <1>2, <2>1 DEF IsGroup
    <2>3. CASE i = 1
      <3>1. PairOf(trades[2].uid) = PairOf(trades[i].uid) /\ 2 # i
        BY <2>1, <2>2, <2>3
      <3>2. QED
        BY <2>1, <3>1 DEF Shared
    <2>4. CASE i # 1
      <3>1. PairOf(trades[1].uid) = PairOf(trades[i].uid)
        BY <2>1, <2>2
      <3>2. QED
        BY <2>1, <2>4, <3>1 DEF Shared
    <2>5. QED
      BY <2>3, <2>4
  <1>7. AddsFairly(trades, pair[1], pair[2], sold, best.out, c.pools, U)
    BY <1>6 DEF AddsFairly
  <1>8. FairlyPriced(Fill(s, pair[1], pair[2], sold, best, trades), c.pools, U)
    BY <1>3, <1>5, <1>7, FillStaysFair
  <1>9. QED
    BY <1>1, <1>8

\* The router's solutions, and those of joint clearing when no call failed.
LEMMA LegacyFair ==
    ASSUME NEW c, IsChain(c), NEW us \in Seq(Uids), NEW lost
    PROVE  FairlyPriced(LegacySolve(us, c.pools, lost), c.pools, ToSet(us))
  <1> DEFINE U == ToSet(us)
             D == {s \in Solutions : FairlyPriced(s, c.pools, U)}
             f == LegacyFills(us, c.pools, lost)
  <1>1. Len(us) \in Nat /\ \A n \in 1..Len(us) : us[n] \in Uids /\ us[n] \in U
    BY DEF ToSet
  <1> HIDE DEF U
  <1>2. f[0] \in D
    <2>1. FairlyPriced(NoSolution, c.pools, U)
      BY DEF FairlyPriced, NoSolution
    <2>2. QED
      BY <2>1, LegacyEquation, NoSolutionIn
  <1>3. ASSUME NEW n \in 1..Len(us), f[n - 1] \in D PROVE f[n] \in D
    <2>1. f[n] = LegacyFill(f[n - 1], us[n], c.pools, lost)
      BY LegacyEquation
    <2> HIDE DEF f
    <2>2. FairlyPriced(LegacyFill(f[n - 1], us[n], c.pools, lost), c.pools, U)
      BY <1>1, <1>3, LegacyStaysFair
    <2>3. LegacyFill(f[n - 1], us[n], c.pools, lost) \in Solutions
      BY <1>1, <1>3, LegacyFillIn
    <2>4. QED
      BY <2>1, <2>2, <2>3
  <1> HIDE DEF D, f
  <1>4. Stays(f, Len(us), D)
    BY <1>2, <1>3 DEF Stays
  <1>5. f[Len(us)] \in D
    BY <1>1, <1>4, StaysIn
  <1>6. QED
    BY <1>5 DEF D, f, U, LegacySolve

\* Then the groups are, and the single orders.
LEMMA GroupsFair ==
    ASSUME NEW c, IsChain(c), NEW us \in Seq(Uids), NEW tiers, MinGroup >= 2
    PROVE  /\ GroupFills(us, c.pools, tiers)[Len(us)] \in Solutions
           /\ FairlyPriced(GroupFills(us, c.pools, tiers)[Len(us)], c.pools, ToSet(us))
  <1> DEFINE U == ToSet(us)
             D == {s \in Solutions : FairlyPriced(s, c.pools, U)}
             f == GroupFills(us, c.pools, tiers)
  <1>1. Len(us) \in Nat
    OBVIOUS
  <1>2. f[0] \in D
    <2>1. FairlyPriced(NoSolution, c.pools, U)
      BY DEF FairlyPriced, NoSolution
    <2> HIDE DEF U
    <2>2. QED
      BY <2>1, GroupEquation, NoSolutionIn
  <1>3. ASSUME NEW n \in 1..Len(us), f[n - 1] \in D PROVE f[n] \in D
    <2> DEFINE group == Group(us, PairOf(us[n]))
    <2>1. f[n] = IF OpensGroup(us, n) THEN FillGroup(f[n - 1], group, c.pools, tiers) ELSE f[n - 1]
      BY GroupEquation
    <2>2. ASSUME OpensGroup(us, n) PROVE FillGroup(f[n - 1], group, c.pools, tiers) \in D
      <3>1. IsGroup(group)
        BY <2>2, GroupIs
      <3>2. Len(group) >= 2
        <4>1. Len(group) >= MinGroup /\ MinGroup \in Nat
          BY <2>2, GroupAssumption DEF OpensGroup
        <4>2. Len(group) \in Nat
          BY <3>1 DEF IsGroup
        <4> HIDE DEF group
        <4>3. QED
          BY <4>1, <4>2
      <3>3. \A i \in DOMAIN group : group[i] \in U
        <4> DEFINE S == {u \in U : Groupable(u) /\ PairOf(u) = PairOf(us[n])}
        <4>1. us \in Seq(U)
          BY DEF ToSet
        <4>2. group = Only(us, S)
          BY DEF Group
        <4> HIDE DEF U, S
        <4>3. group \in Seq(U \cap S)
          BY <4>1, <4>2, OnlyIn
        <4> HIDE DEF group
        <4>4. QED
          BY <4>3
      <3> HIDE DEF U, f, group
      <3>4. FairlyPriced(FillGroup(f[n - 1], group, c.pools, tiers), c.pools, U)
        BY <1>3, <3>1, <3>2, <3>3, GroupStaysFair
      <3>5. FillGroup(f[n - 1], group, c.pools, tiers) \in Solutions
        BY <1>3, <3>1, FillGroupIn
      <3>6. QED
        BY <3>4, <3>5
    <2> HIDE DEF D, f
    <2>3. QED
      BY <1>3, <2>1, <2>2
  <1> HIDE DEF D, f
  <1>4. Stays(f, Len(us), D)
    BY <1>2, <1>3 DEF Stays
  <1>5. f[Len(us)] \in D
    BY <1>1, <1>4, StaysIn
  <1>6. QED
    BY <1>5 DEF D, f

\* No call failed.
NothingLost(lost) == lost = {}

\* Any number of fills on their own keeps it fairly priced.
LEMMA SolosFair ==
    ASSUME NEW c, IsChain(c), NEW s \in Solutions, NEW us \in Seq(Uids),
           FairlyPriced(s, c.pools, ToSet(us)), NEW lost, NothingLost(lost)
    PROVE  FairlyPriced(SoloFills(s, us, c.pools, lost)[Len(us)], c.pools, ToSet(us))
  <1> DEFINE U == ToSet(us)
             D == {x \in Solutions : FairlyPriced(x, c.pools, U)}
             f == SoloFills(s, us, c.pools, lost)
  <1>1. Len(us) \in Nat /\ \A n \in 1..Len(us) : us[n] \in Uids /\ us[n] \in U
    BY DEF ToSet
  <1>2. /\ f[0] = s
        /\ \A n \in 1..Len(us) : f[n] = FillSolo(f[n - 1], us[n], c.pools, lost)
        /\ \A n \in 0..Len(us) : f[n] \in Solutions
    BY SoloEquation
  <1>3. s \in D
    OBVIOUS
  <1> HIDE DEF U, f
  <1>4. ASSUME NEW n \in 1..Len(us), f[n - 1] \in D PROVE f[n] \in D
    <2>1. FairlyPriced(FillSolo(f[n - 1], us[n], c.pools, lost), c.pools, U)
      BY <1>1, <1>4, SoloStaysFair DEF NothingLost
    <2>2. FillSolo(f[n - 1], us[n], c.pools, lost) \in Solutions
      BY <1>1, <1>4, FillSoloIn
    <2>3. QED
      BY <1>2, <2>1, <2>2
  <1> HIDE DEF D
  <1>5. Stays(f, Len(us), D)
    BY <1>2, <1>3, <1>4 DEF Stays
  <1>6. f[Len(us)] \in D
    BY <1>1, <1>5, StaysIn
  <1>7. QED
    BY <1>6 DEF D, f, U

\* Groups of two and more and fills on their own make a fairly priced solution.
LEMMA JointFair ==
    ASSUME NEW c, IsChain(c), NEW us \in Seq(Uids), MinGroup >= 2, NEW lost, NothingLost(lost)
    PROVE  FairlyPriced(JointSolve(us, c.pools, lost), c.pools, ToSet(us))
  <1> DEFINE tiers == {f \in FeeTiers : <<f, "group">> \notin lost}
             joint == GroupFills(us, c.pools, tiers)[Len(us)]
  <1>1. joint \in Solutions /\ FairlyPriced(joint, c.pools, ToSet(us))
    <2> HIDE DEF tiers
    <2>1. QED
      BY GroupsFair
  <1>2. JointSolve(us, c.pools, lost) = SoloFills(joint, us, c.pools, lost)[Len(us)]
    BY DEF JointSolve
  <1> HIDE DEF joint
  <1>3. QED
    BY <1>1, <1>2, SolosFair

\* Trades of different orders out of a list are no more than the list.
LEMMA NoMoreThanListed ==
    ASSUME NEW us \in Seq(Uids), NEW trades \in Seq(Trade),
           \A i \in DOMAIN trades : trades[i].uid \in ToSet(us),
           \A i, j \in DOMAIN trades : trades[i].uid = trades[j].uid => i = j
    PROVE  Len(trades) <= Len(us)
  <1> DEFINE n == Len(trades)
             m == Len(us)
             U == ToSet(us)
             g == [i \in 1..n |-> trades[i].uid]
             h == [i \in 1..m |-> us[i]]
  <1>1. n \in Nat /\ m \in Nat /\ DOMAIN trades = 1..n /\ DOMAIN us = 1..m
    OBVIOUS
  <1>2. g \in Injection(1..n, U)
    <2>1. g \in [1..n -> U]
      BY <1>1
    <2>2. \A i, j \in 1..n : g[i] = g[j] => i = j
      BY <1>1
    <2> HIDE DEF g, U
    <2>3. QED
      BY <2>1, <2>2 DEF Injection, IsInjective
  <1>3. U = {h[i] : i \in 1..m}
    BY <1>1 DEF ToSet
  <1>4. h \in Surjection(1..m, U)
    <2>1. h \in [1..m -> U] /\ \A x \in U : \E i \in 1..m : h[i] = x
      BY <1>3
    <2> HIDE DEF h, U
    <2>2. QED
      BY <2>1 DEF Surjection
  <1> HIDE DEF n, m, U, g, h
  <1>5. IsFiniteSet(1..m) /\ Cardinality(1..m) = m /\ IsFiniteSet(1..n) /\ Cardinality(1..n) = n
    BY <1>1, FS_Interval
  <1>6. IsFiniteSet(U) /\ Cardinality(U) <= m
    BY <1>4, <1>5, FS_Surjection
  <1>7. n <= Cardinality(U)
    BY <1>2, <1>5, <1>6, FS_Injection
  <1>8. Cardinality(U) \in Nat
    BY <1>6, FS_CardinalityType
  <1>9. n <= m
    BY <1>1, <1>6, <1>7, <1>8
  <1>10. QED
    BY <1>9 DEF n, m

\* Sold for what it is worth outside.
LEMMA BoughtIsOut ==
    ASSUME NEW sell \in Nat \ {0}, NEW out \in Nat
    PROVE  Bought(sell, out, sell) = out
  <1>1. (sell * out + sell - 1) \div sell = out
    OBVIOUS
  <1>2. QED
    BY <1>1 DEF Bought, CeilDiv

\* The tolerance never asks for more.
LEMMA ToleranceLowers ==
    ASSUME NEW best \in Nat, NEW out \in Nat, best <= out
    PROVE  ~(out < (best * (Unit - ToleranceBps)) \div Unit)
  <1> DEFINE keep == Unit - ToleranceBps
             x == best * keep
             k == x \div Unit
  <1>1. Unit \in Nat \ {0} /\ keep \in Nat /\ keep <= Unit
    BY EbboAssumption
  <1> HIDE DEF keep
  <1>2. x \in Nat /\ x <= best * Unit
    BY <1>1
  <1>3. k \in Nat /\ k * Unit <= x
    <2> HIDE DEF x
    <2>1. QED
      BY <1>1, <1>2
  <1> HIDE DEF x, k
  <1>4. k * Unit <= best * Unit
    <2> DEFINE a == k * Unit
               b == best * Unit
    <2>1. a \in Nat /\ b \in Nat /\ a <= x /\ x <= b
      BY <1>1, <1>2, <1>3
    <2> HIDE DEF a, b
    <2>2. a <= b
      BY <1>2, <2>1
    <2>3. QED
      BY <2>2 DEF a, b
  <1>5. k <= best
    BY <1>1, <1>3, <1>4
  <1>6. QED
    BY <1>3, <1>5 DEF k, x, keep

\* A solution of fills with quotes of their own passes the check.
LEMMA FairPasses ==
    ASSUME NEW c, IsChain(c), NEW us \in Seq(Uids), Len(us) <= MaxTrades, NEW s, IsSolution(s),
           FairlyPriced(s, c.pools, ToSet(us)), NEW failed,
           \A i, j \in DOMAIN s.trades : PairOf(s.trades[i].uid) = PairOf(s.trades[j].uid) => i = j
    PROVE  ValidateSolutionEbbo(c.pools, s, failed)
  <1>1. s.trades \in Seq(Trade) /\ s.prices \in [DOMAIN s.prices -> Nat \ {0}]
    BY DEF IsSolution
  <1>2. \A i \in DOMAIN s.trades : s.trades[i].uid \in ToSet(us) /\ s.trades[i].uid \in Uids
    BY ListIn DEF FairlyPriced
  <1>3. Len(s.trades) <= MaxTrades
    <2>1. \A i, j \in DOMAIN s.trades : s.trades[i].uid = s.trades[j].uid => i = j
      OBVIOUS
    <2>2. Len(s.trades) <= Len(us) /\ Len(us) \in Nat /\ Len(s.trades) \in Nat
      BY <1>1, <1>2, <2>1, NoMoreThanListed
    <2>3. QED
      BY <2>2, EbboAssumption
  <1>4. ASSUME NEW i \in DOMAIN s.trades PROVE ~Violates(c.pools, s, s.trades[i])
    <2> DEFINE trade == s.trades[i]
               o == Orders[trade.uid]
               All == V3Routes(Lower[o.sellToken], Lower[o.buyToken])
               outs == {RouteOut(c.pools, r, o.sellAmount) : r \in All}
               out == s.prices[o.sellToken]
    <2>1. OwnPrice(s.prices, trade, c.pools)
      BY <1>4 DEF FairlyPriced, Shared
    <2>2. /\ o.sellToken \in DOMAIN s.prices /\ o.buyToken \in DOMAIN s.prices
          /\ s.prices[o.buyToken] = o.sellAmount
          /\ o.kind = "sell" /\ trade.executed = o.sellAmount
          /\ \A r \in All : RouteOut(c.pools, r, o.sellAmount) <= out
      BY <2>1 DEF OwnPrice, BestFor
    <2>3. out \in Nat \ {0} /\ o.sellAmount \in Nat \ {0} /\ trade.uid \in Uids
      BY <1>1, <1>2, <2>2, OrderFacts
    <2>4. External(c.pools, trade) = Largest(outs)
      BY <2>2 DEF External, QuoteBestExactInput
    <2>5. Largest(outs) \in outs /\ outs \subseteq Nat
      <3> DEFINE g == [r \in All |-> RouteOut(c.pools, r, o.sellAmount)]
      <3>1. IsFiniteSet(All) /\ All # {}
        BY <2>3, OrderFacts, V3RoutesFacts
      <3>2. \A r \in All : RouteOut(c.pools, r, o.sellAmount) \in Nat
        BY <2>3, RouteOutNat
      <3> HIDE DEF All, trade
      <3>3. outs = {g[r] : r \in All}
        OBVIOUS
      <3>4. IsFiniteSet({g[r] : r \in All})
        <4> HIDE DEF g
        <4>1. QED
          BY <3>1, FiniteImage
      <3>5. outs \subseteq Nat /\ outs # {}
        BY <3>1, <3>2
      <3> HIDE DEF outs, g
      <3>6. QED
        BY <3>3, <3>4, <3>5, LargestIs
    <2>6. Largest(outs) \in Nat /\ Largest(outs) <= out
      BY <2>2, <2>5
    <2> DEFINE best == Largest(outs)
               sell == o.sellAmount
    <2> HIDE DEF best, outs
    <2>7. Bought(sell, out, sell) = out /\ ~(out < (best * (Unit - ToleranceBps)) \div Unit)
      <3> HIDE DEF sell, out
      <3>1. QED
        BY <2>3, <2>6, BoughtIsOut, ToleranceLowers DEF best, sell
    <2>8. EbboPrice(s, o.sellToken) = out /\ EbboPrice(s, o.buyToken) = sell
      BY <2>2 DEF EbboPrice
    <2>9. Violates(c.pools, s, trade) <=>
            Bought(sell, out, sell) < (best * (Unit - ToleranceBps)) \div Unit
      BY <2>2, <2>4, <2>8 DEF Violates, best
    <2>10. QED
      BY <2>7, <2>9
  <1>5. QED
    BY <1>3, <1>4 DEF ValidateSolutionEbbo

-----------------------------------------------------------------------------
(* The check and the solvers that build for it.                            *)

\* The orders quoted are no more than the solver takes; what it built from
\* them is fair at the state it was quoted at; and a check that failed, failed
\* on just this solution.
FairInv ==
    /\ phase = "quoting" /\ solver \in {"joint", "router"} => Len(uids) <= MaxOrders
    /\ phase \in {"listed", "quoting"} => quotedAt = 0
    /\ quotedAt # 0 => quotedAt \in DOMAIN Chains
    /\ quotedAt # 0 /\ solver \in {"joint", "router"} =>
         /\ Len(uids) <= MaxOrders
         /\ FairlyPriced(sol, Chains[quotedAt].pools, ToSet(uids))
    /\ phase \in {"listed", "quoting", "funding", "ebbo"} => ebbo = NoEbbo
    /\ ~ebbo.passes => ~ValidateSolutionEbbo(Chains[ebbo.at].pools, sol, ebbo.failed)

\* At the start nothing is solved.
LEMMA FairInit == Init => FairInv
  BY DEF Init, FairInv, NoEbbo

\* What a strategy built leaves the check to do.
LEMMA FairBuilt ==
    ASSUME Typed, FairInv, phase = "quoting", NEW s, NEW after \in {"idle", "funding", "ebbo"}, NEW lost,
           Built(s, after, lost),
           lost = {} /\ solver \in {"joint", "router"} =>
              FairlyPriced(s, Chains[chain].pools, ToSet(uids))
    PROVE  FairInv'
  <1>1. /\ sol' = s /\ phase' \in {"idle", "funding", "ebbo"} /\ solver' = solver /\ uids' = uids
        /\ quotedAt' = IF lost = {} THEN chain ELSE 0
        /\ ebbo = NoEbbo /\ ebbo' = NoEbbo
    BY DEF Built, FairInv
  <1>2. chain \in DOMAIN Chains
    BY ChainFacts
  <1>3. solver \in {"joint", "router"} => Len(uids) <= MaxOrders
    BY DEF FairInv
  <1>4. QED
    BY <1>1, <1>2, <1>3 DEF FairInv, NoEbbo

\* Each step keeps it.
LEMMA FairStep ==
    ASSUME Typed, FairInv, [Next]_vars, MinGroup >= 2
    PROVE  FairInv'
  <1>0. MaxOrders \in Nat \ {0} /\ uids \in Seq(Uids)
    BY AuctionAssumption DEF Typed
  <1>1. ASSUME NEW a \in Auctions, NEW s \in {"joint", "router", "naive", "edge"},
               NEW replayed \in BOOLEAN, Start(a, s, replayed)
        PROVE  FairInv'
    <2>1. /\ phase' = IF s = "router" THEN "listed" ELSE "quoting"
          /\ solver' = s /\ quotedAt' = 0 /\ ebbo' = NoEbbo
          /\ s = "joint" => uids' = Top(Candidates(a), MaxOrders)
      BY <1>1 DEF Start
    <2>2. a \in Seq(Uids)
      BY ClearingAssumption
    <2>3. s = "joint" => Len(uids') <= MaxOrders
      BY <1>0, <2>1, <2>2, CandidatesIn, TopIn
    <2>4. QED
      BY <2>1, <2>3 DEF FairInv, NoEbbo
  <1>2. ASSUME NEW c \in DOMAIN Chains, ChainMoves(c) PROVE FairInv'
    BY <1>2 DEF ChainMoves, FairInv
  <1>3. ASSUME NEW lost \in SUBSET Checks, ValidityFilter(lost) PROVE FairInv'
    <2> DEFINE kept == FilterValidOrders(Chains[Block], uids, lost)
    <2>1. /\ phase = "listed" /\ phase' \in {"idle", "quoting"} /\ quotedAt' = quotedAt /\ ebbo' = ebbo
          /\ solver' = solver /\ sol' = sol /\ uids' = Top(kept, MaxOrders)
      BY <1>3 DEF ValidityFilter
    <2>2. kept \in Seq(Uids)
      BY <1>0, FilteredIn
    <2> HIDE DEF kept
    <2>3. Len(uids') <= MaxOrders
      BY <1>0, <2>1, <2>2, TopIn
    <2>4. QED
      BY <2>1, <2>3 DEF FairInv, NoEbbo
  <1>4. ASSUME NEW lost \in SUBSET Checks, FundingGate(lost) PROVE FairInv'
    BY <1>4 DEF FundingGate, FairInv
  <1>5. ASSUME NEW lost \in SUBSET V3Calls, JointClears(lost) PROVE FairInv'
    <2>1. lost = {} => FairlyPriced(JointSolve(uids, Pools, lost), Pools, ToSet(uids))
      BY <1>0, ChainFacts, JointFair DEF Pools, NothingLost
    <2>2. QED
      BY <1>5, <2>1, FairBuilt DEF JointClears, Pools
  <1>6. ASSUME NEW lost \in SUBSET ToSet(uids), RouterSolves(lost) PROVE FairInv'
    <2>1. FairlyPriced(LegacySolve(uids, Pools, lost), Pools, ToSet(uids))
      BY <1>0, ChainFacts, LegacyFair DEF Pools
    <2>2. QED
      BY <1>6, <2>1, FairBuilt DEF RouterSolves, Pools
  <1>7. ASSUME NEW lost \in SUBSET {PairOf(u) : u \in ToSet(uids)}, NaiveSolves(lost)
        PROVE  FairInv'
    BY <1>7, FairBuilt DEF NaiveSolves
  <1>8. ASSUME NEW s \in EdgeSolutions \cup {NoSolution}, EdgeProposes(s) PROVE FairInv'
    BY <1>8, FairBuilt DEF EdgeProposes
  <1>9. ASSUME NEW failed \in SUBSET ToSet(TradedUids(sol)), EbboCheck(failed) PROVE FairInv'
    <2>1. /\ phase' \in {"gate", "idle"} /\ solver' = solver /\ uids' = uids /\ sol' = sol
          /\ quotedAt' = quotedAt
          /\ ebbo'.passes = ValidateSolutionEbbo(Pools, sol, failed)
          /\ ebbo'.at = chain /\ ebbo'.failed = failed
      BY <1>9 DEF EbboCheck
    <2>2. ~ebbo'.passes => ~ValidateSolutionEbbo(Chains[ebbo'.at].pools, sol', ebbo'.failed)
      BY <2>1 DEF Pools
    <2>3. QED
      BY <2>1, <2>2 DEF FairInv
  <1>10. ASSUME NEW known \in SUBSET ToSet(TradedUids(sol)), NEW answered \in BOOLEAN,
                GateCheck(known, answered)
         PROVE  FairInv'
    <2>1. phase' \in {"submitted", "idle"} /\ UNCHANGED <<solver, uids, sol, quotedAt, ebbo>>
      BY <1>10 DEF GateCheck
    <2>2. QED
      BY <2>1 DEF FairInv
  <1>11. CASE Settle
    BY <1>11 DEF Settle, FairInv
  <1>12. CASE UNCHANGED vars
    BY <1>12 DEF vars, FairInv
  <1>13. QED
    BY <1>1, <1>2, <1>3, <1>4, <1>5, <1>6, <1>7, <1>8, <1>9, <1>10, <1>11, <1>12 DEF Next

\* What is fairly priced passes the EBBO check.
LEMMA FairMeansPassed ==
    ASSUME Typed, FairInv, MaxOrders <= MaxTrades
    PROVE  SoloFillsPassEbbo
  <1> SUFFICES ASSUME ~ebbo.passes, quotedAt # 0,
                      Chains[quotedAt].pools = Chains[ebbo.at].pools,
                      solver \in {"joint", "router"},
                      \A i, j \in DOMAIN sol.trades :
                         PairOf(sol.trades[i].uid) = PairOf(sol.trades[j].uid) => i = j
               PROVE  FALSE
    BY DEF SoloFillsPassEbbo
  <1>1. /\ quotedAt \in DOMAIN Chains /\ Len(uids) <= MaxOrders
        /\ FairlyPriced(sol, Chains[quotedAt].pools, ToSet(uids))
        /\ ~ValidateSolutionEbbo(Chains[quotedAt].pools, sol, ebbo.failed)
    BY DEF FairInv
  <1>2. IsChain(Chains[quotedAt]) /\ IsSolution(sol) /\ uids \in Seq(Uids)
    BY <1>1, ClearingAssumption DEF Typed
  <1>3. Len(uids) <= MaxTrades
    BY <1>1, <1>2, AuctionAssumption, EbboAssumption
  <1>4. ValidateSolutionEbbo(Chains[quotedAt].pools, sol, ebbo.failed)
    BY <1>1, <1>2, <1>3, FairPasses
  <1>5. QED
    BY <1>1, <1>4

\* For any pools and orders, while a solver takes no more orders than the check
\* looks at and groups are of two or more, as in src/config.py: the check
\* rejects no solution whose fills each have a quote of their own, taken from
\* the pools it looks at.
THEOREM OwnQuotesPass ==
    ASSUME MaxOrders <= MaxTrades, MinGroup >= 2
    PROVE  Spec => []SoloFillsPassEbbo
  <1>1. Init => Typed /\ FairInv
    BY TypedInit, FairInit
  <1>2. (Typed /\ FairInv) /\ [Next]_vars => (Typed /\ FairInv)'
    BY TypedStep, FairStep
  <1>3. Typed /\ FairInv => SoloFillsPassEbbo
    BY FairMeansPassed
  <1>4. QED
    BY <1>1, <1>2, <1>3, PTL DEF Spec

-----------------------------------------------------------------------------
(* What the refinement keeps.                                              *)

\* A part of an amount buys at least its part of what the amount buys, by the
\* same path, but for a unit between two hops.
LEMMA PartClears ==
    ASSUME NEW c, IsChain(c), NEW sell, NEW buy, NEW all \in Nat \ {0}, NEW part \in Nat, part <= all,
           NEW least \in Nat, (part * BestPath(c.pools, sell, buy, all)) \div all >= least
    PROVE  \/ BestHop(c.pools, sell, buy, part) >= least
           \/ \E m \in Intermediates \ {sell, buy} :
                BestHop(c.pools, m, buy, BestHop(c.pools, sell, m, part) + 1) >= least
  <1> DEFINE best == BestPath(c.pools, sell, buy, all)
             k == (part * best) \div all
  <1>1. best \in Nat /\ k \in Int
    <2>1. best \in Nat
      BY BestPathIs
    <2> HIDE DEF best
    <2> DEFINE p == part * best
    <2>2. p \in Nat
      BY <2>1
    <2> HIDE DEF p
    <2>3. p \div all \in Int
      BY <2>2
    <2>4. QED
      BY <2>1, <2>3 DEF p
  <1>2. k >= least
    OBVIOUS
  <1>3. CASE best = BestHop(c.pools, sell, buy, all)
    <2>1. part * all >= part * all
      OBVIOUS
    <2> DEFINE then == BestHop(c.pools, sell, buy, part)
    <2>2. (part * BestHop(c.pools, sell, buy, all)) \div all <= then
      BY <2>1, BestHopScales
    <2>3. k <= then
      BY <1>3, <2>2
    <2>4. then \in Nat
      BY BestHopIs
    <2> HIDE DEF then, k
    <2>5. then >= least
      BY <1>1, <1>2, <2>3, <2>4
    <2>6. QED
      BY <2>5 DEF then
  <1>4. ASSUME NEW m \in Intermediates \ {sell, buy},
               best = BestHop(c.pools, m, buy, BestHop(c.pools, sell, m, all))
        PROVE  BestHop(c.pools, m, buy, BestHop(c.pools, sell, m, part) + 1) >= least
    <2> DEFINE mid == BestHop(c.pools, sell, m, all)
               some == BestHop(c.pools, sell, m, part)
               then == BestHop(c.pools, m, buy, some + 1)
    <2>1. part * all >= part * all
      OBVIOUS
    <2>2. (part * mid) \div all <= some
      BY <2>1, BestHopScales
    <2>3. mid \in Nat /\ some \in Nat
      BY BestHopIs
    <2>4. some + 1 \in Nat
      BY <2>3
    <2>5. then \in Nat
      BY <2>4, BestHopIs
    <2> HIDE DEF mid, some
    <2>6. (some + 1) * all >= part * mid
      <3> DEFINE p == part * mid
                 d == p \div all
      <3>1. p \in Nat
        BY <2>3
      <3>2. d \in Int /\ p < (d + 1) * all /\ d <= some
        <4>1. d <= some
          BY <2>2
        <4> HIDE DEF p
        <4>2. d \in Int /\ p < (d + 1) * all
          BY <3>1
        <4>3. QED
          BY <4>1, <4>2
      <3> HIDE DEF p, d
      <3>3. (d + 1) * all <= (some + 1) * all
        BY <2>3, <3>2
      <3> DEFINE x == (d + 1) * all
                 y == (some + 1) * all
      <3>4. x \in Int /\ y \in Int /\ p < x /\ x <= y
        BY <2>3, <3>2, <3>3
      <3> HIDE DEF x, y
      <3>5. y >= p
        BY <3>1, <3>4
      <3>6. QED
        BY <3>5 DEF y, p
    <2>7. (part * BestHop(c.pools, m, buy, mid)) \div all <= then
      BY <2>3, <2>4, <2>6, BestHopScales
    <2>8. k <= then
      BY <1>4, <2>7 DEF mid
    <2> HIDE DEF then, k
    <2>9. then >= least
      BY <1>1, <1>2, <2>5, <2>8
    <2>10. QED
      BY <2>9 DEF then, some
  <1>5. best = BestHop(c.pools, sell, buy, all)
        \/ \E m \in Intermediates \ {sell, buy} :
              best = BestHop(c.pools, m, buy, BestHop(c.pools, sell, m, all))
    BY BestPathIs
  <1> HIDE DEF best, k
  <1>6. QED
    BY <1>3, <1>4, <1>5

\* The amount that stands for a pair is no less than that of any of its orders.
LEMMA PairAmountIs ==
    ASSUME NEW s, IsSolution(s), NEW u \in ToSet(TradedUids(s))
    PROVE  /\ u \in Uids /\ PairAmount(s, PairOf(u)) \in Nat \ {0}
           /\ Orders[u].sellAmount <= PairAmount(s, PairOf(u))
  <1> DEFINE us == TradedUids(s)
             V == {v \in ToSet(us) : PairOf(v) = PairOf(u)}
             g == [v \in V |-> Orders[v].sellAmount]
             amounts == {Orders[v].sellAmount : v \in V}
  <1>1. us \in Seq(Uids)
    BY TradedIn
  <1> HIDE DEF us
  <1>2. Len(us) \in Nat /\ DOMAIN us = 1..Len(us) /\ \A v \in ToSet(us) : v \in Uids
    BY <1>1, ListIn
  <1>3. IsFiniteSet(V)
    <2> DEFINE h == [i \in 1..Len(us) |-> us[i]]
    <2>1. IsFiniteSet(1..Len(us))
      BY <1>2, FS_Interval
    <2>2. IsFiniteSet({h[i] : i \in 1..Len(us)})
      <3> HIDE DEF h
      <3>1. QED
        BY <2>1, FiniteImage
    <2>3. {h[i] : i \in 1..Len(us)} = ToSet(us)
      BY <1>2 DEF ToSet
    <2>4. V \in SUBSET ToSet(us)
      OBVIOUS
    <2> HIDE DEF V, h
    <2>5. QED
      BY <2>2, <2>3, <2>4, FS_Subset
  <1>4. IsFiniteSet({g[v] : v \in V})
    <2> HIDE DEF g, V
    <2>1. QED
      BY <1>3, FiniteImage
  <1>5. {g[v] : v \in V} = amounts
    OBVIOUS
  <1>6. u \in V
    BY DEF us
  <1>7. amounts \subseteq Nat \ {0} /\ amounts # {} /\ Orders[u].sellAmount \in amounts
    <2>1. \A v \in V : Orders[v].sellAmount \in Nat \ {0}
      BY <1>2, OrderFacts
    <2> HIDE DEF V
    <2>2. QED
      BY <1>6, <2>1
  <1>8. PairAmount(s, PairOf(u)) = Largest(amounts)
    BY DEF PairAmount, us
  <1> HIDE DEF amounts, g
  <1>9. Largest(amounts) \in amounts /\ \A y \in amounts : y <= Largest(amounts)
    BY <1>4, <1>5, <1>7, LargestIs
  <1>10. u \in Uids
    BY <1>2, <1>6
  <1>11. QED
    BY <1>7, <1>8, <1>9, <1>10

\* What the refinement returns: the solution as it came, or the trades that
\* still clear.
LEMMA RefinedIs ==
    ASSUME NEW c, IsChain(c), NEW us \in Seq(Uids), NEW s,
           s = RefineSolutionPrices(NaiveSolve(us), c.pools, {}),
           s.trades # NaiveSolve(us).trades, NEW u \in ToSet(TradedUids(s)),
           Quoted(NaiveSolve(us), u, c.pools, {})
    PROVE  ClearsAlone(c.pools, u)
  <1> DEFINE first == NaiveSolve(us)
             none == {}
             takes == {v \in ToSet(us) : NaiveTakes(v)}
             taken == Only(us, takes)
             stay == {v \in ToSet(TradedUids(first)) :
                        Quoted(first, v, c.pools, none)
                          => RealBuy(first, v, c.pools, none) >= Orders[v].buyAmount}
             kept == Only(TradedUids(first), stay)
             pair == PairOf(u)
             all == PairAmount(first, pair)
             part == Orders[u].sellAmount
             best == BestPath(c.pools, pair[1], pair[2], all)
  <1>1. taken \in Seq(Uids) /\ \A i \in DOMAIN taken : NaiveTakes(taken[i])
    <2>1. taken \in Seq(Uids \cap takes)
      <3> HIDE DEF takes
      <3>1. QED
        BY OnlyIn
    <2>2. \A i \in DOMAIN taken : taken[i] \in Uids /\ taken[i] \in takes
      <3> HIDE DEF taken, takes
      <3>1. QED
        BY <2>1
    <2>3. taken \in Seq(Uids)
      <3> HIDE DEF taken, takes
      <3>1. QED
        BY <2>1
    <2> HIDE DEF taken
    <2>4. QED
      BY <2>2, <2>3
  <1>2. first = AtReference(taken)
    BY DEF NaiveSolve
  <1> HIDE DEF taken
  <1>3. first \in Solutions /\ TradedUids(first) = taken /\ IsSolution(first)
    BY <1>1, <1>2, AtReferenceIn, SolutionsAreSolutions
  <1>4. s = IF kept = <<>> THEN first ELSE AtReference(kept)
    BY DEF RefineSolutionPrices
  <1>5. s = AtReference(kept)
    BY <1>4
  <1> HIDE DEF first
  <1>6. kept \in Seq(ToSet(taken) \cap stay)
    <2> HIDE DEF stay
    <2>1. taken \in Seq(ToSet(taken))
      BY <1>1 DEF ToSet
    <2>2. QED
      BY <1>3, <2>1, OnlyIn
  <1>7. kept \in Seq(Uids) /\ \A i \in DOMAIN kept : NaiveTakes(kept[i]) /\ kept[i] \in stay
    <2> HIDE DEF kept, stay
    <2>1. \A i \in DOMAIN kept : kept[i] \in ToSet(taken) /\ kept[i] \in stay
      BY <1>6
    <2>2. \A v \in ToSet(taken) : v \in Uids /\ NaiveTakes(v)
      BY <1>1 DEF ToSet
    <2>3. kept \in Seq(Uids)
      BY <1>6, <2>2
    <2>4. QED
      BY <2>1, <2>2, <2>3
  <1> HIDE DEF kept
  <1>8. TradedUids(s) = kept
    BY <1>5, <1>7, AtReferenceIn
  <1>9. u \in stay
    <2> HIDE DEF stay
    <2>1. QED
      BY <1>7, <1>8 DEF ToSet
  <1>10. u \in ToSet(TradedUids(first)) /\ RealBuy(first, u, c.pools, none) >= Orders[u].buyAmount
    BY <1>9 DEF first
  <1>11. u \in Uids /\ all \in Nat \ {0} /\ part <= all /\ part \in Nat /\ Orders[u].buyAmount \in Nat
    BY <1>3, <1>10, PairAmountIs, OrderFacts
  <1>12. RealBuy(first, u, c.pools, none) = (part * best) \div all
    <2>1. PairPrice(first, pair, c.pools, none) = best
      BY DEF PairPrice
    <2>2. QED
      BY <2>1 DEF RealBuy
  <1> DEFINE least == Orders[u].buyAmount
  <1>13. (part * BestPath(c.pools, pair[1], pair[2], all)) \div all >= least
    BY <1>10, <1>12
  <1>14. \/ BestHop(c.pools, pair[1], pair[2], part) >= least
         \/ \E m \in Intermediates \ {pair[1], pair[2]} :
              BestHop(c.pools, m, pair[2], BestHop(c.pools, pair[1], m, part) + 1) >= least
    <2> HIDE DEF all, part, least, pair
    <2>1. QED
      BY <1>11, <1>13, PartClears DEF least
  <1>15. QED
    BY <1>14 DEF ClearsAlone

\* What naive has on record is what the refinement made of it.
NaiveInv ==
    /\ phase \in {"listed", "quoting"} => quotedAt = 0
    /\ solver = "naive" => phase # "listed"
    /\ solver = "naive" /\ quotedAt # 0 =>
         sol = RefineSolutionPrices(NaiveSolve(uids), Chains[quotedAt].pools, {})

\* Each step keeps it.
LEMMA NaiveStep ==
    ASSUME Typed, NaiveInv, [Next]_vars
    PROVE  NaiveInv'
  <1>1. ASSUME NEW a \in Auctions, NEW s \in {"joint", "router", "naive", "edge"},
               NEW replayed \in BOOLEAN, Start(a, s, replayed)
        PROVE  NaiveInv'
    BY <1>1 DEF Start, NaiveInv
  <1>2. ASSUME NEW c \in DOMAIN Chains, ChainMoves(c) PROVE NaiveInv'
    BY <1>2 DEF ChainMoves, NaiveInv
  <1>3. ASSUME NEW lost \in SUBSET Checks, ValidityFilter(lost) PROVE NaiveInv'
    <2>1. /\ phase = "listed" /\ phase' \in {"idle", "quoting"} /\ solver' = solver
          /\ quotedAt' = quotedAt
      BY <1>3 DEF ValidityFilter
    <2>2. QED
      BY <2>1 DEF NaiveInv
  <1>4. ASSUME NEW lost \in SUBSET Checks, FundingGate(lost) PROVE NaiveInv'
    BY <1>4 DEF FundingGate, NaiveInv
  <1>5. ASSUME NEW lost \in SUBSET V3Calls, JointClears(lost) PROVE NaiveInv'
    BY <1>5 DEF JointClears, Built, NaiveInv
  <1>6. ASSUME NEW lost \in SUBSET ToSet(uids), RouterSolves(lost) PROVE NaiveInv'
    BY <1>6 DEF RouterSolves, Built, NaiveInv
  <1>7. ASSUME NEW lost \in SUBSET {PairOf(u) : u \in ToSet(uids)}, NaiveSolves(lost)
        PROVE  NaiveInv'
    <2>1. /\ sol' = RefineSolutionPrices(NaiveSolve(uids), Chains[chain].pools, lost)
          /\ quotedAt' = IF lost = {} THEN chain ELSE 0
          /\ phase' = "idle" /\ uids' = uids
      BY <1>7 DEF NaiveSolves, Built, Pools
    <2>2. QED
      BY <2>1 DEF NaiveInv
  <1>8. ASSUME NEW s \in EdgeSolutions \cup {NoSolution}, EdgeProposes(s) PROVE NaiveInv'
    BY <1>8 DEF EdgeProposes, Built, NaiveInv
  <1>9. ASSUME NEW failed \in SUBSET ToSet(TradedUids(sol)), EbboCheck(failed) PROVE NaiveInv'
    BY <1>9 DEF EbboCheck, NaiveInv
  <1>10. ASSUME NEW known \in SUBSET ToSet(TradedUids(sol)), NEW answered \in BOOLEAN,
                GateCheck(known, answered)
         PROVE  NaiveInv'
    BY <1>10 DEF GateCheck, NaiveInv
  <1>11. CASE Settle
    BY <1>11 DEF Settle, NaiveInv
  <1>12. CASE UNCHANGED vars
    BY <1>12 DEF vars, NaiveInv
  <1>13. QED
    BY <1>1, <1>2, <1>3, <1>4, <1>5, <1>6, <1>7, <1>8, <1>9, <1>10, <1>11, <1>12 DEF Next

\* What the refinement leaves clears.
LEMMA RefinedMeansClear ==
    ASSUME Typed, NaiveInv
    PROVE  RefinedTradesClear
  <1> SUFFICES ASSUME solver = "naive", quotedAt = chain,
                      sol.trades # NaiveSolve(uids).trades,
                      NEW u \in ToSet(TradedUids(sol)),
                      Quoted(NaiveSolve(uids), u, Pools, {})
               PROVE  ClearsAlone(Pools, u)
    BY DEF RefinedTradesClear
  <1>1. chain \in 1..Len(Chains) /\ IsChain(Chains[chain]) /\ uids \in Seq(Uids)
    BY ChainFacts DEF Typed
  <1>2. chain # 0
    BY <1>1, ClearingAssumption
  <1>3. sol = RefineSolutionPrices(NaiveSolve(uids), Chains[chain].pools, {})
    BY <1>2 DEF NaiveInv
  <1>4. QED
    BY <1>1, <1>3, RefinedIs DEF Pools

\* For any pools and orders: what the refinement keeps of naive's trades, once
\* it has dropped some, clears by swaps of its own.
THEOREM RefinementKeepsWhatClears == Spec => []RefinedTradesClear
  <1>1. Init => Typed /\ NaiveInv
    BY TypedInit DEF Init, NaiveInv
  <1>2. (Typed /\ NaiveInv) /\ [Next]_vars => (Typed /\ NaiveInv)'
    BY TypedStep, NaiveStep
  <1>3. Typed /\ NaiveInv => RefinedTradesClear
    BY RefinedMeansClear
  <1>4. QED
    BY <1>1, <1>2, <1>3, PTL DEF Spec

-----------------------------------------------------------------------------
(* What joint clearing promises.                                           *)

\* z is x and then y.
Joined(z, x, y) ==
    /\ x \in Seq(Int) /\ y \in Seq(Int) /\ z \in Seq(Int)
    /\ Len(z) = Len(x) + Len(y)
    /\ \A n \in 1..Len(x) : z[n] = x[n]
    /\ \A n \in 1..Len(y) : z[Len(x) + n] = y[n]

\* The sum of two sequences joined is the sum of their sums.
LEMMA SumJoined ==
    ASSUME NEW z, NEW x, NEW y, Joined(z, x, y)
    PROVE  SumSeq(z) = SumSeq(x) + SumSeq(y)
  <1> DEFINE f == SumUpTo(z)
             g == SumUpTo(x)
             h == SumUpTo(y)
             k == Len(x)
             m == Len(y)
             S == {n \in 0..k : f[n] = g[n]}
             T == {n \in 0..m : f[k + n] = g[k] + h[n]}
  <1>1. k \in Nat /\ m \in Nat /\ Len(z) = k + m
    BY DEF Joined
  <1>2. /\ f[0] = 0 /\ \A n \in 1..(k + m) : f[n] = f[n - 1] + z[n]
        /\ \A n \in 0..(k + m) : f[n] \in Int
    BY <1>1, SumEquation DEF Joined
  <1>3. /\ g[0] = 0 /\ \A n \in 1..k : g[n] = g[n - 1] + x[n]
        /\ \A n \in 0..k : g[n] \in Int
    BY SumEquation DEF Joined
  <1>4. /\ h[0] = 0 /\ \A n \in 1..m : h[n] = h[n - 1] + y[n]
        /\ \A n \in 0..m : h[n] \in Int
    BY SumEquation DEF Joined
  <1>5. /\ \A n \in 1..k : z[n] = x[n] /\ x[n] \in Int
        /\ \A n \in 1..m : z[k + n] = y[n] /\ y[n] \in Int
    BY DEF Joined
  <1> HIDE DEF f, g, h, k, m
  <1>6. 0..k \subseteq S
    <2>1. 0 \in S
      BY <1>1, <1>2, <1>3
    <2>2. ASSUME NEW n \in 1..k, n - 1 \in S PROVE n \in S
      <3>1. f[n] = f[n - 1] + x[n] /\ g[n] = g[n - 1] + x[n]
        BY <1>1, <1>2, <1>3, <1>5
      <3>2. QED
        BY <2>2, <3>1
    <2>3. Inductive(S, k)
      BY <2>1, <2>2 DEF Inductive
    <2> HIDE DEF S
    <2>4. QED
      BY <1>1, <2>3, UpToInduction
  <1>7. f[k] = g[k]
    BY <1>1, <1>6
  <1>8. 0..m \subseteq T
    <2>1. 0 \in T
      BY <1>1, <1>3, <1>4, <1>7
    <2>2. ASSUME NEW n \in 1..m, n - 1 \in T PROVE n \in T
      <3>1. k + n \in 1..(k + m) /\ (k + n) - 1 = k + (n - 1) /\ n - 1 \in 0..m /\ k \in 0..k
        BY <1>1
      <3>2. f[k + n] = f[k + (n - 1)] + y[n] /\ h[n] = h[n - 1] + y[n]
        BY <1>2, <1>4, <1>5, <3>1
      <3>3. h[n - 1] \in Int /\ g[k] \in Int /\ y[n] \in Int
        BY <1>3, <1>4, <1>5, <3>1
      <3>4. QED
        BY <2>2, <3>2, <3>3
    <2>3. Inductive(T, m)
      BY <2>1, <2>2 DEF Inductive
    <2> HIDE DEF T
    <2>4. QED
      BY <1>1, <2>3, UpToInduction
  <1>9. f[k + m] = g[k] + h[m]
    BY <1>1, <1>8
  <1>10. QED
    BY <1>1, <1>9 DEF SumSeq, f, g, h, k, m

\* Nothing, or one, for each.
LEMMA SumOfSame ==
    ASSUME NEW s \in Seq(Int), NEW each \in {0, 1}, \A i \in DOMAIN s : s[i] = each
    PROVE  SumSeq(s) = IF each = 0 THEN 0 ELSE Len(s)
  <1> DEFINE f == SumUpTo(s)
             m == Len(s)
             S == {n \in 0..m : f[n] = IF each = 0 THEN 0 ELSE n}
  <1>1. m \in Nat /\ \A n \in 1..m : s[n] = each
    OBVIOUS
  <1>2. f[0] = 0 /\ \A n \in 1..m : f[n] = f[n - 1] + s[n]
    BY SumEquation
  <1> HIDE DEF f, m
  <1>3. 0 \in S
    BY <1>1, <1>2
  <1>4. ASSUME NEW n \in 1..m, n - 1 \in S PROVE n \in S
    BY <1>1, <1>2, <1>4
  <1>5. Inductive(S, m)
    BY <1>3, <1>4 DEF Inductive
  <1>6. 0..m \subseteq S
    <2> HIDE DEF S
    <2>1. QED
      BY <1>1, <1>5, UpToInduction
  <1>7. f[m] = IF each = 0 THEN 0 ELSE m
    BY <1>1, <1>6
  <1>8. QED
    BY <1>7 DEF SumSeq, f, m

\* Division that rounds up is less than one above the quotient.
LEMMA CeilDivIs ==
    ASSUME NEW a \in Nat, NEW b \in Nat \ {0}
    PROVE  CeilDiv(a, b) \in Nat /\ b * CeilDiv(a, b) <= a + b - 1
  <1> DEFINE k == (a + b - 1) \div b
  <1>1. k \in Nat /\ b * k <= a + b - 1
    OBVIOUS
  <1>2. QED
    BY <1>1 DEF CeilDiv

\* The shares of what the amounts a buy together, each rounded up.
SharedOut(w, a, out) ==
    /\ a \in Seq(Nat \ {0}) /\ a # <<>>
    /\ w \in Seq(Nat) /\ Len(w) = Len(a)
    /\ out \in Nat
    /\ \A n \in 1..Len(a) : w[n] = CeilDiv(a[n] * out, SumSeq(a))

\* They are less than a unit each above it.
LEMMA SharesAddUp ==
    ASSUME NEW w, NEW a, NEW out, SharedOut(w, a, out)
    PROVE  SumSeq(w) < out + Len(a)
  <1> DEFINE f == SumUpTo(w)
             g == SumUpTo(a)
             m == Len(a)
             sold == SumSeq(a)
             S == {n \in 0..m : sold * f[n] + n <= g[n] * out + n * sold}
  <1>1. /\ m \in Nat \ {0} /\ Len(w) = m /\ out \in Nat /\ sold \in Nat \ {0}
        /\ \A n \in 1..m : a[n] \in Nat \ {0} /\ w[n] = CeilDiv(a[n] * out, sold)
    BY SumPositive DEF SharedOut
  <1>2. /\ f[0] = 0 /\ \A n \in 1..m : f[n] = f[n - 1] + w[n]
        /\ \A n \in 0..m : f[n] \in Int
    <2>1. w \in Seq(Int) /\ Len(w) = Len(a)
      BY DEF SharedOut
    <2>2. QED
      BY <2>1, SumEquation
  <1>3. /\ g[0] = 0 /\ \A n \in 1..m : g[n] = g[n - 1] + a[n]
        /\ \A n \in 0..m : g[n] \in Int
    <2>1. a \in Seq(Int)
      BY DEF SharedOut
    <2>2. QED
      BY <2>1, SumEquation
  <1>4. sold = g[m] /\ SumSeq(w) = f[m]
    BY DEF SumSeq, SharedOut
  <1> HIDE DEF f, g, m, sold
  <1>5. 0 \in S
    <2>1. sold * 0 = 0 /\ 0 * out = 0 /\ 0 * sold = 0
      BY <1>1
    <2>2. 0 \in 0..m /\ sold * f[0] + 0 <= g[0] * out + 0 * sold
      BY <1>1, <1>2, <1>3, <2>1
    <2>3. QED
      BY <2>2
  <1>6. ASSUME NEW n \in 1..m, n - 1 \in S PROVE n \in S
    <2> DEFINE x == f[n - 1]
               y == g[n - 1]
               share == w[n]
               part == a[n] * out
    <2>1. /\ n - 1 \in 0..m /\ x \in Int /\ y \in Int /\ n \in Nat
          /\ f[n] = x + share /\ g[n] = y + a[n] /\ a[n] \in Nat
      BY <1>1, <1>2, <1>3
    <2>2. part \in Nat
      BY <1>1, <2>1
    <2>3. share \in Nat /\ sold * share <= part + sold - 1
      <3> HIDE DEF part
      <3>1. share = CeilDiv(part, sold)
        BY <1>1 DEF part
      <3>2. QED
        BY <1>1, <2>2, <3>1, CeilDivIs
    <2>4. sold * x + (n - 1) <= y * out + (n - 1) * sold
      BY <1>6
    <2> HIDE DEF x, y, share
    <2>5. sold * f[n] = sold * x + sold * share
      BY <1>1, <2>1, <2>3
    <2>6. g[n] * out = y * out + part
      BY <1>1, <2>1
    <2>7. n * sold = (n - 1) * sold + sold
      BY <1>1, <2>1
    <2> HIDE DEF part
    <2> DEFINE A == sold * x
               B == sold * share
               C == y * out
               D == (n - 1) * sold
    <2>8. A \in Int /\ B \in Int /\ C \in Int /\ D \in Int
      BY <1>1, <2>1, <2>3
    <2>9. A + (n - 1) <= C + D /\ B <= part + sold - 1
      BY <2>3, <2>4
    <2>10. sold * f[n] = A + B /\ g[n] * out = C + part /\ n * sold = D + sold
      BY <2>5, <2>6, <2>7
    <2> HIDE DEF A, B, C, D
    <2>11. sold * f[n] + n <= g[n] * out + n * sold
      BY <1>1, <2>1, <2>2, <2>8, <2>9, <2>10
    <2>12. QED
      BY <2>11
  <1>7. Inductive(S, m)
    BY <1>5, <1>6 DEF Inductive
  <1>8. 0..m \subseteq S
    <2> HIDE DEF S
    <2>1. QED
      BY <1>1, <1>7, UpToInduction
  <1>9. sold * f[m] + m <= sold * out + m * sold
    BY <1>1, <1>4, <1>8
  <1>10. f[m] \in Int
    BY <1>1, <1>2
  <1>11. ASSUME f[m] >= out + m PROVE FALSE
    <2> DEFINE d == f[m] - (out + m)
    <2>1. d \in Nat
      BY <1>1, <1>10, <1>11
    <2>2. sold * d >= 0
      BY <1>1, <2>1
    <2>3. sold * f[m] = sold * out + m * sold + sold * d
      BY <1>1, <1>10
    <2> HIDE DEF d
    <2> DEFINE A == sold * f[m]
               B == sold * out + m * sold
               C == sold * d
    <2>4. A \in Int /\ B \in Int /\ C \in Int
      BY <1>1, <1>10, <2>1
    <2>5. A = B + C /\ C >= 0 /\ A + m <= B
      BY <1>9, <2>2, <2>3
    <2> HIDE DEF A, B, C
    <2>6. QED
      BY <1>1, <2>4, <2>5
  <1>12. QED
    BY <1>1, <1>4, <1>10, <1>11 DEF m

\* What the trade pays at the prices of s.
Payout(s, trade) ==
    LET o == Orders[trade.uid]
    IN  CeilDiv(o.sellAmount * ScorePrice(s, o.sellToken), ScorePrice(s, o.buyToken))

\* Of token t: what each trade is paid, that it is, and what each swap brings.
PayoutsOf(s, trades, t) ==
    [i \in DOMAIN trades |-> IF Buys(trades[i], t) THEN Payout(s, trades[i]) ELSE 0]
FillsOf(trades, t) == [i \in DOMAIN trades |-> IF Buys(trades[i], t) THEN 1 ELSE 0]
BroughtBy(swaps, t) == [i \in DOMAIN swaps |-> IF swaps[i].buy = t THEN swaps[i].out ELSE 0]

\* Of token t no more is promised than is brought, but for the rounding.
Balanced(s, t) ==
    LET paid == SumSeq(PayoutsOf(s, s.trades, t))
        fills == SumSeq(FillsOf(s.trades, t))
        quoted == SumSeq(BroughtBy(s.swaps, t))
    IN  paid <= quoted + fills /\ (fills > 0 => paid < quoted + fills)

\* The trade sells all of a sell order.
SellsWhole(trade) ==
    Orders[trade.uid].kind = "sell" /\ trade.executed = Orders[trade.uid].sellAmount

\* The solution promises what it has: the invariant of joint clearing.
Covered(s) ==
    /\ \A i \in DOMAIN s.trades : SellsWhole(s.trades[i])
    /\ ~DuplicateTokens(s) => \A t \in Tokens : Balanced(s, t)

\* r has the prices of s, and maybe more.
Extends(r, s) ==
    /\ DOMAIN s.prices \subseteq DOMAIN r.prices
    /\ \A t \in DOMAIN s.prices : r.prices[t] = s.prices[t]

\* The prices s has are read from r alike.
LEMMA PriceStays ==
    ASSUME NEW r \in Solutions, NEW s \in Solutions, Extends(r, s), ~DuplicateTokens(r),
           NEW t \in DOMAIN Lower, Lower[t] \in Spelled(s)
    PROVE  ScorePrice(r, t) = ScorePrice(s, t) /\ ScorePrice(s, t) \in Nat \ {0}
  <1>1. IsSolution(r) /\ IsSolution(s)
    BY SolutionParts
  <1>2. PICK k \in DOMAIN s.prices : Lower[k] = Lower[t]
    BY DEF Spelled
  <1>3. k \in DOMAIN Lower /\ k \in DOMAIN r.prices /\ Lower[k] \in Spelled(r) /\ Lower[k] \in Spelled(s)
    BY <1>1, <1>2 DEF IsSolution, Spelled, Extends
  <1>4. ~DuplicateTokens(s)
    BY DEF DuplicateTokens, Extends
  <1>5. ScorePrice(r, k) = r.prices[k] /\ ScorePrice(s, k) = s.prices[k] /\ ScorePrice(s, k) \in Nat \ {0}
    BY <1>1, <1>2, <1>3, <1>4, PriceIs
  <1>6. ScorePrice(r, t) = ScorePrice(r, k) /\ ScorePrice(s, t) = ScorePrice(s, k)
    BY <1>2 DEF ScorePrice
  <1>7. QED
    BY <1>2, <1>5, <1>6 DEF Extends

\* The tokens of a trade have prices.
LEMMA TradePrices ==
    ASSUME NEW s \in Solutions, NEW i \in DOMAIN s.trades
    PROVE  LET o == Orders[s.trades[i].uid]
           IN  /\ s.trades[i] \in Trade /\ s.trades[i].uid \in Uids
               /\ o.sellToken \in DOMAIN Lower /\ Lower[o.sellToken] \in Spelled(s)
               /\ o.buyToken \in DOMAIN Lower /\ Lower[o.buyToken] \in Spelled(s)
               /\ ScorePrice(s, o.sellToken) \in Nat \ {0}
               /\ ScorePrice(s, o.buyToken) \in Nat \ {0}
               /\ Payout(s, s.trades[i]) \in Nat
  <1> DEFINE o == Orders[s.trades[i].uid]
             ps == ScorePrice(s, o.sellToken)
             pb == ScorePrice(s, o.buyToken)
             a == o.sellAmount * ps
  <1>1. s.trades \in Seq(Trade) /\ IsSolution(s)
    BY SolutionParts
  <1>2. s.trades[i] \in Trade /\ s.trades[i].uid \in Uids
    <2>1. s.trades[i] \in Trade
      BY <1>1
    <2>2. QED
      BY <2>1 DEF Trade
  <1>3. /\ o.sellToken \in DOMAIN Lower /\ Lower[o.sellToken] \in Spelled(s)
        /\ o.buyToken \in DOMAIN Lower /\ Lower[o.buyToken] \in Spelled(s)
    BY <1>1, <1>2, OrderFacts DEF IsSolution, Spelled
  <1>4. ps \in Nat \ {0} /\ pb \in Nat \ {0}
    BY <1>1, <1>3, PriceIs
  <1>5. o.sellAmount \in Nat
    BY <1>2, OrderFacts
  <1> HIDE DEF ps, pb
  <1>6. a \in Nat
    BY <1>4, <1>5
  <1> HIDE DEF a
  <1>7. CeilDiv(a, pb) \in Nat
    BY <1>4, <1>6, CeilDivIs
  <1>8. Payout(s, s.trades[i]) = CeilDiv(a, pb)
    BY DEF Payout, a, ps, pb
  <1>9. QED
    BY <1>2, <1>3, <1>4, <1>7, <1>8 DEF ps, pb

\* The three are sequences of numbers.
LEMMA PayoutsIn ==
    ASSUME NEW s \in Solutions, NEW t
    PROVE  /\ PayoutsOf(s, s.trades, t) \in Seq(Int)
           /\ Len(PayoutsOf(s, s.trades, t)) = Len(s.trades)
  <1> DEFINE x == PayoutsOf(s, s.trades, t)
  <1>1. s.trades \in Seq(Trade)
    BY SolutionParts
  <1>2. DOMAIN s.trades = 1..Len(s.trades) /\ Len(s.trades) \in Nat
    BY <1>1
  <1>3. \A i \in 1..Len(s.trades) : x[i] \in Int
    BY <1>2, TradePrices DEF PayoutsOf
  <1>4. x = [i \in 1..Len(s.trades) |-> x[i]]
    BY <1>2 DEF PayoutsOf
  <1> HIDE DEF x
  <1>5. x \in Seq(Int) /\ Len(x) = Len(s.trades)
    BY <1>2, <1>3, <1>4
  <1>6. QED
    BY <1>5 DEF x

\* There is one number for each trade.
LEMMA FillsIn ==
    ASSUME NEW trades \in Seq(Trade), NEW t
    PROVE  FillsOf(trades, t) \in Seq(Int) /\ Len(FillsOf(trades, t)) = Len(trades)
  <1>1. DOMAIN trades = 1..Len(trades) /\ Len(trades) \in Nat
    OBVIOUS
  <1>2. QED
    BY <1>1 DEF FillsOf

\* There is one number for each swap.
LEMMA BroughtIn ==
    ASSUME NEW swaps \in Seq(Swap), NEW t
    PROVE  BroughtBy(swaps, t) \in Seq(Int) /\ Len(BroughtBy(swaps, t)) = Len(swaps)
  <1>1. DOMAIN swaps = 1..Len(swaps) /\ Len(swaps) \in Nat
    OBVIOUS
  <1>2. ASSUME NEW i \in 1..Len(swaps) PROVE swaps[i].out \in Int
    <2>1. swaps[i] \in Swap
      OBVIOUS
    <2>2. QED
      BY <2>1 DEF Swap
  <1>3. QED
    BY <1>1, <1>2 DEF BroughtBy

\* A fill that trades whole orders for all it sells.
FillsWith(trades, sold) ==
    /\ trades # <<>>
    /\ \A i \in DOMAIN trades : SellsWhole(trades[i])
    /\ SumSeq([i \in DOMAIN trades |-> Orders[trades[i].uid].sellAmount]) = sold

\* What a fill that agrees with the prices adds.
Grown(r, s, sell, buy, sold, q, trades) ==
    /\ r \in Solutions /\ s \in Solutions /\ Extends(r, s)
    /\ {sell, buy} \subseteq DOMAIN r.prices /\ r.prices[sell] = q.out /\ r.prices[buy] = sold
    /\ r.trades = s.trades \o trades
    /\ r.swaps = Append(s.swaps, [sell |-> Lower[sell], buy |-> Lower[buy], in |-> sold,
                                  out |-> q.out, route |-> q.route])

\* A fill is one that grows the solution.
LEMMA FillGrows ==
    ASSUME NEW s \in Solutions, NEW sell \in DOMAIN Lower, NEW buy \in DOMAIN Lower, sell # buy,
           NEW sold \in Nat \ {0}, NEW q, Gives(q), q.route # <<>>,
           NEW trades, Exchange(trades, sell, buy),
           Agrees(s.prices, sell, buy, q.out, sold)
    PROVE  Grown(Fill(s, sell, buy, sold, q, trades), s, sell, buy, sold, q, trades)
  <1> DEFINE r == Fill(s, sell, buy, sold, q, trades)
             p == With(With(s.prices, sell, q.out), buy, sold)
  <1>1. /\ r.prices = p /\ r.trades = s.trades \o trades
        /\ r.swaps = Append(s.swaps, [sell |-> Lower[sell], buy |-> Lower[buy], in |-> sold,
                                      out |-> q.out, route |-> q.route])
    BY DEF Fill
  <1>2. r \in Solutions
    BY FillIn
  <1>3. PricesAfter(p, s.prices, sell, buy, q.out, sold)
    BY FillKeepsPrices
  <1> HIDE DEF r, p
  <1>4. /\ Extends(r, s)
        /\ {sell, buy} \subseteq DOMAIN r.prices /\ r.prices[sell] = q.out /\ r.prices[buy] = sold
    BY <1>1, <1>3 DEF PricesAfter, Extends
  <1>5. QED
    BY <1>1, <1>2, <1>4 DEF Grown, r

\* The trades of s stay as they were, the others come behind.
LEMMA GrownTrades ==
    ASSUME NEW r, NEW s, NEW sell, NEW buy, NEW sold, NEW q, NEW trades \in Seq(Trade),
           Grown(r, s, sell, buy, sold, q, trades)
    PROVE  /\ Len(s.trades) \in Nat /\ Len(trades) \in Nat
           /\ Len(r.trades) = Len(s.trades) + Len(trades)
           /\ \A i \in 1..Len(s.trades) : i \in DOMAIN r.trades /\ r.trades[i] = s.trades[i]
           /\ \A i \in 1..Len(trades) : /\ Len(s.trades) + i \in DOMAIN r.trades
                                        /\ r.trades[Len(s.trades) + i] = trades[i]
           /\ \A i \in DOMAIN r.trades : \/ i \in DOMAIN s.trades
                                         \/ i - Len(s.trades) \in DOMAIN trades
  <1> DEFINE all == s.trades \o trades
  <1>1. s.trades \in Seq(Trade) /\ r.trades = all
    BY SolutionParts DEF Grown
  <1>2. all \in Seq(Trade) /\ Len(all) = Len(s.trades) + Len(trades)
        /\ \A i \in 1..Len(all) : all[i] = IF i <= Len(s.trades) THEN s.trades[i]
                                            ELSE trades[i - Len(s.trades)]
    BY <1>1, ConcatProperties
  <1>3. /\ Len(s.trades) \in Nat /\ Len(trades) \in Nat /\ DOMAIN all = 1..Len(all)
        /\ DOMAIN s.trades = 1..Len(s.trades) /\ DOMAIN trades = 1..Len(trades)
    BY <1>1, <1>2
  <1> HIDE DEF all
  <1> DEFINE k == Len(s.trades)
             m == Len(trades)
  <1>4. ASSUME NEW i \in 1..k PROVE i \in DOMAIN all /\ all[i] = s.trades[i]
    BY <1>2, <1>3
  <1>5. ASSUME NEW i \in 1..m PROVE k + i \in DOMAIN all /\ all[k + i] = trades[i]
    <2>1. k + i \in 1..Len(all) /\ ~(k + i <= k) /\ (k + i) - k = i
      BY <1>2, <1>3
    <2>2. QED
      BY <1>2, <1>3, <2>1
  <1>6. ASSUME NEW i \in DOMAIN all PROVE i \in DOMAIN s.trades \/ i - k \in DOMAIN trades
    BY <1>2, <1>3
  <1>7. QED
    BY <1>1, <1>2, <1>3, <1>4, <1>5, <1>6

\* The old trades pay what they paid.
LEMMA OldPayouts ==
    ASSUME NEW r, NEW s, NEW sell, NEW buy, NEW sold, NEW q, NEW trades \in Seq(Trade),
           Grown(r, s, sell, buy, sold, q, trades), ~DuplicateTokens(r),
           NEW i \in 1..Len(s.trades)
    PROVE  Payout(r, r.trades[i]) = Payout(s, s.trades[i])
  <1> DEFINE o == Orders[s.trades[i].uid]
  <1>1. r \in Solutions /\ s \in Solutions /\ Extends(r, s)
    BY DEF Grown
  <1>2. r.trades[i] = s.trades[i]
    BY GrownTrades
  <1>3. i \in DOMAIN s.trades
    BY <1>1, SolutionParts
  <1>4. /\ o.sellToken \in DOMAIN Lower /\ Lower[o.sellToken] \in Spelled(s)
        /\ o.buyToken \in DOMAIN Lower /\ Lower[o.buyToken] \in Spelled(s)
    BY <1>1, <1>3, TradePrices
  <1>5. ScorePrice(r, o.sellToken) = ScorePrice(s, o.sellToken)
        /\ ScorePrice(r, o.buyToken) = ScorePrice(s, o.buyToken)
    BY <1>1, <1>4, PriceStays
  <1>6. QED
    BY <1>2, <1>5 DEF Payout

\* The new ones pay their shares.
LEMMA NewPayouts ==
    ASSUME NEW r, NEW s, NEW sell \in DOMAIN Lower, NEW buy \in DOMAIN Lower, NEW sold, NEW q, NEW trades,
           Exchange(trades, sell, buy),
           Grown(r, s, sell, buy, sold, q, trades), ~DuplicateTokens(r),
           NEW i \in 1..Len(trades)
    PROVE  /\ Payout(r, trades[i]) = CeilDiv(Orders[trades[i].uid].sellAmount * q.out, sold)
           /\ Payout(r, trades[i]) \in Nat
           /\ \A t : Buys(trades[i], t) <=> t = Lower[buy]
  <1> DEFINE o == Orders[trades[i].uid]
             j == Len(s.trades) + i
  <1>1. trades \in Seq(Trade) /\ i \in DOMAIN trades
    BY DEF Exchange
  <1>2. Lower[o.sellToken] = Lower[sell] /\ Lower[o.buyToken] = Lower[buy]
    BY <1>1 DEF Exchange
  <1>3. /\ r \in Solutions /\ {sell, buy} \subseteq DOMAIN r.prices
        /\ r.prices[sell] = q.out /\ r.prices[buy] = sold
    BY DEF Grown
  <1>4. j \in DOMAIN r.trades /\ r.trades[j] = trades[i]
    BY <1>1, GrownTrades
  <1>5. Payout(r, trades[i]) \in Nat
    <2> HIDE DEF j
    <2>1. QED
      BY <1>3, <1>4, TradePrices
  <1>6. IsSolution(r)
    BY <1>3, SolutionParts
  <1>7. Lower[sell] \in Spelled(r) /\ Lower[buy] \in Spelled(r)
    BY <1>3 DEF Spelled
  <1>8. ScorePrice(r, sell) = q.out /\ ScorePrice(r, buy) = sold
    BY <1>3, <1>6, <1>7, PriceIs
  <1>9. ScorePrice(r, o.sellToken) = q.out /\ ScorePrice(r, o.buyToken) = sold
    BY <1>2, <1>8 DEF ScorePrice
  <1>10. QED
    BY <1>2, <1>5, <1>9 DEF Payout, Buys

\* So that they take less than a unit each above what the fill brings.
PaysShares(r, trades, bought, out, t) ==
    LET paid == PayoutsOf(r, trades, t)
        fills == FillsOf(trades, t)
    IN  /\ paid \in Seq(Int) /\ Len(paid) = Len(trades)
        /\ fills \in Seq(Int) /\ Len(fills) = Len(trades)
        /\ t = bought => SumSeq(paid) < out + Len(trades) /\ SumSeq(fills) = Len(trades)
        /\ t # bought => SumSeq(paid) = 0 /\ SumSeq(fills) = 0

\* The sums of the new trades are those of the shares.
LEMMA NewSums ==
    ASSUME NEW r, NEW s, NEW sell \in DOMAIN Lower, NEW buy \in DOMAIN Lower,
           NEW sold \in Nat \ {0}, NEW q, Gives(q),
           NEW trades, Exchange(trades, sell, buy), FillsWith(trades, sold),
           Grown(r, s, sell, buy, sold, q, trades), ~DuplicateTokens(r), NEW t
    PROVE  PaysShares(r, trades, Lower[buy], q.out, t)
  <1> DEFINE paid == PayoutsOf(r, trades, t)
             fills == FillsOf(trades, t)
             amounts == [i \in DOMAIN trades |-> Orders[trades[i].uid].sellAmount]
             n == Len(trades)
  <1>1. /\ trades \in Seq(Trade) /\ n \in Nat /\ DOMAIN trades = 1..n
        /\ trades # <<>> /\ SumSeq(amounts) = sold
    BY DEF Exchange, FillsWith
  <1>2. ASSUME NEW i \in 1..n
        PROVE  /\ Payout(r, trades[i]) = CeilDiv(Orders[trades[i].uid].sellAmount * q.out, sold)
               /\ Payout(r, trades[i]) \in Nat
               /\ Buys(trades[i], t) <=> t = Lower[buy]
               /\ Orders[trades[i].uid].sellAmount \in Nat \ {0}
    <2>1. trades[i] \in Trade
      BY <1>1
    <2>2. trades[i].uid \in Uids
      BY <2>1 DEF Trade
    <2>3. /\ Payout(r, trades[i]) = CeilDiv(Orders[trades[i].uid].sellAmount * q.out, sold)
          /\ Payout(r, trades[i]) \in Nat
          /\ \A x : Buys(trades[i], x) <=> x = Lower[buy]
      BY NewPayouts
    <2>4. Orders[trades[i].uid].sellAmount \in Nat \ {0}
      BY <2>2, OrderFacts
    <2>5. QED
      BY <2>3, <2>4
  <1>3. paid \in Seq(Int) /\ Len(paid) = n /\ DOMAIN paid = 1..n
        /\ \A i \in 1..n : paid[i] = IF t = Lower[buy] THEN Payout(r, trades[i]) ELSE 0
    <2>1. \A i \in 1..n : paid[i] = IF t = Lower[buy] THEN Payout(r, trades[i]) ELSE 0
      BY <1>1, <1>2 DEF PayoutsOf
    <2>2. paid = [i \in 1..n |-> paid[i]]
      BY <1>1 DEF PayoutsOf
    <2> HIDE DEF paid, n
    <2>3. \A i \in 1..n : paid[i] \in Int
      BY <1>2, <2>1
    <2>4. QED
      BY <1>1, <2>1, <2>2, <2>3
  <1>4. fills \in Seq(Int) /\ Len(fills) = n /\ DOMAIN fills = 1..n
        /\ \A i \in 1..n : fills[i] = IF t = Lower[buy] THEN 1 ELSE 0
    <2>1. \A i \in 1..n : fills[i] = IF t = Lower[buy] THEN 1 ELSE 0
      BY <1>1, <1>2 DEF FillsOf
    <2>2. fills = [i \in 1..n |-> fills[i]]
      BY <1>1 DEF FillsOf
    <2> HIDE DEF fills, n
    <2>3. QED
      BY <1>1, <2>1, <2>2
  <1>5. amounts \in Seq(Nat \ {0}) /\ Len(amounts) = n /\ amounts # <<>>
        /\ \A i \in 1..n : amounts[i] = Orders[trades[i].uid].sellAmount
    <2>1. n # 0
      BY <1>1
    <2>2. \A i \in 1..n : amounts[i] \in Nat \ {0}
      BY <1>1, <1>2
    <2>3. amounts = [i \in 1..n |-> amounts[i]]
      BY <1>1
    <2>4. \A i \in 1..n : amounts[i] = Orders[trades[i].uid].sellAmount
      BY <1>1
    <2> HIDE DEF amounts, n
    <2>5. amounts \in Seq(Nat \ {0}) /\ Len(amounts) = n
      BY <1>1, <2>2, <2>3
    <2>6. QED
      BY <2>1, <2>4, <2>5
  <1> HIDE DEF paid, fills, amounts, n
  <1>6. ASSUME t = Lower[buy] PROVE SumSeq(paid) < q.out + n /\ SumSeq(fills) = n
    <2>1. \A i \in 1..n : paid[i] = CeilDiv(amounts[i] * q.out, SumSeq(amounts)) /\ paid[i] \in Nat
      BY <1>1, <1>2, <1>3, <1>5, <1>6
    <2>2. paid \in Seq(Nat)
      BY <1>1, <1>3, <2>1
    <2>3. SharedOut(paid, amounts, q.out)
      BY <1>3, <1>5, <2>1, <2>2 DEF SharedOut, Gives
    <2>4. SumSeq(paid) < q.out + n
      BY <1>5, <2>3, SharesAddUp
    <2>5. SumSeq(fills) = n
      BY <1>4, <1>6, SumOfSame
    <2>6. QED
      BY <2>4, <2>5
  <1>7. ASSUME t # Lower[buy] PROVE SumSeq(paid) = 0 /\ SumSeq(fills) = 0
    <2>1. \A i \in DOMAIN paid : paid[i] = 0
      BY <1>3, <1>7
    <2>2. \A i \in DOMAIN fills : fills[i] = 0
      BY <1>4, <1>7
    <2>3. QED
      BY <1>3, <1>4, <2>1, <2>2, SumOfSame
  <1>8. QED
    BY <1>3, <1>4, <1>6, <1>7 DEF PaysShares, paid, fills, n

\* A sum with one entry.
LEMMA SumOfOne ==
    ASSUME NEW x \in Int
    PROVE  <<x>> \in Seq(Int) /\ SumSeq(<<x>>) = x
  <1> DEFINE s == <<x>>
  <1>1. s \in Seq(Int) /\ Len(s) = 1 /\ s[1] = x
    OBVIOUS
  <1> HIDE DEF s
  <1>2. SumUpTo(s)[0] = 0 /\ SumUpTo(s)[1] = SumUpTo(s)[0] + s[1]
    <2>1. 1 \in 1..Len(s) /\ 1 - 1 = 0
      BY <1>1
    <2>2. QED
      BY <1>1, <2>1, SumEquation
  <1>3. SumSeq(s) = x
    BY <1>1, <1>2 DEF SumSeq
  <1>4. QED
    BY <1>1, <1>3 DEF s

\* A fill keeps every token balanced.
LEMMA GrownBalanced ==
    ASSUME NEW r, NEW s, NEW sell \in DOMAIN Lower, NEW buy \in DOMAIN Lower,
           NEW sold \in Nat \ {0}, NEW q, Gives(q),
           NEW trades, Exchange(trades, sell, buy), FillsWith(trades, sold),
           Grown(r, s, sell, buy, sold, q, trades), ~DuplicateTokens(r),
           NEW t, Balanced(s, t)
    PROVE  Balanced(r, t)
  <1> DEFINE X == PayoutsOf(s, s.trades, t)
             Y == PayoutsOf(r, trades, t)
             Z == PayoutsOf(r, r.trades, t)
             FX == FillsOf(s.trades, t)
             FY == FillsOf(trades, t)
             FZ == FillsOf(r.trades, t)
             BX == BroughtBy(s.swaps, t)
             BZ == BroughtBy(r.swaps, t)
             swap == [sell |-> Lower[sell], buy |-> Lower[buy], in |-> sold,
                      out |-> q.out, route |-> q.route]
             more == IF Lower[buy] = t THEN q.out ELSE 0
             k == Len(s.trades)
             n == Len(trades)
  <1>1. /\ r \in Solutions /\ s \in Solutions
        /\ r.trades \in Seq(Trade) /\ s.trades \in Seq(Trade) /\ trades \in Seq(Trade)
        /\ r.swaps \in Seq(Swap) /\ s.swaps \in Seq(Swap) /\ r.swaps = Append(s.swaps, swap)
    BY SolutionParts DEF Grown, Exchange
  <1>2. /\ k \in Nat /\ n \in Nat /\ Len(r.trades) = k + n
        /\ \A i \in 1..k : i \in DOMAIN r.trades /\ r.trades[i] = s.trades[i]
        /\ \A i \in 1..n : k + i \in DOMAIN r.trades /\ r.trades[k + i] = trades[i]
    BY <1>1, GrownTrades
  <1>3. /\ DOMAIN s.trades = 1..k /\ DOMAIN trades = 1..n
    BY <1>1
  <1>0. PaysShares(r, trades, Lower[buy], q.out, t)
    BY NewSums
  <1>4. Joined(Z, X, Y)
    <2>1. /\ X \in Seq(Int) /\ Len(X) = k /\ Z \in Seq(Int) /\ Len(Z) = k + n
          /\ Y \in Seq(Int) /\ Len(Y) = n
      BY <1>0, <1>1, <1>2, PayoutsIn DEF PaysShares
    <2>2. ASSUME NEW i \in 1..k PROVE Z[i] = X[i]
      BY <1>1, <1>2, <1>3, OldPayouts DEF PayoutsOf
    <2>3. ASSUME NEW i \in 1..n PROVE Z[k + i] = Y[i]
      BY <1>2, <1>3 DEF PayoutsOf
    <2> HIDE DEF X, Y, Z, k, n
    <2>4. QED
      BY <2>1, <2>2, <2>3 DEF Joined
  <1>5. Joined(FZ, FX, FY)
    <2>1. /\ FX \in Seq(Int) /\ Len(FX) = k /\ FZ \in Seq(Int) /\ Len(FZ) = k + n
          /\ FY \in Seq(Int) /\ Len(FY) = n
      BY <1>1, <1>2, FillsIn
    <2>2. ASSUME NEW i \in 1..k PROVE FZ[i] = FX[i]
      BY <1>2, <1>3 DEF FillsOf
    <2>3. ASSUME NEW i \in 1..n PROVE FZ[k + i] = FY[i]
      BY <1>2, <1>3 DEF FillsOf
    <2> HIDE DEF FX, FY, FZ, k, n
    <2>4. QED
      BY <2>1, <2>2, <2>3 DEF Joined
  <1>6. Joined(BZ, BX, <<more>>) /\ more \in Int
    <2> DEFINE m == Len(s.swaps)
    <2>1. /\ BX \in Seq(Int) /\ Len(BX) = m /\ BZ \in Seq(Int) /\ Len(BZ) = Len(r.swaps)
      BY <1>1, BroughtIn
    <2>2. /\ Len(r.swaps) = m + 1 /\ m \in Nat /\ r.swaps[m + 1] = swap
          /\ \A i \in 1..m : r.swaps[i] = s.swaps[i]
          /\ DOMAIN s.swaps = 1..m /\ DOMAIN r.swaps = 1..(m + 1)
      <3> HIDE DEF swap
      <3>1. QED
        BY <1>1
    <2>3. ASSUME NEW i \in 1..m PROVE BZ[i] = BX[i]
      <3> HIDE DEF swap
      <3>1. i \in 1..(m + 1)
        BY <2>2
      <3>2. QED
        BY <2>2, <3>1 DEF BroughtBy
    <2>4. BZ[m + 1] = more
      <3>1. m + 1 \in DOMAIN r.swaps /\ r.swaps[m + 1].buy = Lower[buy] /\ r.swaps[m + 1].out = q.out
        BY <2>2
      <3>2. QED
        BY <3>1 DEF BroughtBy
    <2>5. more \in Int
      BY DEF Gives
    <2> HIDE DEF BX, BZ, more, m, swap
    <2>6. <<more>> \in Seq(Int) /\ Len(<<more>>) = 1 /\ \A i \in 1..1 : <<more>>[i] = more /\ m + i = m + 1
      BY <2>2, <2>5
    <2>7. QED
      BY <2>1, <2>2, <2>3, <2>4, <2>5, <2>6 DEF Joined
  <1>7. /\ SumSeq(Z) = SumSeq(X) + SumSeq(Y) /\ SumSeq(FZ) = SumSeq(FX) + SumSeq(FY)
        /\ SumSeq(BZ) = SumSeq(BX) + more
    <2> HIDE DEF X, Y, Z, FX, FY, FZ, BX, BZ, more
    <2>1. QED
      BY <1>4, <1>5, <1>6, SumJoined, SumOfOne
  <1>8. /\ SumSeq(X) \in Int /\ SumSeq(Y) \in Int /\ SumSeq(FX) \in Int /\ SumSeq(FY) \in Int
        /\ SumSeq(BX) \in Int
    <2> HIDE DEF X, Y, Z, FX, FY, FZ, BX, BZ, more
    <2>1. QED
      BY <1>4, <1>5, <1>6, SumType DEF Joined
  <1>9. /\ t = Lower[buy] => SumSeq(Y) < q.out + n /\ SumSeq(FY) = n
        /\ t # Lower[buy] => SumSeq(Y) = 0 /\ SumSeq(FY) = 0
    BY <1>0 DEF PaysShares
  <1>10. n # 0 /\ q.out \in Nat
    BY <1>1 DEF FillsWith, Gives
  <1>11. /\ SumSeq(X) <= SumSeq(BX) + SumSeq(FX)
         /\ SumSeq(FX) > 0 => SumSeq(X) < SumSeq(BX) + SumSeq(FX)
    BY DEF Balanced
  <1> HIDE DEF X, Y, Z, FX, FY, FZ, BX, BZ, n
  <1> DEFINE pays == SumSeq(X)
             fills == SumSeq(FX)
             swapped == SumSeq(BX)
             pay == SumSeq(Y)
             fill == SumSeq(FY)
  <1> HIDE DEF pays, fills, swapped, pay, fill
  <1>12. /\ SumSeq(Z) <= SumSeq(BZ) + SumSeq(FZ)
         /\ SumSeq(FZ) > 0 => SumSeq(Z) < SumSeq(BZ) + SumSeq(FZ)
    <2>1. /\ pays \in Int /\ fills \in Int /\ swapped \in Int /\ pay \in Int /\ fill \in Int
          /\ pays <= swapped + fills /\ (fills > 0 => pays < swapped + fills)
      BY <1>8, <1>11 DEF pays, fills, swapped, pay, fill
    <2>2. /\ SumSeq(Z) = pays + pay /\ SumSeq(FZ) = fills + fill /\ SumSeq(BZ) = swapped + more
      BY <1>7 DEF pays, fills, swapped, pay, fill
    <2>3. CASE t = Lower[buy]
      <3>1. pay < q.out + n /\ fill = n /\ more = q.out
        BY <1>9, <2>3 DEF pay, fill
      <3>2. QED
        BY <1>2, <1>10, <2>1, <2>2, <3>1
    <2>4. CASE t # Lower[buy]
      <3>1. pay = 0 /\ fill = 0 /\ more = 0
        BY <1>9, <2>4 DEF pay, fill
      <3>2. QED
        BY <2>1, <2>2, <3>1
    <2>5. QED
      BY <2>3, <2>4
  <1>13. QED
    BY <1>12 DEF Balanced, Z, FZ, BZ

\* So a fill that sells whole orders for all it takes in keeps it.
LEMMA FillStaysCovered ==
    ASSUME NEW s \in Solutions, Covered(s), NEW sell \in DOMAIN Lower, NEW buy \in DOMAIN Lower,
           sell # buy, NEW sold \in Nat \ {0}, NEW q, Gives(q), q.route # <<>>,
           NEW trades, Exchange(trades, sell, buy), FillsWith(trades, sold)
    PROVE  Covered(Fill(s, sell, buy, sold, q, trades))
  <1> DEFINE r == Fill(s, sell, buy, sold, q, trades)
  <1>1. CASE ~Agrees(s.prices, sell, buy, q.out, sold)
    BY <1>1 DEF Fill
  <1>2. CASE Agrees(s.prices, sell, buy, q.out, sold)
    <2>1. Grown(r, s, sell, buy, sold, q, trades)
      BY <1>2, FillGrows
    <2> HIDE DEF r
    <2>2. trades \in Seq(Trade) /\ s.trades \in Seq(Trade)
      BY SolutionParts DEF Exchange
    <2>3. ASSUME NEW i \in DOMAIN r.trades PROVE SellsWhole(r.trades[i])
      <3>1. CASE i \in DOMAIN s.trades
        <4>1. i \in 1..Len(s.trades)
          BY <2>2, <3>1
        <4>2. r.trades[i] = s.trades[i]
          BY <2>1, <2>2, <4>1, GrownTrades
        <4>3. QED
          BY <3>1, <4>2 DEF Covered
      <3>2. CASE i - Len(s.trades) \in DOMAIN trades
        <4> DEFINE j == i - Len(s.trades)
        <4>1. j \in 1..Len(trades) /\ j \in DOMAIN trades
          BY <2>2, <3>2
        <4>2. i \in Int /\ Len(s.trades) \in Nat /\ Len(s.trades) + j = i
          <5>1. r.trades \in Seq(Trade)
            BY <2>1, SolutionParts DEF Grown
          <5>2. i \in Int /\ Len(s.trades) \in Nat
            BY <2>2, <5>1
          <5>3. QED
            BY <5>2
        <4> HIDE DEF j
        <4>3. r.trades[i] = trades[j]
          BY <2>1, <2>2, <4>1, <4>2, GrownTrades
        <4>4. QED
          BY <4>1, <4>3 DEF FillsWith
      <3>3. QED
        BY <2>1, <2>2, <3>1, <3>2, GrownTrades
    <2>4. ASSUME ~DuplicateTokens(r), NEW t \in Tokens PROVE Balanced(r, t)
      <3>1. ~DuplicateTokens(s)
        BY <2>1, <2>4 DEF Grown, Extends, DuplicateTokens
      <3>2. Balanced(s, t)
        BY <3>1 DEF Covered
      <3>3. QED
        BY <2>1, <2>4, <3>2, GrownBalanced
    <2>5. Covered(r)
      BY <2>3, <2>4 DEF Covered
    <2>6. QED
      BY <2>5 DEF r
  <1>3. QED
    BY <1>1, <1>2

\* The candidates go somewhere.
LEMMA RoutesGo ==
    ASSUME NEW sell, NEW buy, NEW r \in V3Routes(sell, buy)
    PROVE  r # <<>>
  BY DEF V3Routes

\* A quote that pays has a route.
LEMMA SoloRouteGoes ==
    ASSUME NEW c, IsChain(c), NEW u \in Uids, NEW lost, SoloQuote(u, c.pools, lost).out # 0
    PROVE  SoloQuote(u, c.pools, lost).route # <<>>
  <1> DEFINE o == Orders[u]
             All == V3Routes(Lower[o.sellToken], Lower[o.buyToken])
             Rs(what) == {r \in All : <<r[1][3], what>> \notin lost}
             whole == BestQuote(c.pools, Rs("whole"), o.sellAmount)
             part == BestQuote(c.pools, Rs("fraction"), (3 * o.sellAmount) \div 4)
  <1>1. o.sellAmount \in Nat /\ (3 * o.sellAmount) \div 4 \in Nat
    <2>1. o.sellAmount \in Nat
      BY OrderFacts
    <2>2. QED
      BY <2>1
  <1>2. IsFiniteSet(All)
    BY OrderFacts, V3RoutesFacts
  <1>3. ASSUME NEW what PROVE IsFiniteSet(Rs(what)) /\ Rs(what) \subseteq All
    <2>1. Rs(what) \in SUBSET All
      OBVIOUS
    <2> HIDE DEF All, Rs
    <2>2. QED
      BY <1>2, <2>1, FS_Subset
  <1>4. IsFiniteSet(Rs("whole")) /\ Rs("whole") \subseteq All
    BY <1>3
  <1>5. IsFiniteSet(Rs("fraction")) /\ Rs("fraction") \subseteq All
    BY <1>3
  <1>6. SoloQuote(u, c.pools, lost) \in {whole, part, NoQuote}
    BY DEF SoloQuote
  <1> HIDE DEF Rs
  <1>7. whole.out # 0 => whole.route \in All
    BY <1>1, <1>4, BestQuoteIs
  <1>8. part.out # 0 => part.route \in All
    BY <1>1, <1>5, BestQuoteIs
  <1>9. NoQuote.out = 0
    BY DEF NoQuote
  <1> HIDE DEF whole, part
  <1>10. SoloQuote(u, c.pools, lost).route \in All
    BY <1>6, <1>7, <1>8, <1>9
  <1>11. QED
    BY <1>10, RoutesGo

\* Each step of joint clearing is such a fill.
LEMMA SoloStaysCovered ==
    ASSUME NEW c, IsChain(c), NEW s \in Solutions, Covered(s), NEW u \in Uids, NEW lost
    PROVE  Covered(FillSolo(s, u, c.pools, lost))
  <1> DEFINE o == Orders[u]
             q == SoloQuote(u, c.pools, lost)
             filled == \E i \in DOMAIN s.trades : s.trades[i].uid = u
             skip == filled \/ o.kind = "buy" \/ q.out = 0 \/ q.out < o.buyAmount
  <1>1. FillSolo(s, u, c.pools, lost) =
           IF skip THEN s ELSE Fill(s, o.sellToken, o.buyToken, o.sellAmount, q, WholeOf(u))
    BY DEF FillSolo
  <1>2. q.out # 0 => Gives(q) /\ q.route # <<>>
    BY SoloQuoteIs, SoloRouteGoes
  <1> HIDE DEF q, filled
  <1>3. ASSUME ~skip
        PROVE  Covered(Fill(s, o.sellToken, o.buyToken, o.sellAmount, q, WholeOf(u)))
    <2>1. Gives(q) /\ q.route # <<>>
      BY <1>2, <1>3
    <2>2. Orders[u].kind = "sell" /\ o.sellAmount \in Nat \ {0}
      BY <1>3, OrderFacts
    <2>3. Exchange(WholeOf(u), o.sellToken, o.buyToken)
      BY <2>2, WholeIs
    <2>4. FillsWith(WholeOf(u), o.sellAmount)
      <3> DEFINE w == WholeOf(u)
                 amounts == [i \in DOMAIN w |-> Orders[w[i].uid].sellAmount]
      <3>1. w = <<[uid |-> u, executed |-> o.sellAmount]>>
        BY DEF WholeOf
      <3>2. /\ w # <<>> /\ DOMAIN w = 1..1 /\ w[1].uid = u /\ w[1].executed = o.sellAmount
        BY <3>1
      <3> HIDE DEF w
      <3>3. amounts = [i \in 1..1 |-> o.sellAmount]
        BY <3>2
      <3>4. amounts = <<o.sellAmount>>
        BY <3>3
      <3>5. SumSeq(amounts) = o.sellAmount
        BY <2>2, <3>4, SumOfOne
      <3>6. \A i \in DOMAIN w : SellsWhole(w[i])
        BY <2>2, <3>2 DEF SellsWhole
      <3>7. QED
        BY <3>2, <3>5, <3>6 DEF FillsWith, w
    <2>5. o.sellToken # o.buyToken /\ o.sellToken \in DOMAIN Lower /\ o.buyToken \in DOMAIN Lower
      BY OrderFacts
    <2> HIDE DEF o
    <2>6. QED
      BY <2>1, <2>2, <2>3, <2>4, <2>5, FillStaysCovered DEF o
  <1>4. QED
    BY <1>1, <1>3

\* One more group keeps the solution covered.
LEMMA GroupStaysCovered ==
    ASSUME NEW c, IsChain(c), NEW s \in Solutions, Covered(s), NEW group, IsGroup(group), NEW tiers
    PROVE  Covered(FillGroup(s, group, c.pools, tiers))
  <1> DEFINE pair == PairOf(Head(group))
             All == V3Routes(pair[1], pair[2])
             routes == {r \in All : r[1][3] \in tiers}
             sold == Combined(group)
             best == BestQuote(c.pools, routes, sold)
             trades == [i \in DOMAIN group |-> WholeOf(group[i])[1]]
             skip == best.out = 0 \/ ~AllLimitsSatisfied(group, sold, best.out)
  <1>1. FillGroup(s, group, c.pools, tiers) =
           IF skip THEN s ELSE Fill(s, pair[1], pair[2], sold, best, trades)
    BY DEF FillGroup
  <1>2. sold \in Nat \ {0} /\ sold = SumSeq([i \in DOMAIN group |-> Orders[group[i]].sellAmount])
    BY CombinedIs DEF Combined
  <1> HIDE DEF sold
  <1>3. /\ Head(group) = group[1] /\ Len(group) \in Nat /\ DOMAIN group = 1..Len(group)
        /\ \A i \in DOMAIN group : group[i] \in Uids
        /\ 1 \in DOMAIN group
    BY DEF IsGroup
  <1>4. pair[1] \in Tokens /\ pair[2] \in Tokens /\ pair[1] # pair[2]
    BY <1>3, OrderFacts DEF PairOf
  <1>5. pair[1] \in DOMAIN Lower /\ pair[2] \in DOMAIN Lower
        /\ Lower[pair[1]] = pair[1] /\ Lower[pair[2]] = pair[2]
    BY <1>4, TokenFacts
  <1>6. ASSUME NEW i \in DOMAIN group
        PROVE  /\ trades[i] = [uid |-> group[i], executed |-> Orders[group[i]].sellAmount]
               /\ trades[i] \in Trade
               /\ trades[i].executed <= Target(Orders[trades[i].uid])
               /\ Lower[Orders[trades[i].uid].sellToken] = Lower[pair[1]]
               /\ Lower[Orders[trades[i].uid].buyToken] = Lower[pair[2]]
               /\ SellsWhole(trades[i])
    <2>1. trades[i] = [uid |-> group[i], executed |-> Orders[group[i]].sellAmount]
      BY DEF WholeOf
    <2> HIDE DEF trades
    <2>2. group[i] \in Uids /\ Groupable(group[i]) /\ PairOf(group[i]) = pair
      BY <1>3 DEF IsGroup
    <2>3. trades[i] \in Trade /\ trades[i].uid = group[i]
      BY <2>1, <2>2, OrderFacts DEF Trade
    <2>4. trades[i].executed <= Target(Orders[group[i]])
      BY <2>1, <2>2, OrderFacts DEF Target, Groupable
    <2>5. Lower[Orders[group[i]].sellToken] = pair[1] /\ Lower[Orders[group[i]].buyToken] = pair[2]
      BY <2>2 DEF PairOf
    <2>6. SellsWhole(trades[i])
      BY <2>1, <2>2 DEF SellsWhole, Groupable
    <2>7. QED
      BY <1>5, <2>1, <2>3, <2>4, <2>5, <2>6
  <1>7. trades \in Seq(Trade) /\ DOMAIN trades = DOMAIN group
    <2>1. DOMAIN trades = 1..Len(group) /\ trades = [i \in 1..Len(group) |-> trades[i]]
      BY <1>3
    <2>2. \A i \in 1..Len(group) : trades[i] \in Trade
      BY <1>3, <1>6
    <2> HIDE DEF trades
    <2>3. QED
      BY <1>3, <2>1, <2>2
  <1> HIDE DEF trades
  <1>8. Exchange(trades, pair[1], pair[2])
    <2> HIDE DEF pair
    <2>1. QED
      BY <1>6, <1>7 DEF Exchange
  <1>9. FillsWith(trades, sold)
    <2>1. trades # <<>>
      BY <1>3, <1>7
    <2>2. \A i \in DOMAIN trades : Orders[trades[i].uid].sellAmount = Orders[group[i]].sellAmount
      BY <1>6, <1>7
    <2>3. [i \in DOMAIN trades |-> Orders[trades[i].uid].sellAmount]
             = [i \in DOMAIN group |-> Orders[group[i]].sellAmount]
      BY <1>7, <2>2
    <2>4. \A i \in DOMAIN trades : SellsWhole(trades[i])
      BY <1>6, <1>7
    <2>5. QED
      BY <1>2, <2>1, <2>3, <2>4 DEF FillsWith
  <1> HIDE DEF pair
  <1>10. best.out \in Nat /\ (best.out # 0 => best.route \in routes)
    <2>1. IsFiniteSet(All)
      BY <1>4, V3RoutesFacts
    <2>2. routes \in SUBSET All
      OBVIOUS
    <2> HIDE DEF routes, All
    <2>3. IsFiniteSet(routes)
      BY <2>1, <2>2, FS_Subset
    <2>4. QED
      BY <1>2, <2>3, BestQuoteIs
  <1> HIDE DEF best
  <1>11. ASSUME ~skip PROVE Gives(best) /\ best.route # <<>>
    <2>1. best.out # 0 /\ best.route \in All
      BY <1>10, <1>11
    <2> HIDE DEF All
    <2>2. All \subseteq Seq(Hop) /\ best.route # <<>>
      BY <1>4, <2>1, V3RoutesFacts, RoutesGo DEF All
    <2>3. QED
      BY <1>10, <2>1, <2>2 DEF Gives
  <1>12. ASSUME ~skip PROVE Covered(Fill(s, pair[1], pair[2], sold, best, trades))
    BY <1>2, <1>4, <1>5, <1>8, <1>9, <1>11, <1>12, FillStaysCovered
  <1>13. QED
    BY <1>1, <1>12

\* What joint clearing builds is covered.
LEMMA JointCovered ==
    ASSUME NEW c, IsChain(c), NEW us \in Seq(Uids), NEW lost
    PROVE  Covered(JointSolve(us, c.pools, lost))
  <1> DEFINE tiers == {f \in FeeTiers : <<f, "group">> \notin lost}
             D == {s \in Solutions : Covered(s)}
             f == GroupFills(us, c.pools, tiers)
             g == SoloFills(f[Len(us)], us, c.pools, lost)
  <1>1. Len(us) \in Nat /\ \A n \in 1..Len(us) : us[n] \in Uids
    OBVIOUS
  <1> HIDE DEF tiers
  <1>2. Covered(NoSolution)
    <2>1. NoSolution.trades = <<>> /\ NoSolution.swaps = <<>>
      BY DEF NoSolution
    <2>2. ASSUME NEW t PROVE Balanced(NoSolution, t)
      <3> DEFINE X == PayoutsOf(NoSolution, NoSolution.trades, t)
                 F == FillsOf(NoSolution.trades, t)
                 B == BroughtBy(NoSolution.swaps, t)
      <3>1. X = <<>> /\ F = <<>> /\ B = <<>>
        BY <2>1 DEF PayoutsOf, FillsOf, BroughtBy
      <3>2. <<>> \in Seq(Int) /\ Len(<<>>) = 0
        OBVIOUS
      <3>3. SumSeq(<<>>) = 0
        BY <3>2, SumEquation DEF SumSeq
      <3> HIDE DEF X, F, B
      <3>4. SumSeq(X) = 0 /\ SumSeq(F) = 0 /\ SumSeq(B) = 0
        BY <3>1, <3>3
      <3>5. QED
        BY <3>4 DEF Balanced, X, F, B
    <2>3. QED
      BY <2>1, <2>2 DEF Covered
  <1>3. f[0] \in D
    BY <1>2, GroupEquation, NoSolutionIn
  <1>4. ASSUME NEW n \in 1..Len(us), f[n - 1] \in D PROVE f[n] \in D
    <2> DEFINE group == Group(us, PairOf(us[n]))
    <2>1. f[n] = IF OpensGroup(us, n) THEN FillGroup(f[n - 1], group, c.pools, tiers) ELSE f[n - 1]
      BY GroupEquation
    <2> HIDE DEF f
    <2>2. ASSUME OpensGroup(us, n) PROVE FillGroup(f[n - 1], group, c.pools, tiers) \in D
      <3>1. IsGroup(group)
        BY <2>2, GroupIs
      <3> HIDE DEF group
      <3>2. Covered(FillGroup(f[n - 1], group, c.pools, tiers))
        BY <1>4, <3>1, GroupStaysCovered
      <3>3. FillGroup(f[n - 1], group, c.pools, tiers) \in Solutions
        BY <1>4, <3>1, FillGroupIn
      <3>4. QED
        BY <3>2, <3>3
    <2> HIDE DEF D
    <2>3. QED
      BY <1>4, <2>1, <2>2
  <1>5. f[Len(us)] \in D
    <2> HIDE DEF D, f
    <2>1. Stays(f, Len(us), D)
      BY <1>3, <1>4 DEF Stays
    <2>2. QED
      BY <1>1, <2>1, StaysIn
  <1> DEFINE s == f[Len(us)]
  <1>6. s \in D
    BY <1>5
  <1> HIDE DEF f, s
  <1>7. /\ SoloFills(s, us, c.pools, lost)[0] = s
        /\ \A n \in 1..Len(us) : SoloFills(s, us, c.pools, lost)[n]
                                   = FillSolo(SoloFills(s, us, c.pools, lost)[n - 1], us[n], c.pools, lost)
    BY <1>6, SoloEquation
  <1> DEFINE h == SoloFills(s, us, c.pools, lost)
  <1>8. h[0] \in D
    BY <1>6, <1>7
  <1> HIDE DEF h
  <1>9. ASSUME NEW n \in 1..Len(us), h[n - 1] \in D PROVE h[n] \in D
    <2>1. h[n] = FillSolo(h[n - 1], us[n], c.pools, lost)
      BY <1>7 DEF h
    <2>2. Covered(FillSolo(h[n - 1], us[n], c.pools, lost))
      BY <1>1, <1>9, SoloStaysCovered
    <2>3. FillSolo(h[n - 1], us[n], c.pools, lost) \in Solutions
      BY <1>1, <1>9, FillSoloIn
    <2>4. QED
      BY <2>1, <2>2, <2>3
  <1>10. h[Len(us)] \in D
    <2> HIDE DEF D
    <2>1. Stays(h, Len(us), D)
      BY <1>8, <1>9 DEF Stays
    <2>2. QED
      BY <1>1, <2>1, StaysIn
  <1>11. JointSolve(us, c.pools, lost) = h[Len(us)]
    BY DEF JointSolve, h, s, f, tiers
  <1>12. QED
    BY <1>10, <1>11

\* What the contract pays at the prices of the solution.
LEMMA PaidIsPayout ==
    ASSUME NEW s \in Solutions, NEW i \in DOMAIN s.trades, SellsWhole(s.trades[i])
    PROVE  LET call == DriverSettle(s)
           IN  /\ Paid(call, call.trades[i]) = Payout(s, s.trades[i])
               /\ \A t : Buys(call.trades[i], t) <=> Buys(s.trades[i], t)
  <1> DEFINE call == DriverSettle(s)
             trade == s.trades[i]
             o == Orders[trade.uid]
  <1>1. /\ call.trades[i].uid = trade.uid /\ call.trades[i].executed = trade.executed
        /\ call.trades[i].sellIndex = TokenIndex(s, o.sellToken)
        /\ call.trades[i].buyIndex = TokenIndex(s, o.buyToken)
    BY DEF DriverSettle
  <1>2. IsSolution(s)
    BY SolutionParts
  <1>3. /\ o.sellToken \in DOMAIN Lower /\ Lower[o.sellToken] \in Spelled(s)
        /\ o.buyToken \in DOMAIN Lower /\ Lower[o.buyToken] \in Spelled(s)
    BY TradePrices
  <1>4. /\ call.prices[TokenIndex(s, o.sellToken)] = ScorePrice(s, o.sellToken)
        /\ call.prices[TokenIndex(s, o.buyToken)] = ScorePrice(s, o.buyToken)
    BY <1>2, <1>3, PriceIs
  <1>5. o.kind = "sell" /\ trade.executed = o.sellAmount
    BY DEF SellsWhole
  <1> HIDE DEF call, trade
  <1>6. Whole(call.trades[i]) = o.sellAmount
    BY <1>1, <1>5 DEF Whole, Target
  <1>7. Paid(call, call.trades[i]) = Payout(s, trade)
    BY <1>1, <1>4, <1>5, <1>6 DEF Paid, Bought, SellPrice, BuyPrice, Payout
  <1>8. \A t : Buys(call.trades[i], t) <=> Buys(trade, t)
    BY <1>1 DEF Buys
  <1>9. QED
    BY <1>7, <1>8 DEF call, trade

\* The invariant of the last theorem.
JointInv == solver = "joint" /\ sol.trades # <<>> => sol \in Solutions /\ Covered(sol)

\* Every step keeps the solution covered.
LEMMA JointStep ==
    ASSUME Typed, JointInv, [Next]_vars
    PROVE  JointInv'
  <1>1. ASSUME NEW a \in Auctions, NEW s \in {"joint", "router", "naive", "edge"},
               NEW replayed \in BOOLEAN, Start(a, s, replayed)
        PROVE  JointInv'
    <2>1. sol'.trades = <<>>
      BY <1>1 DEF Start, NoSolution
    <2>2. QED
      BY <2>1 DEF JointInv
  <1>2. ASSUME NEW lost \in SUBSET V3Calls, JointClears(lost) PROVE JointInv'
    <2>1. sol' = JointSolve(uids, Pools, lost)
      BY <1>2 DEF JointClears, Built
    <2>2. uids \in Seq(Uids) /\ IsChain(Chains[chain])
      BY ChainFacts DEF Typed
    <2>3. sol' \in Solutions /\ Covered(sol')
      BY <2>1, <2>2, JointSolveIn, JointCovered DEF Pools
    <2>4. QED
      BY <2>3 DEF JointInv
  <1>3. ASSUME NEW lost \in SUBSET ToSet(uids), RouterSolves(lost) PROVE JointInv'
    BY <1>3 DEF RouterSolves, Built, JointInv
  <1>4. ASSUME NEW lost \in SUBSET {PairOf(u) : u \in ToSet(uids)}, NaiveSolves(lost)
        PROVE  JointInv'
    BY <1>4 DEF NaiveSolves, Built, JointInv
  <1>5. ASSUME NEW s \in EdgeSolutions \cup {NoSolution}, EdgeProposes(s) PROVE JointInv'
    BY <1>5 DEF EdgeProposes, Built, JointInv
  <1>6. ASSUME UNCHANGED <<solver, sol>> PROVE JointInv'
    BY <1>6 DEF JointInv
  <1>7. ASSUME NEW c \in DOMAIN Chains, ChainMoves(c) PROVE JointInv'
    BY <1>6, <1>7 DEF ChainMoves
  <1>8. ASSUME NEW lost \in SUBSET Checks, ValidityFilter(lost) PROVE JointInv'
    BY <1>6, <1>8 DEF ValidityFilter
  <1>9. ASSUME NEW lost \in SUBSET Checks, FundingGate(lost) PROVE JointInv'
    BY <1>6, <1>9 DEF FundingGate
  <1>10. ASSUME NEW failed \in SUBSET ToSet(TradedUids(sol)), EbboCheck(failed) PROVE JointInv'
    BY <1>6, <1>10 DEF EbboCheck
  <1>11. ASSUME NEW known \in SUBSET ToSet(TradedUids(sol)), NEW answered \in BOOLEAN,
                GateCheck(known, answered)
         PROVE  JointInv'
    BY <1>6, <1>11 DEF GateCheck
  <1>12. CASE Settle
    BY <1>6, <1>12 DEF Settle
  <1>13. CASE UNCHANGED vars
    BY <1>6, <1>13 DEF vars
  <1>14. QED
    BY <1>1, <1>2, <1>3, <1>4, <1>5, <1>7, <1>8, <1>9, <1>10, <1>11, <1>12, <1>13 DEF Next

\* What is covered falls short by roundings alone.
LEMMA JointMeansRounding ==
    ASSUME JointInv
    PROVE  ShortfallIsRounding
  <1> SUFFICES ASSUME solver = "joint", sol.trades # <<>>, ~DuplicateTokens(sol), NEW t \in Tokens
               PROVE  LET call == DriverSettle(sol)
                          trades == call.trades
                          paid == SumSeq([i \in DOMAIN trades |->
                                    IF Buys(trades[i], t) THEN Paid(call, trades[i]) ELSE 0])
                          fills == SumSeq([i \in DOMAIN trades |-> IF Buys(trades[i], t) THEN 1 ELSE 0])
                          quoted == SumSeq([i \in DOMAIN sol.swaps |->
                                      IF sol.swaps[i].buy = t THEN sol.swaps[i].out ELSE 0])
                      IN  fills > 0 => paid < quoted + fills
    BY DEF ShortfallIsRounding
  <1> DEFINE call == DriverSettle(sol)
             trades == call.trades
             paid == [i \in DOMAIN trades |-> IF Buys(trades[i], t) THEN Paid(call, trades[i]) ELSE 0]
             fills == [i \in DOMAIN trades |-> IF Buys(trades[i], t) THEN 1 ELSE 0]
             quoted == [i \in DOMAIN sol.swaps |-> IF sol.swaps[i].buy = t THEN sol.swaps[i].out ELSE 0]
  <1>1. sol \in Solutions /\ Covered(sol)
    BY DEF JointInv
  <1>2. DOMAIN trades = DOMAIN sol.trades
    BY DEF DriverSettle
  <1>3. ASSUME NEW i \in DOMAIN sol.trades
        PROVE  /\ Paid(call, trades[i]) = Payout(sol, sol.trades[i])
               /\ Buys(trades[i], t) <=> Buys(sol.trades[i], t)
    <2>1. SellsWhole(sol.trades[i])
      BY <1>1 DEF Covered
    <2>2. QED
      BY <1>1, <2>1, PaidIsPayout
  <1> HIDE DEF call, trades
  <1>4. paid = PayoutsOf(sol, sol.trades, t)
    BY <1>2, <1>3 DEF PayoutsOf
  <1>5. fills = FillsOf(sol.trades, t)
    BY <1>2, <1>3 DEF FillsOf
  <1>6. quoted = BroughtBy(sol.swaps, t)
    BY DEF BroughtBy
  <1>7. Balanced(sol, t)
    BY <1>1 DEF Covered
  <1> HIDE DEF paid, fills, quoted
  <1>8. SumSeq(fills) > 0 => SumSeq(paid) < SumSeq(quoted) + SumSeq(fills)
    BY <1>4, <1>5, <1>6, <1>7 DEF Balanced
  <1>9. QED
    BY <1>8 DEF paid, fills, quoted, trades, call

\* For any orders and pools, and whichever calls are lost: of a token joint
\* clearing promises no more than its swaps are quoted to bring, but for less
\* than a unit for each fill.
THEOREM GroupsAreCovered == Spec => []ShortfallIsRounding
  <1>1. Init => Typed /\ JointInv
    BY TypedInit DEF Init, NoSolution, JointInv
  <1>2. (Typed /\ JointInv) /\ [Next]_vars => (Typed /\ JointInv)'
    BY TypedStep, JointStep
  <1>3. Typed /\ JointInv => ShortfallIsRounding
    BY JointMeansRounding
  <1>4. QED
    BY <1>1, <1>2, <1>3, PTL DEF Spec
=============================================================================
