---------------------------- MODULE ShadowLogProofs ----------------------------
(***************************************************************************)
(* For any number of records and of deaths: what the rewriting of the      *)
(* shadow log can lose, and that it doubles, reorders and forgets nothing. *)
(***************************************************************************)
EXTENDS ShadowLog, WellFoundedInduction, TLAPS

-----------------------------------------------------------------------------
(* What the resilient parse keeps of the file.                             *)

\* A set with 0 and with every successor of its members holds every natural
\* number: the induction behind what the parse does with any number of lines.
LEMMA NatSetInduction ==
    ASSUME NEW S, 0 \in S, \A n \in Nat : n \in S => n + 1 \in S
    PROVE  Nat \subseteq S
  <1> SUFFICES ASSUME Nat \ S # {} PROVE FALSE
    OBVIOUS
  <1> DEFINE Below == OpToRel(<, Nat)
  <1>1. IsWellFoundedOn(Below, Nat)
    BY NatLessThanWellFounded
  <1>2. Below = {p \in Nat \X Nat : p[1] < p[2]}
    BY DEF OpToRel
  <1> HIDE DEF Below
  <1>3. PICK x \in Nat \ S : \A y \in Nat \ S : <<y, x>> \notin Below
    BY <1>1, WFMin
  <1>4. x # 0 /\ x - 1 \in Nat
    OBVIOUS
  <1>5. <<x - 1, x>> \in Below
    BY <1>2, <1>4
  <1>6. x - 1 \in S
    BY <1>3, <1>4, <1>5
  <1>7. QED
    BY <1>4, <1>6

\* The line-by-line parse is a function of the number of lines read.
LEMMA ParsedToEquation ==
    ASSUME file \in Seq(Line)
    PROVE  ParsedTo = [n \in 0..Len(file) |->
               IF n = 0 THEN <<>>
               ELSE IF file[n].good THEN Append(ParsedTo[n - 1], file[n])
                                    ELSE ParsedTo[n - 1]]
  <1> DEFINE Reads(f, m) == f = [n \in 0..m |->
                 IF n = 0 THEN <<>>
                 ELSE IF file[n].good THEN Append(f[n - 1], file[n]) ELSE f[n - 1]]
             S == {m \in Nat : \E f : Reads(f, m)}
  <1>1. 0 \in S
    <2> DEFINE f == [n \in 0..0 |-> <<>>]
    <2>1. Reads(f, 0)
      OBVIOUS
    <2>2. QED
      BY <2>1
  <1>2. ASSUME NEW m \in Nat, m \in S PROVE m + 1 \in S
    <2>1. PICK f : Reads(f, m)
      BY <1>2
    <2> DEFINE last == IF file[m + 1].good THEN Append(f[m], file[m + 1]) ELSE f[m]
               g == [n \in 0..(m + 1) |-> IF n = m + 1 THEN last ELSE f[n]]
               h == [n \in 0..(m + 1) |->
                      IF n = 0 THEN <<>>
                      ELSE IF file[n].good THEN Append(g[n - 1], file[n]) ELSE g[n - 1]]
    <2>2. ASSUME NEW n \in 0..(m + 1) PROVE g[n] = h[n]
      <3>1. CASE n = 0
        BY <2>1, <3>1
      <3>2. CASE n \in 1..m
        <4>1. n \in 0..m /\ n - 1 # m + 1 /\ n - 1 \in 0..(m + 1) /\ n # 0
          BY <3>2
        <4>2. g[n] = f[n] /\ g[n - 1] = f[n - 1]
          <5> HIDE DEF last
          <5>1. n # m + 1
            BY <3>2
          <5>2. QED
            BY <4>1, <5>1
        <4>3. f[n] = IF file[n].good THEN Append(f[n - 1], file[n]) ELSE f[n - 1]
          <5> HIDE DEF last, g, h
          <5>1. QED
            BY <2>1, <4>1
        <4>4. QED
          BY <4>1, <4>2, <4>3
      <3>3. CASE n = m + 1
        <4>1. n - 1 = m /\ m \in 0..(m + 1) /\ m # m + 1 /\ n # 0
          BY <3>3
        <4>2. g[n] = last /\ g[n - 1] = f[m]
          BY <3>3, <4>1
        <4>3. QED
          BY <3>3, <4>1, <4>2
      <3>4. QED
        BY <3>1, <3>2, <3>3
    <2>3. g = h
      BY <2>2
    <2>4. Reads(g, m + 1)
      BY <2>3
    <2>5. \E x : Reads(x, m + 1)
      <3> HIDE DEF Reads, g
      <3>1. QED
        BY <2>4
    <2>6. QED
      <3> HIDE DEF Reads
      <3>1. QED
        BY <2>5
  <1>3. Nat \subseteq S
    <2> HIDE DEF S
    <2>1. QED
      BY <1>1, <1>2, NatSetInduction
  <1>4. \E f : Reads(f, Len(file))
    <2> HIDE DEF Reads
    <2>1. Len(file) \in Nat
      OBVIOUS
    <2>2. QED
      BY <1>3, <2>1
  <1>5. ParsedTo = CHOOSE f : Reads(f, Len(file))
    BY DEF ParsedTo
  <1>6. QED
    BY <1>4, <1>5

\* The first n lines of the file, as a parse yields them: in order, the good
\* ones and only those.
Yields(p, n) ==
    /\ p \in Seq(Line)
    /\ \A k \in DOMAIN p : \E i \in 1..n : p[k] = file[i] /\ file[i].good
    /\ \A k, l \in DOMAIN p :
         k < l => \E i, j \in 1..n : i < j /\ p[k] = file[i] /\ p[l] = file[j]
    /\ \A i \in 1..n : file[i].good => \E k \in DOMAIN p : p[k] = file[i]

\* One more line, appended when it parses.
LEMMA YieldsMore ==
    ASSUME file \in Seq(Line), NEW n \in Nat, n + 1 \in DOMAIN file,
           NEW p, Yields(p, n)
    PROVE  Yields(IF file[n + 1].good THEN Append(p, file[n + 1]) ELSE p, n + 1)
  <1>1. file[n + 1] \in Line /\ 1..n \subseteq 1..(n + 1) /\ n + 1 \in 1..(n + 1)
        /\ \A i \in 1..(n + 1) : i \in 1..n \/ i = n + 1
    OBVIOUS
  <1>2. CASE ~file[n + 1].good
    <2>1. ASSUME NEW k \in DOMAIN p, NEW l \in DOMAIN p, k < l
          PROVE  \E i, j \in 1..(n + 1) : i < j /\ p[k] = file[i] /\ p[l] = file[j]
      <3>1. PICK i, j \in 1..n : i < j /\ p[k] = file[i] /\ p[l] = file[j]
        BY <2>1 DEF Yields
      <3>2. QED
        BY <1>1, <3>1
    <2>2. QED
      BY <1>1, <1>2, <2>1 DEF Yields
  <1>3. CASE file[n + 1].good
    <2> DEFINE q == Append(p, file[n + 1])
               m == Len(p)
    <2>1. /\ p \in Seq(Line) /\ m \in Nat /\ DOMAIN p = 1..m
          /\ q \in Seq(Line) /\ DOMAIN q = 1..(m + 1)
          /\ q[m + 1] = file[n + 1]
          /\ \A k \in 1..m : q[k] = p[k]
      BY <1>1 DEF Yields
    <2> HIDE DEF q, m
    <2>2. \A k \in DOMAIN q : k \in 1..m \/ k = m + 1
      BY <2>1
    <2>3. \A k \in DOMAIN q : \E i \in 1..(n + 1) : q[k] = file[i] /\ file[i].good
      BY <1>1, <1>3, <2>1, <2>2 DEF Yields
    <2>4. ASSUME NEW k \in DOMAIN q, NEW l \in DOMAIN q, k < l
          PROVE  \E i, j \in 1..(n + 1) : i < j /\ q[k] = file[i] /\ q[l] = file[j]
      <3>1. k \in 1..m
        BY <2>1, <2>4
      <3>2. CASE l \in 1..m
        BY <1>1, <2>1, <2>4, <3>1, <3>2 DEF Yields
      <3>3. CASE l = m + 1
        <4>1. PICK i \in 1..n : p[k] = file[i]
          BY <2>1, <3>1 DEF Yields
        <4>2. i < n + 1 /\ q[k] = file[i] /\ q[l] = file[n + 1]
          BY <2>1, <3>1, <3>3, <4>1
        <4>3. QED
          BY <1>1, <4>2
      <3>4. QED
        BY <2>2, <3>2, <3>3
    <2>5. ASSUME NEW i \in 1..(n + 1), file[i].good
          PROVE  \E k \in DOMAIN q : q[k] = file[i]
      <3>1. CASE i = n + 1
        BY <2>1, <3>1
      <3>2. CASE i \in 1..n
        <4>1. PICK k \in DOMAIN p : p[k] = file[i]
          BY <2>5, <3>2 DEF Yields
        <4>2. QED
          BY <2>1, <4>1
      <3>3. QED
        BY <1>1, <3>1, <3>2
    <2>6. Yields(q, n + 1)
      BY <2>1, <2>3, <2>4, <2>5 DEF Yields
    <2>7. QED
      BY <1>3, <2>6 DEF q
  <1>4. QED
    BY <1>2, <1>3

\* The parse yields the good lines of the file, in its order.
LEMMA ParsedYields ==
    ASSUME file \in Seq(Line)
    PROVE  Yields(Parsed, Len(file))
  <1> DEFINE S == {n \in Nat : n <= Len(file) => Yields(ParsedTo[n], n)}
  <1>1. 0 \in S
    <2>1. ParsedTo[0] = <<>>
      BY ParsedToEquation
    <2>2. Yields(<<>>, 0)
      BY DEF Yields
    <2>3. QED
      BY <2>1, <2>2
  <1>2. ASSUME NEW n \in Nat, n \in S PROVE n + 1 \in S
    <2> SUFFICES ASSUME n + 1 <= Len(file) PROVE Yields(ParsedTo[n + 1], n + 1)
      OBVIOUS
    <2>1. n + 1 \in 0..Len(file) /\ n + 1 # 0 /\ (n + 1) - 1 = n /\ n + 1 \in DOMAIN file
      OBVIOUS
    <2>2. Yields(ParsedTo[n], n)
      BY <1>2
    <2>3. ParsedTo[n + 1] = IF file[n + 1].good THEN Append(ParsedTo[n], file[n + 1])
                                                ELSE ParsedTo[n]
      BY <2>1, ParsedToEquation
    <2>4. QED
      BY <2>1, <2>2, <2>3, YieldsMore
  <1>3. Nat \subseteq S
    <2> HIDE DEF S
    <2>1. QED
      BY <1>1, <1>2, NatSetInduction
  <1>4. QED
    BY <1>3 DEF Parsed

-----------------------------------------------------------------------------
(* The inductive invariant.                                                *)

Recs(s) == {s[i].rec : i \in DOMAIN s}
Distinct(s) == \A i, j \in DOMAIN s : s[i].rec = s[j].rec => i = j
AllGood(s) == \A i \in DOMAIN s : s[i].good

\* What s and f both hold stands in s in the order of f, with f's winners.
Keeps(f, s) ==
    /\ \A i \in DOMAIN f, k \in DOMAIN s :
         f[i].good /\ f[i].won /\ s[k].rec = f[i].rec => s[k].won
    /\ \A i, j \in DOMAIN f, k, l \in DOMAIN s :
         (/\ i < j /\ f[i].good /\ f[j].good
          /\ s[k].rec = f[i].rec /\ s[l].rec = f[j].rec) => k < l

\* Records that no race and no torn line can have cost.
Safe == (Logged \ raced) \ glued

\* Replacing the file by s would cost no safe record, no winner and no order.
Replaces(s) == AllGood(s) /\ Keeps(file, s) /\ Safe \subseteq Recs(s)

\* Nothing read or written so far holds a record whose append is to come.
Fresh ==
    \A r \in Records : writer[r] \in {"new", "open"} =>
        r \notin Recs(file) /\ r \notin Recs(copy) /\ r \notin Recs(tmp)

\* A line without its newline is the torn one of a writer that died.
LastIsTorn == unfinished => file # <<>> /\ writer[file[Len(file)].rec] = "torn"

CycleInv ==
    /\ cycle = "fetching" => Replaces(copy)
    /\ cycle = "swapping" => Replaces(tmp)
    /\ cycle = "fetching" /\ ~touched /\ ~dirty => ~HasBadLine

IInv ==
    /\ TypeOK
    /\ Distinct(file) /\ Distinct(copy) /\ Distinct(tmp)
    /\ Fresh /\ LastIsTorn /\ CycleInv
    /\ Safe \subseteq Readable
    /\ CycleHeals

\* What was read is good for replacing the file it was read from.
LEMMA ParsedReplaces ==
    ASSUME file \in Seq(Line), Distinct(file), Safe \subseteq Readable
    PROVE  /\ Parsed \in Seq(Line) /\ Distinct(Parsed)
           /\ Recs(Parsed) \subseteq Recs(file) /\ Replaces(Parsed)
  <1> DEFINE p == Parsed
  <1>1. /\ p \in Seq(Line)
        /\ \A k \in DOMAIN p : \E i \in DOMAIN file : p[k] = file[i] /\ file[i].good
        /\ \A k, l \in DOMAIN p :
             k < l => \E i, j \in DOMAIN file : i < j /\ p[k] = file[i] /\ p[l] = file[j]
        /\ \A i \in DOMAIN file : file[i].good => \E k \in DOMAIN p : p[k] = file[i]
    <2>1. Yields(p, Len(file))
      BY ParsedYields
    <2>2. 1..Len(file) = DOMAIN file
      OBVIOUS
    <2> HIDE DEF p
    <2>3. p \in Seq(Line)
      BY <2>1 DEF Yields
    <2>4. \A k \in DOMAIN p : \E i \in DOMAIN file : p[k] = file[i] /\ file[i].good
      BY <2>1, <2>2, Zenon DEF Yields
    <2>5. \A k, l \in DOMAIN p :
             k < l => \E i, j \in DOMAIN file : i < j /\ p[k] = file[i] /\ p[l] = file[j]
      <3> SUFFICES ASSUME NEW k \in DOMAIN p, NEW l \in DOMAIN p, k < l
                   PROVE  \E i, j \in DOMAIN file : i < j /\ p[k] = file[i] /\ p[l] = file[j]
        OBVIOUS
      <3>1. PICK i \in 1..Len(file), j \in 1..Len(file) :
               i < j /\ p[k] = file[i] /\ p[l] = file[j]
        BY <2>1 DEF Yields
      <3> QED
        BY <2>2, <3>1
    <2>6. \A i \in DOMAIN file : file[i].good => \E k \in DOMAIN p : p[k] = file[i]
      BY <2>1, <2>2, Zenon DEF Yields
    <2> QED
      BY <2>3, <2>4, <2>5, <2>6
  <1>2. DOMAIN p \subseteq Nat /\ DOMAIN file \subseteq Nat
    BY <1>1
  <1> HIDE DEF p
  <1>3. \A k \in DOMAIN p, i \in DOMAIN file : p[k].rec = file[i].rec => p[k] = file[i]
    BY <1>1 DEF Distinct
  <1>4. Distinct(p)
    <2> SUFFICES ASSUME NEW k \in DOMAIN p, NEW l \in DOMAIN p, k < l, p[k].rec = p[l].rec
                 PROVE  FALSE
      BY <1>2 DEF Distinct
    <2>1. PICK i, j \in DOMAIN file : i < j /\ p[k] = file[i] /\ p[l] = file[j]
      BY <1>1
    <2>2. QED
      BY <1>2, <2>1 DEF Distinct
  <1>5. Recs(p) \subseteq Recs(file) /\ AllGood(p)
    BY <1>1 DEF Recs, AllGood
  <1>6. Keeps(file, p)
    <2>1. ASSUME NEW i \in DOMAIN file, NEW j \in DOMAIN file,
                 NEW k \in DOMAIN p, NEW l \in DOMAIN p,
                 i < j, p[k].rec = file[i].rec, p[l].rec = file[j].rec
          PROVE  k < l
      <3> SUFFICES ASSUME ~(k < l) PROVE FALSE
        OBVIOUS
      <3>1. CASE k = l
        BY <1>2, <2>1, <3>1 DEF Distinct
      <3>2. CASE l < k
        <4>1. PICK a, b \in DOMAIN file : a < b /\ p[l] = file[a] /\ p[k] = file[b]
          BY <1>1, <3>2
        <4>2. a = j /\ b = i
          BY <2>1, <4>1 DEF Distinct
        <4>3. QED
          BY <1>2, <2>1, <4>1, <4>2
      <3>3. QED
        BY <1>2, <3>1, <3>2
    <2>2. QED
      BY <1>3, <2>1 DEF Keeps
  <1>7. Safe \subseteq Recs(p)
    <2> SUFFICES ASSUME NEW r \in Safe PROVE r \in Recs(p)
      OBVIOUS
    <2>1. PICK i \in DOMAIN file : file[i].good /\ file[i].rec = r
      BY DEF Readable
    <2>2. PICK k \in DOMAIN p : p[k] = file[i]
      BY <1>1, <2>1
    <2>3. QED
      BY <2>1, <2>2 DEF Recs
  <1>8. QED
    BY <1>1, <1>4, <1>5, <1>6, <1>7 DEF Replaces, p

\* The file f is this one with a line appended, or with its last one spoiled.
Extends(f, line) ==
    /\ f \in Seq(Line) /\ f # <<>>
    /\ unfinished =>
         /\ Len(f) = Len(file)
         /\ DOMAIN f = DOMAIN file /\ Len(file) \in DOMAIN file
         /\ \A i \in DOMAIN file : /\ f[i].rec = file[i].rec /\ f[i].won = file[i].won
                                   /\ i # Len(file) => f[i] = file[i]
         /\ ~f[Len(file)].good
    /\ ~unfinished =>
         /\ Len(f) = Len(file) + 1
         /\ DOMAIN f = DOMAIN file \cup {Len(file) + 1}
         /\ \A i \in DOMAIN file : f[i] = file[i] /\ i < Len(file) + 1
         /\ f[Len(file) + 1] = line

\* What bytes at the end of the file do to it.
LEMMA ExtendedFacts ==
    ASSUME file \in Seq(Line), unfinished => file # <<>>, NEW line \in Line
    PROVE  Extends(Extended(line), line)
  <1>1. CASE unfinished
    <2> DEFINE n == Len(file)
               f == [file EXCEPT ![n] = [@ EXCEPT !.good = FALSE]]
    <2>1. n \in Nat /\ DOMAIN file = 1..n /\ n \in DOMAIN file /\ file[n] \in Line
      BY <1>1
    <2>2. [file[n] EXCEPT !.good = FALSE] \in Line
      BY <2>1 DEF Line
    <2>3. f \in Seq(Line) /\ DOMAIN f = DOMAIN file /\ Len(f) = n
      BY <2>1, <2>2
    <2>4. /\ f[n].rec = file[n].rec /\ f[n].won = file[n].won /\ ~f[n].good
          /\ \A i \in DOMAIN file : i # n => f[i] = file[i]
      BY <2>1 DEF Line
    <2>5. Extended(line) = f
      BY <1>1 DEF Extended
    <2>6. f # <<>>
      BY <2>1, <2>3
    <2>7. \A i \in DOMAIN file : f[i].rec = file[i].rec /\ f[i].won = file[i].won
      BY <2>4
    <2> HIDE DEF f
    <2>8. QED
      BY <1>1, <2>1, <2>3, <2>4, <2>5, <2>6, <2>7 DEF Extends
  <1>2. CASE ~unfinished
    <2>1. Extended(line) = Append(file, line)
      BY <1>2 DEF Extended
    <2>2. QED
      BY <1>2, <2>1 DEF Extends
  <1>3. QED
    BY <1>1, <1>2

\* A file that has grown, or whose last line is spoiled, asks no more of s.
LEMMA KeepsGrown ==
    ASSUME NEW f, NEW g, NEW s, Keeps(f, s),
           \A i \in DOMAIN g :
             \/ /\ i \in DOMAIN f /\ g[i].rec = f[i].rec /\ g[i].won = f[i].won
                /\ g[i].good => f[i].good
             \/ g[i].rec \notin Recs(s)
    PROVE  Keeps(g, s)
  <1>1. \A i \in DOMAIN g, k \in DOMAIN s : s[k].rec = g[i].rec =>
          /\ i \in DOMAIN f /\ g[i].rec = f[i].rec /\ g[i].won = f[i].won
          /\ g[i].good => f[i].good
    BY DEF Recs
  <1>2. QED
    BY <1>1 DEF Keeps

\* Lines that stay where they are stay in order.
LEMMA KeepsInPlace ==
    ASSUME NEW f, NEW g, Distinct(g), DOMAIN f \subseteq DOMAIN g,
           \A i \in DOMAIN f : g[i].rec = f[i].rec /\ g[i].won = f[i].won
    PROVE  Keeps(f, g)
  <1>1. \A i \in DOMAIN f, k \in DOMAIN g : g[k].rec = f[i].rec => k = i
    BY DEF Distinct
  <1>2. QED
    BY <1>1 DEF Keeps

\* Filling winners in changes neither the records nor their order.
LEMMA KeepsFilled ==
    ASSUME NEW f, NEW s, NEW t, Keeps(f, s), DOMAIN t = DOMAIN s,
           \A k \in DOMAIN s : t[k].rec = s[k].rec /\ (s[k].won => t[k].won)
    PROVE  Keeps(f, t)
  BY DEF Keeps

-----------------------------------------------------------------------------
(* The writers' steps.                                                     *)

\* Bytes reach the end of the file: whole or torn, on a line of their own or
\* glued to an unfinished one.
LEMMA AppendStep ==
    ASSUME IInv, NEW r \in Records, writer[r] = "open",
           NEW line \in Line, line.rec = r, file' = Extended(line),
           NEW end \in {"logged", "torn"}, writer' = [writer EXCEPT ![r] = end],
           unfinished' = (end = "torn"), touched' = TRUE, UNCHANGED cycleVars,
           raced \subseteq raced', glued \subseteq glued',
           end = "logged" => /\ line.good
                             /\ cycle # "asleep" => r \in raced'
                             /\ unfinished => r \in glued'
    PROVE  /\ file' \in Seq(Line) /\ Distinct(file)' /\ Distinct(copy)' /\ Distinct(tmp)'
           /\ Fresh' /\ LastIsTorn' /\ CycleInv' /\ (Safe \subseteq Readable)' /\ CycleHeals'
           /\ Keeps(file, file')
  <1> DEFINE n == Len(file)
  <1>1. /\ file \in Seq(Line) /\ n \in Nat /\ DOMAIN file = 1..n
        /\ \A i \in DOMAIN file : file[i] \in Line
        /\ writer \in [Records -> {"new", "open", "orphan", "logged", "torn"}]
        /\ unfinished => file # <<>>
    BY DEF IInv, TypeOK, LastIsTorn
  <1>2. /\ file' \in Seq(Line) /\ file' # <<>>
        /\ unfinished =>
             /\ Len(file') = n
             /\ DOMAIN file' = DOMAIN file /\ n \in DOMAIN file
             /\ \A i \in DOMAIN file : /\ file'[i].rec = file[i].rec /\ file'[i].won = file[i].won
                                       /\ i # n => file'[i] = file[i]
             /\ ~file'[n].good
        /\ ~unfinished =>
             /\ Len(file') = n + 1
             /\ DOMAIN file' = DOMAIN file \cup {n + 1}
             /\ \A i \in DOMAIN file : file'[i] = file[i] /\ i < n + 1
             /\ file'[n + 1] = line
    <2>1. Extends(file', line)
      BY <1>1, ExtendedFacts
    <2>2. QED
      BY <2>1 DEF Extends
  <1> HIDE DEF n
  <1>3. /\ \A i \in DOMAIN file : r # file[i].rec
        /\ r \notin Recs(copy) /\ r \notin Recs(tmp)
    BY DEF IInv, Fresh, Recs
  <1>4. \A i \in DOMAIN file : /\ i \in DOMAIN file' /\ file'[i].rec = file[i].rec
                               /\ file'[i].won = file[i].won
                               /\ file'[i].good => file[i].good
    BY <1>1, <1>2
  <1>5. \A i \in DOMAIN file' : i \in DOMAIN file \/ (i = n + 1 /\ ~unfinished /\ file'[i] = line)
    BY <1>2
  <1>6. Distinct(file')
    BY <1>3, <1>4, <1>5 DEF IInv, Distinct
  <1>7. Keeps(file, file')
    BY <1>4, <1>6, KeepsInPlace
  <1>8. Recs(file') \subseteq Recs(file) \cup {r}
    BY <1>4, <1>5 DEF Recs
  <1>9. Fresh'
    <2>1. \A q \in Records : writer'[q] \in {"new", "open"} =>
             q # r /\ writer[q] \in {"new", "open"}
      BY <1>1
    <2>2. UNCHANGED <<copy, tmp>>
      BY DEF cycleVars
    <2>3. QED
      BY <1>8, <2>1, <2>2 DEF IInv, Fresh
  <1>10. LastIsTorn'
    <2> SUFFICES ASSUME end = "torn" PROVE writer'[file'[Len(file')].rec] = "torn"
      BY <1>2 DEF LastIsTorn
    <2>1. CASE unfinished
      <3>1. file'[Len(file')].rec = file[n].rec /\ writer[file[n].rec] = "torn"
        BY <1>2, <2>1 DEF IInv, LastIsTorn, n
      <3>2. file[n].rec \in Records
        BY <1>1, <1>2, <2>1 DEF Line
      <3>3. QED
        BY <1>1, <3>1, <3>2
    <2>2. CASE ~unfinished
      BY <1>1, <1>2, <2>2
    <2>3. QED
      BY <2>1, <2>2
  <1>11. Safe' \subseteq Safe \cup {r}
    BY <1>1 DEF Safe, Logged
  <1>12. cycle # "asleep" \/ unfinished => r \notin Safe'
    BY <1>1 DEF Safe, Logged
  <1>13. (Safe \subseteq Readable)'
    <2>1. ASSUME NEW q \in Safe PROVE q \in Readable'
      <3>1. PICK i \in DOMAIN file : file[i].good /\ file[i].rec = q
        BY DEF IInv, Readable
      <3>2. file'[i] = file[i] /\ i \in DOMAIN file'
        <4>1. CASE unfinished
          <5>1. writer[q] = "logged" /\ writer[file[n].rec] = "torn"
            BY <4>1 DEF Safe, Logged, IInv, LastIsTorn, n
          <5>2. i # n
            BY <3>1, <5>1
          <5>3. QED
            BY <1>2, <4>1, <5>2
        <4>2. CASE ~unfinished
          BY <1>2, <4>2
        <4>3. QED
          BY <4>1, <4>2
      <3>3. QED
        BY <3>1, <3>2 DEF Readable
    <2>2. ASSUME r \in Safe' PROVE r \in Readable'
      <3>1. ~unfinished /\ writer'[r] = "logged"
        BY <1>12, <2>2 DEF Safe, Logged
      <3>2. line.good /\ n + 1 \in DOMAIN file' /\ file'[n + 1] = line
        BY <1>1, <1>2, <3>1
      <3>3. QED
        BY <3>2 DEF Readable
    <2>3. QED
      BY <1>11, <2>1, <2>2
  <1>14. CycleInv'
    <2>1. UNCHANGED <<cycle, copy, tmp, dirty>> /\ touched'
      BY DEF cycleVars
    <2>2. ASSUME NEW s, r \notin Recs(s), Replaces(s), cycle # "asleep"
          PROVE  AllGood(s) /\ Keeps(file', s) /\ Safe' \subseteq Recs(s)
      <3>1. Keeps(file', s)
        BY <1>4, <1>5, <2>2, KeepsGrown DEF Replaces
      <3>2. QED
        BY <1>11, <1>12, <2>2, <3>1 DEF Replaces
    <2>3. cycle = "fetching" => Replaces(copy)'
      BY <1>3, <2>1, <2>2 DEF IInv, CycleInv, Replaces
    <2>4. cycle = "swapping" => Replaces(tmp)'
      BY <1>3, <2>1, <2>2 DEF IInv, CycleInv, Replaces
    <2>5. QED
      BY <2>1, <2>3, <2>4 DEF CycleInv
  <1>15. CycleHeals' /\ Distinct(copy)' /\ Distinct(tmp)'
    BY DEF CycleHeals, cycleVars, IInv
  <1>16. QED
    BY <1>2, <1>6, <1>7, <1>9, <1>10, <1>13, <1>14, <1>15

\* The copy d is c, but that some lines may have got their winner.
Fills(c, d) ==
    /\ d \in Seq(Line) /\ Len(d) = Len(c) /\ DOMAIN d = DOMAIN c
    /\ \A k \in DOMAIN c : /\ d[k].rec = c[k].rec /\ d[k].good = c[k].good
                           /\ c[k].won => d[k].won

\* Asking for a winner, whatever the answer, fills it in or changes nothing.
LEMMA FetchFills ==
    ASSUME copy \in Seq(Line), FetchWinner
    PROVE  Fills(copy, copy')
  <1> DEFINE filled == [copy[at] EXCEPT !.won = TRUE]
  <1>1. at \in 1..Len(copy) /\ Len(copy) \in Nat /\ copy[at] \in Line
    BY DEF FetchWinner
  <1>2. /\ filled \in Line /\ filled.won /\ filled.rec = copy[at].rec
        /\ filled.good = copy[at].good
    BY <1>1 DEF Line
  <1>3. copy' = copy \/ copy' = [copy EXCEPT ![at] = filled]
    BY DEF FetchWinner
  <1> HIDE DEF filled
  <1>4. CASE copy' = copy
    BY <1>4 DEF Fills
  <1>5. CASE copy' = [copy EXCEPT ![at] = filled]
    <2>1. copy' \in Seq(Line) /\ Len(copy') = Len(copy) /\ DOMAIN copy' = DOMAIN copy
      BY <1>1, <1>2, <1>5
    <2>2. copy'[at] = filled /\ \A k \in DOMAIN copy : k # at => copy'[k] = copy[k]
      BY <1>1, <1>5
    <2>3. QED
      BY <1>2, <2>1, <2>2 DEF Fills
  <1>6. QED
    BY <1>3, <1>4, <1>5

-----------------------------------------------------------------------------
(* Type correctness, one step per action.                                  *)

\* Every step of the writers and of the reconciler keeps the type.
LEMMA TypeStep == IInv /\ [Next]_vars => TypeOK'
  <1> SUFFICES ASSUME IInv, [Next]_vars PROVE TypeOK'
    OBVIOUS
  <1> USE LogAssumption DEF TypeOK
  <1>0. TypeOK /\ (unfinished => file # <<>>)
    BY DEF IInv, LastIsTorn
  <1>1. ASSUME NEW line \in Line PROVE Extended(line) \in Seq(Line)
    BY <1>0, ExtendedFacts DEF Extends
  <1>2. ASSUME NEW r \in Records, Open(r) \/ FlushOrphan(r) PROVE TypeOK'
    BY <1>0, <1>2 DEF Open, FlushOrphan, cycleVars
  <1>3. ASSUME NEW r \in Records, Flush(r) PROVE TypeOK'
    <2>1. file' \in Seq(Line)
      BY <1>1, <1>3 DEF Flush, Line
    <2>2. QED
      BY <1>0, <1>3, <2>1 DEF Flush, cycleVars
  <1>4. ASSUME NEW r \in Records, Tear(r) PROVE TypeOK'
    <2>1. file' \in Seq(Line)
      BY <1>1, <1>4 DEF Tear, Line
    <2>2. QED
      BY <1>0, <1>4, <2>1 DEF Tear, cycleVars
  <1>5. CASE Read
    <2>1. Parsed \in Seq(Line)
      BY <1>0, ParsedReplaces DEF IInv
    <2>2. HasBadLine \in BOOLEAN
      BY DEF HasBadLine
    <2>3. 1 \in 1..(Len(Parsed) + 1)
      BY <2>1
    <2>4. QED
      BY <1>0, <1>5, <2>1, <2>2, <2>3 DEF Read
  <1>6. CASE FetchWinner
    <2>1. copy' \in Seq(Line) /\ Len(copy') = Len(copy) /\ Len(copy) \in Nat
      BY <1>0, <1>6, FetchFills DEF Fills
    <2>2. at \in 1..Len(copy) /\ at' = at + 1 /\ (dirty' = dirty \/ dirty' = TRUE)
      BY <1>0, <1>6 DEF FetchWinner
    <2>3. at' \in 1..(Len(copy') + 1)
      BY <2>1, <2>2
    <2>4. {unfinished, dirty, touched, healthy}' \subseteq BOOLEAN
      BY <1>0, <1>6, <2>2 DEF FetchWinner
    <2>5. QED
      BY <1>0, <1>6, <2>1, <2>3, <2>4 DEF FetchWinner
  <1>7. CASE Abort \/ FinishClean \/ WriteTmp
    BY <1>0, <1>7 DEF Abort, FinishClean, WriteTmp
  <1>8. CASE Swap
    <2>1. writer' \in [Records -> {"new", "open", "orphan", "logged", "torn"}]
      BY <1>0, <1>8 DEF Swap
    <2>2. file' \in Seq(Line) /\ tmp' \in Seq(Line)
      BY <1>0, <1>8 DEF Swap
    <2>3. QED
      BY <1>0, <1>8, <2>1, <2>2 DEF Swap
  <1>9. CASE KillReconciler
    <2>1. kills' \in 0..MaxKills
      BY <1>0, <1>9 DEF KillReconciler
    <2>2. QED
      BY <1>0, <1>9, <2>1 DEF KillReconciler
  <1>10. CASE UNCHANGED vars
    BY <1>0, <1>10 DEF vars, cycleVars
  <1>11. QED
    BY <1>2, <1>3, <1>4, <1>5, <1>6, <1>7, <1>8, <1>9, <1>10 DEF Next, Reconcile

-----------------------------------------------------------------------------
(* The inductive step: the writers by AppendStep, the reconciler here.     *)

\* All that TypeStep leaves to be shown of a step, and what it does to the
\* file.
Rest ==
    /\ Distinct(file)' /\ Distinct(copy)' /\ Distinct(tmp)'
    /\ Fresh' /\ LastIsTorn' /\ CycleInv' /\ (Safe \subseteq Readable)' /\ CycleHeals'
    /\ Keeps(file, file')

\* Opening the file, and writing to the one that lost its name.
LEMMA OffFileStep ==
    ASSUME IInv, NEW r \in Records, Open(r) \/ FlushOrphan(r)
    PROVE  Rest
  <1>1. /\ UNCHANGED <<file, unfinished, cycle, copy, dirty, tmp, healthy, touched, glued>>
        /\ raced \subseteq raced'
        /\ writer \in [Records -> {"new", "open", "orphan", "logged", "torn"}]
    BY DEF Open, FlushOrphan, cycleVars, IInv, TypeOK
  <1>2. Safe' \subseteq Safe
    BY <1>1 DEF Safe, Logged, Open, FlushOrphan
  <1>3. /\ \A q \in Records : writer'[q] \in {"new", "open"} => writer[q] \in {"new", "open"}
        /\ \A q \in Records : writer[q] = "torn" => writer'[q] = "torn"
    BY <1>1 DEF Open, FlushOrphan
  <1>4. Fresh'
    BY <1>1, <1>3 DEF IInv, Fresh
  <1>5. LastIsTorn'
    <2>1. file # <<>> => file[Len(file)].rec \in Records
      <3>1. file \in Seq(Line)
        BY DEF IInv, TypeOK
      <3>2. file # <<>> => file[Len(file)] \in Line
        BY <3>1
      <3>3. QED
        BY <3>2 DEF Line
    <2>2. QED
      BY <1>1, <1>3, <2>1 DEF IInv, LastIsTorn
  <1>6. CycleInv'
    BY <1>1, <1>2 DEF IInv, CycleInv, Replaces, HasBadLine
  <1>7. Keeps(file, file')
    BY <1>1, KeepsInPlace DEF IInv
  <1>8. QED
    BY <1>1, <1>2, <1>4, <1>5, <1>6, <1>7
      DEF Rest, IInv, Distinct, Readable, CycleHeals, HasBadLine

\* Reading the file: what parses is ready to replace it.
LEMMA ReadStep ==
    ASSUME IInv, Read
    PROVE  Rest
  <1>1. /\ UNCHANGED <<file, unfinished, writer, tmp, healthy, raced, glued>>
        /\ cycle' = "fetching" /\ copy' = Parsed /\ dirty' = HasBadLine
        /\ Safe' = Safe
    BY DEF Read, Safe, Logged
  <1>2. /\ Distinct(Parsed) /\ Recs(Parsed) \subseteq Recs(file) /\ Replaces(Parsed)
    BY ParsedReplaces DEF IInv, TypeOK
  <1>3. Keeps(file, file')
    BY <1>1, KeepsInPlace DEF IInv
  <1>4. Fresh' /\ LastIsTorn' /\ Distinct(copy)'
    BY <1>1, <1>2 DEF IInv, Fresh, LastIsTorn
  <1>5. CycleInv'
    <2>1. Replaces(copy)'
      BY <1>1, <1>2 DEF Replaces
    <2>2. dirty' \/ ~HasBadLine'
      BY <1>1 DEF HasBadLine
    <2>3. QED
      BY <1>1, <2>1, <2>2 DEF CycleInv
  <1>6. QED
    BY <1>1, <1>3, <1>4, <1>5 DEF Rest, IInv, Distinct, Readable, CycleHeals

\* A winner filled in, or not: the copy keeps its records in their order.
LEMMA FetchStep ==
    ASSUME IInv, FetchWinner
    PROVE  Rest
  <1>1. /\ UNCHANGED <<file, unfinished, writer, cycle, tmp, healthy, touched, raced, glued>>
        /\ cycle = "fetching" /\ (dirty => dirty') /\ Safe' = Safe
    BY DEF FetchWinner, Safe, Logged, IInv, TypeOK
  <1>2. /\ DOMAIN copy' = DOMAIN copy
        /\ \A k \in DOMAIN copy : /\ copy'[k].rec = copy[k].rec
                                  /\ copy'[k].good = copy[k].good
                                  /\ copy[k].won => copy'[k].won
    BY FetchFills DEF Fills, IInv, TypeOK
  <1>3. Recs(copy') = Recs(copy) /\ Distinct(copy')
    BY <1>2 DEF Recs, Distinct, IInv
  <1>4. Keeps(file, file')
    BY <1>1, KeepsInPlace DEF IInv
  <1>5. Replaces(copy)'
    <2>1. AllGood(copy) /\ Keeps(file, copy) /\ Safe \subseteq Recs(copy)
      BY <1>1 DEF IInv, CycleInv, Replaces
    <2>2. Keeps(file, copy')
      BY <1>2, <2>1, KeepsFilled
    <2>3. AllGood(copy')
      BY <1>2, <2>1 DEF AllGood
    <2>4. QED
      BY <1>1, <1>3, <2>1, <2>2, <2>3 DEF Replaces
  <1>6. CycleInv'
    BY <1>1, <1>5 DEF IInv, CycleInv, HasBadLine
  <1>7. QED
    BY <1>1, <1>3, <1>4, <1>6 DEF Rest, IInv, Fresh, LastIsTorn, Readable, CycleHeals, Distinct

\* The cycle ends without a rewrite, or writes the .tmp file.
LEMMA PauseStep ==
    ASSUME IInv, Abort \/ FinishClean \/ WriteTmp \/ KillReconciler
    PROVE  Rest
  <1>1. /\ UNCHANGED <<file, unfinished, writer, copy, dirty, touched, raced, glued>>
        /\ Safe' = Safe
    BY DEF Abort, FinishClean, WriteTmp, KillReconciler, Safe, Logged
  <1>2. \/ cycle' = "asleep" /\ UNCHANGED tmp
           /\ (healthy' => cycle = "fetching" /\ ~dirty)
        \/ cycle = "fetching" /\ cycle' = "swapping" /\ tmp' = copy
    BY DEF Abort, FinishClean, WriteTmp, KillReconciler
  <1>3. Keeps(file, file')
    BY <1>1, KeepsInPlace DEF IInv
  <1>4. Fresh' /\ Distinct(tmp)' /\ LastIsTorn'
    BY <1>1, <1>2 DEF IInv, Fresh, Distinct, LastIsTorn
  <1>5. CycleInv' /\ CycleHeals'
    BY <1>1, <1>2 DEF IInv, CycleInv, CycleHeals, Replaces, HasBadLine
  <1>6. QED
    BY <1>1, <1>3, <1>4, <1>5 DEF Rest, IInv, Distinct, Readable

\* The rename: the new file holds what the copy promised.
LEMMA SwapStep ==
    ASSUME IInv, Swap
    PROVE  Rest
  <1>1. /\ file' = tmp /\ tmp' = <<>> /\ ~unfinished' /\ cycle' = "asleep"
        /\ UNCHANGED <<copy, raced, glued>>
        /\ writer' = [q \in Records |-> IF writer[q] = "open" THEN "orphan" ELSE writer[q]]
    BY DEF Swap
  <1>2. AllGood(tmp) /\ Keeps(file, tmp) /\ Safe \subseteq Recs(tmp)
    BY DEF Swap, IInv, CycleInv, Replaces
  <1>3. Safe' = Safe
    BY <1>1 DEF Safe, Logged
  <1>4. Fresh'
    <2>1. Recs(<<>>) = {}
      BY DEF Recs
    <2>2. QED
      BY <1>1, <2>1 DEF IInv, Fresh
  <1>5. (Safe \subseteq Readable)'
    BY <1>1, <1>2, <1>3 DEF Readable, Recs, AllGood
  <1>6. CycleInv' /\ CycleHeals' /\ LastIsTorn'
    BY <1>1, <1>2 DEF CycleInv, CycleHeals, LastIsTorn, HasBadLine, AllGood
  <1>7. Distinct(file)' /\ Distinct(copy)' /\ Distinct(tmp)'
    BY <1>1 DEF IInv, Distinct
  <1>8. QED
    BY <1>1, <1>2, <1>4, <1>5, <1>6, <1>7 DEF Rest

\* Every step keeps the invariant, the order of the file and its winners.
LEMMA InvStep == IInv /\ [Next]_vars => IInv' /\ Keeps(file, file')
  <1> SUFFICES ASSUME IInv, [Next]_vars PROVE IInv' /\ Keeps(file, file')
    OBVIOUS
  <1>1. TypeOK'
    BY TypeStep
  <1>2. ASSUME NEW r \in Records, Flush(r) PROVE Rest
    <2>1. PICK won \in BOOLEAN : file' = Extended([rec |-> r, won |-> won, good |-> TRUE])
      BY <1>2 DEF Flush
    <2> DEFINE line == [rec |-> r, won |-> won, good |-> TRUE]
    <2>2. line \in Line /\ line.rec = r /\ line.good
      BY DEF Line
    <2>3. /\ writer[r] = "open" /\ writer' = [writer EXCEPT ![r] = "logged"]
          /\ unfinished' = FALSE /\ touched' = TRUE /\ UNCHANGED cycleVars
          /\ raced \subseteq raced' /\ glued \subseteq glued'
          /\ cycle # "asleep" => r \in raced'
          /\ unfinished => r \in glued'
      BY <1>2 DEF Flush
    <2> HIDE DEF line
    <2>4. QED
      BY <2>1, <2>2, <2>3, AppendStep DEF Rest, line
  <1>3. ASSUME NEW r \in Records, Tear(r) PROVE Rest
    <2>1. PICK whole \in BOOLEAN : file' = Extended([rec |-> r, won |-> FALSE, good |-> whole])
      BY <1>3 DEF Tear
    <2> DEFINE line == [rec |-> r, won |-> FALSE, good |-> whole]
    <2>2. line \in Line /\ line.rec = r
      BY DEF Line
    <2>3. /\ writer[r] = "open" /\ writer' = [writer EXCEPT ![r] = "torn"]
          /\ unfinished' = TRUE /\ touched' = TRUE /\ UNCHANGED cycleVars
          /\ UNCHANGED <<raced, glued>>
      BY <1>3 DEF Tear
    <2> HIDE DEF line
    <2>4. QED
      BY <2>1, <2>2, <2>3, AppendStep DEF Rest, line
  <1>4. ASSUME UNCHANGED vars PROVE Rest
    <2>1. UNCHANGED <<file, unfinished, writer, cycle, copy, dirty, tmp, healthy, touched,
                      raced, glued>>
      BY <1>4 DEF vars
    <2>2. Keeps(file, file')
      BY <2>1, KeepsInPlace DEF IInv
    <2>3. Safe' = Safe /\ Readable' = Readable /\ HasBadLine' = HasBadLine
      BY <2>1 DEF Safe, Logged, Readable, HasBadLine
    <2>4. Fresh' /\ LastIsTorn' /\ CycleInv' /\ CycleHeals'
      BY <2>1, <2>3 DEF IInv, Fresh, LastIsTorn, CycleInv, Replaces, CycleHeals
    <2>5. Distinct(file)' /\ Distinct(copy)' /\ Distinct(tmp)'
      BY <2>1 DEF IInv, Distinct
    <2>6. QED
      BY <2>2, <2>3, <2>4, <2>5 DEF Rest, IInv
  <1>5. Rest
    BY <1>2, <1>3, <1>4, OffFileStep, ReadStep, FetchStep, PauseStep, SwapStep
      DEF Next, Reconcile
  <1>6. QED
    BY <1>1, <1>5 DEF Rest, IInv

\* Nothing is logged yet, nothing read.
LEMMA InitInv == Init => IInv
  <1> SUFFICES ASSUME Init PROVE IInv
    OBVIOUS
  <1>1. TypeOK
    <2>1. 0 \in 0..MaxKills /\ 1 \in 1..(Len(<<>>) + 1)
      BY LogAssumption
    <2>2. /\ {FALSE} \subseteq BOOLEAN /\ <<>> \in Seq(Line)
      OBVIOUS
    <2>3. QED
      BY <2>1, <2>2 DEF Init, TypeOK
  <1>2. Distinct(file) /\ Distinct(copy) /\ Distinct(tmp) /\ Fresh
    BY DEF Init, Distinct, Fresh, Recs
  <1>3. LastIsTorn /\ CycleInv /\ CycleHeals /\ Safe \subseteq Readable
    BY DEF Init, LastIsTorn, CycleInv, CycleHeals, Safe, Logged
  <1>4. QED
    BY <1>1, <1>2, <1>3 DEF IInv

\* The inductive invariant, in every state.
LEMMA Invariance == Spec => []IInv
  BY InitInv, InvStep, PTL DEF Spec

-----------------------------------------------------------------------------
(* The theorems.                                                           *)

\* Every reachable state is well typed.
THEOREM TypeCorrect == Spec => []TypeOK
  <1>1. IInv => TypeOK
    BY DEF IInv
  <1>2. QED
    BY <1>1, Invariance, PTL

\* A logged record that cannot be read any more was flushed during a cycle of
\* the reconciler or behind a torn line: nothing else costs one.
THEOREM LossIsExplained == Spec => []LossNeedsRace
  <1>1. IInv => LossNeedsRace
    BY DEF IInv, Safe, LossNeedsRace
  <1>2. QED
    BY <1>1, Invariance, PTL

\* No record stands in the file twice.
THEOREM RecordsAreUnique == Spec => []NothingTwice
  <1>1. IInv => NothingTwice
    BY DEF IInv, Distinct, NothingTwice
  <1>2. QED
    BY <1>1, Invariance, PTL

\* A cycle that ends well leaves no line that does not parse.
THEOREM CyclesHeal == Spec => []CycleHeals
  <1>1. IInv => CycleHeals
    BY DEF IInv
  <1>2. QED
    BY <1>1, Invariance, PTL

\* No step loses a winner of a record it keeps, or reorders records.
THEOREM WinnersAreKept == Spec => WinnersStick
  <1>1. IInv /\ [Next]_vars => [KeptInOrder]_vars
    BY InvStep DEF Keeps, KeptInOrder
  <1>2. QED
    BY <1>1, Invariance, PTL DEF Spec, WinnersStick

=============================================================================
