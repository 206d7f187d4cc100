-------------------------- MODULE SharedStateProofs ---------------------------
(***************************************************************************)
(* Proofs about the state that callers, loops and scripts share: the slots *)
(* of the RpcGate, for every set of callers and every configuration, and   *)
(* what is stored, the scores of the Archive and what the Labels know of a *)
(* token.                                                                  *)
(*                                                                         *)
(* The inductive invariant of the gate is the typing, the count of slots,  *)
(* and the shape of the line: who stands in the deque waits, and stands    *)
(* there once.  Those of the archive and the labels are ArchiveInv and     *)
(* LabelsInv.                                                              *)
(***************************************************************************)
EXTENDS RpcGate, Archive, Labels, FiniteSetTheorems, SequenceTheorems, TLAPS

-----------------------------------------------------------------------------
(* The gate.                                                               *)

HolderStates == {"posting", "granted", "revoked"}

LineInv ==
    /\ \A i \in DOMAIN waiters :
         st[waiters[i]] \in {"queued", "granted", "cancelled", "revoked"}
    /\ \A i, j \in DOMAIN waiters : waiters[i] = waiters[j] => i = j

IInv == TypeOK /\ SlotsConserved /\ LineInv

-----------------------------------------------------------------------------
(* Facts about data                                                        *)

\* Disjoint finite sets add up.
LEMMA DisjointSum ==
    ASSUME NEW S, IsFiniteSet(S), NEW T, IsFiniteSet(T), S \cap T = {}
    PROVE  Cardinality(S \cup T) = Cardinality(S) + Cardinality(T)
<1>1. Cardinality(S) \in Nat /\ Cardinality(T) \in Nat
  BY FS_CardinalityType
<1>2. Cardinality(S \cap T) = 0
  BY FS_EmptySet
<1>3. Cardinality(S \cup T) = Cardinality(S) + Cardinality(T) - Cardinality(S \cap T)
  BY FS_Union
<1>4. Cardinality(S \cup T) = Cardinality(S) + Cardinality(T) - 0
  BY <1>2, <1>3
<1> QED
  BY <1>1, <1>4

\* A sequence without its element at i.
Dropped(s, i) == SubSeq(s, 1, i - 1) \o SubSeq(s, i + 1, Len(s))

\* What is left of a sequence without its element at i.
LEMMA DroppedElements ==
    ASSUME NEW T, NEW s \in Seq(T), NEW i \in DOMAIN s
    PROVE  /\ Dropped(s, i) \in Seq(T)
           /\ DOMAIN Dropped(s, i) = 1..(Len(s) - 1)
           /\ \A k \in DOMAIN Dropped(s, i) :
                Dropped(s, i)[k] = IF k < i THEN s[k] ELSE s[k + 1]
<1> DEFINE head == SubSeq(s, 1, i - 1)
           tail == SubSeq(s, i + 1, Len(s))
<1>1. /\ head \in Seq(T) /\ Len(head) = i - 1
      /\ \A k \in 1..(i - 1) : head[k] = s[k]
  BY SubSeqProperties
<1>2. /\ tail \in Seq(T) /\ Len(tail) = Len(s) - i
      /\ \A k \in 1..(Len(s) - i) : tail[k] = s[i + k]
  BY SubSeqProperties
<1>3. Dropped(s, i) = head \o tail
  BY DEF Dropped
<1> HIDE DEF head, tail
<1>4. /\ head \o tail \in Seq(T)
      /\ Len(head \o tail) = Len(head) + Len(tail)
      /\ \A k \in 1..(Len(head) + Len(tail)) :
           (head \o tail)[k] = IF k <= Len(head) THEN head[k] ELSE tail[k - Len(head)]
  BY <1>1, <1>2, ConcatProperties
<1>5. Len(head) + Len(tail) = Len(s) - 1
  BY <1>1, <1>2
<1>6. ASSUME NEW k \in 1..(Len(s) - 1)
      PROVE  (head \o tail)[k] = IF k < i THEN s[k] ELSE s[k + 1]
  <2>1. CASE k < i
    BY <2>1, <1>1, <1>4, <1>5
  <2>2. CASE ~(k < i)
    <3>1. (head \o tail)[k] = tail[k - (i - 1)]
      BY <2>2, <1>1, <1>4, <1>5
    <3>2. k - (i - 1) \in 1..(Len(s) - i)
      BY <2>2
    <3>3. tail[k - (i - 1)] = s[i + (k - (i - 1))]
      BY <3>2, <1>2
    <3>4. i + (k - (i - 1)) = k + 1
      OBVIOUS
    <3> QED
      BY <2>2, <3>1, <3>3, <3>4
  <2> QED
    BY <2>1, <2>2
<1>7. DOMAIN (head \o tail) = 1..(Len(s) - 1)
  BY <1>4, <1>5
<1> QED
  BY <1>3, <1>4, <1>6, <1>7

-----------------------------------------------------------------------------
(* What a move of one caller, with the wakeups it causes, does.            *)

\* How many hold a slot after a caller has moved and others were woken.
LEMMA HolderCount ==
    ASSUME GateAssumption, st \in [Callers -> States],
           NEW c \in Callers, st[c] # "queued", NEW s \in States,
           NEW S \in SUBSET In({"queued"}), st' = Moved(c, s, S)
    PROVE  /\ st' \in [Callers -> States]
           /\ Cardinality(Holders) \in Nat /\ Cardinality(S) \in Nat
           /\ Cardinality(Holders') \in Nat
           /\ Cardinality(Holders') =
                Cardinality(Holders) + Cardinality(S)
                + (IF s \in HolderStates THEN 1 ELSE 0)
                - (IF st[c] \in HolderStates THEN 1 ELSE 0)
<1> DEFINE R == Holders \ {c}
           K == IF s \in HolderStates THEN R \cup {c} ELSE R
<1>1. st' \in [Callers -> States]
  BY DEF Moved, States
<1>2. IsFiniteSet(Holders) /\ IsFiniteSet(S)
  <2>1. Holders \in SUBSET Callers /\ S \in SUBSET Callers
    BY DEF Holders, In
  <2> QED
    BY <2>1, FS_Subset DEF GateAssumption
<1>3. /\ IsFiniteSet(R)
      /\ Cardinality(R) =
           IF c \in Holders THEN Cardinality(Holders) - 1 ELSE Cardinality(Holders)
  BY <1>2, FS_RemoveElement
<1>4. /\ IsFiniteSet(K)
      /\ Cardinality(K) =
           IF s \in HolderStates THEN Cardinality(R) + 1 ELSE Cardinality(R)
  <2>1. c \notin R
    OBVIOUS
  <2>2. IsFiniteSet(R \cup {c}) /\ Cardinality(R \cup {c}) = Cardinality(R) + 1
    BY <2>1, <1>3, FS_AddElement
  <2> QED
    BY <2>2, <1>3
<1>5. K \cap S = {}
  BY DEF Holders, In
<1>6. Holders' = K \cup S
  BY DEF Holders, In, Moved, HolderStates
<1>7. c \in Holders <=> st[c] \in HolderStates
  BY DEF Holders, In, HolderStates
<1> HIDE DEF R, K
<1>8. Cardinality(K \cup S) = Cardinality(K) + Cardinality(S)
  BY <1>2, <1>4, <1>5, DisjointSum
<1>9. IsFiniteSet(K \cup S)
  BY <1>2, <1>4, FS_Union
<1>10. /\ Cardinality(Holders) \in Nat /\ Cardinality(S) \in Nat
       /\ Cardinality(R) \in Nat /\ Cardinality(K) \in Nat
       /\ Cardinality(Holders') \in Nat
  BY <1>2, <1>3, <1>4, <1>6, <1>9, FS_CardinalityType
<1>11. Cardinality(Holders') = Cardinality(K) + Cardinality(S)
  BY <1>6, <1>8
<1>12. Cardinality(Holders') =
         Cardinality(Holders) + Cardinality(S)
         + (IF s \in HolderStates THEN 1 ELSE 0)
         - (IF st[c] \in HolderStates THEN 1 ELSE 0)
  BY <1>3, <1>4, <1>7, <1>10, <1>11
<1> QED
  BY <1>1, <1>10, <1>12

\* The same for a caller that moves and wakes nobody.
LEMMA HolderCountAlone ==
    ASSUME GateAssumption, st \in [Callers -> States],
           NEW c \in Callers, NEW s \in States, st' = [st EXCEPT ![c] = s]
    PROVE  /\ st' \in [Callers -> States]
           /\ Cardinality(Holders) \in Nat /\ Cardinality(Holders') \in Nat
           /\ Cardinality(Holders') =
                Cardinality(Holders)
                + (IF s \in HolderStates THEN 1 ELSE 0)
                - (IF st[c] \in HolderStates THEN 1 ELSE 0)
<1> DEFINE R == Holders \ {c}
<1>1. IsFiniteSet(Holders)
  BY FS_Subset DEF Holders, In, GateAssumption
<1>2. /\ IsFiniteSet(R)
      /\ Cardinality(R) =
           IF c \in Holders THEN Cardinality(Holders) - 1 ELSE Cardinality(Holders)
  BY <1>1, FS_RemoveElement
<1>3. IsFiniteSet(R \cup {c}) /\ Cardinality(R \cup {c}) = Cardinality(R) + 1
  <2>1. c \notin R
    OBVIOUS
  <2> QED
    BY <2>1, <1>2, FS_AddElement
<1>4. Holders' = IF s \in HolderStates THEN R \cup {c} ELSE R
  BY DEF Holders, In, HolderStates
<1>5. c \in Holders <=> st[c] \in HolderStates
  BY DEF Holders, In, HolderStates
<1>6. st' \in [Callers -> States]
  OBVIOUS
<1> HIDE DEF R
<1>7. Cardinality(Holders) \in Nat /\ Cardinality(R) \in Nat
  BY <1>1, <1>2, FS_CardinalityType
<1>8. CASE s \in HolderStates
  BY <1>2, <1>3, <1>4, <1>5, <1>6, <1>7, <1>8
<1>9. CASE s \notin HolderStates
  BY <1>2, <1>4, <1>5, <1>6, <1>7, <1>9
<1> QED
  BY <1>8, <1>9

\* A waiter that runs leaves the deque and hands on what is free.
LEMMA LeavingKeepsLine ==
    ASSUME GateAssumption, IInv, NEW c \in Callers, NEW free \in Nat,
           NEW s \in {"posting", "idle"},
           st[c] \in {"granted", "cancelled", "revoked"},
           LeaveQueue(c, free, s),
           free + Cardinality(Holders) + (IF s \in HolderStates THEN 1 ELSE 0)
             - (IF st[c] \in HolderStates THEN 1 ELSE 0) = Slots
    PROVE  /\ value' \in 0..Slots /\ waiters' \in Seq(Callers)
           /\ st' \in [Callers -> States]
           /\ SlotsConserved' /\ LineInv' /\ FreeSlotIsHandedOn'
           /\ QueueIsFair => QueueIsFair'
<1>1. PICK i \in DOMAIN waiters : waiters[i] = c /\ waiters' = Dropped(waiters, i)
  BY DEF LeaveQueue, Dropped
<1>2. PICK S \in SUBSET In({"queued"}) : WakeUp(free, free, S) /\ st' = Moved(c, s, S)
  BY DEF LeaveQueue
<1>3. /\ waiters' \in Seq(Callers)
      /\ DOMAIN waiters' = 1..(Len(waiters) - 1)
      /\ \A k \in DOMAIN waiters' :
           waiters'[k] = IF k < i THEN waiters[k] ELSE waiters[k + 1]
  BY <1>1, DroppedElements DEF IInv, TypeOK
<1> DEFINE old(k) == IF k < i THEN k ELSE k + 1
<1>13. /\ \A k \in DOMAIN waiters' :
            /\ old(k) \in DOMAIN waiters /\ old(k) # i
            /\ waiters'[k] = waiters[old(k)]
       /\ \A k, l \in DOMAIN waiters' : k < l => old(k) < old(l)
       /\ \A k, l \in DOMAIN waiters' : old(k) = old(l) => k = l
  <2>1. Len(waiters) \in Nat /\ DOMAIN waiters = 1..Len(waiters) /\ i \in 1..Len(waiters)
    BY DEF IInv, TypeOK
  <2>2. \A k \in 1..(Len(waiters) - 1) : old(k) \in 1..Len(waiters) /\ old(k) # i
    BY <2>1
  <2>3. \A k, l \in 1..(Len(waiters) - 1) :
          /\ k < l => old(k) < old(l)
          /\ old(k) = old(l) => k = l
    BY <2>1
  <2>4. \A k \in DOMAIN waiters' : waiters'[k] = waiters[old(k)]
    BY <1>3
  <2> QED
    BY <2>1, <2>2, <2>3, <2>4, <1>3
<1> HIDE DEF old
<1>4. /\ st' \in [Callers -> States]
      /\ Cardinality(Holders) \in Nat /\ Cardinality(S) \in Nat
      /\ Cardinality(Holders') \in Nat
      /\ Cardinality(Holders') =
           Cardinality(Holders) + Cardinality(S)
           + (IF s \in HolderStates THEN 1 ELSE 0)
           - (IF st[c] \in HolderStates THEN 1 ELSE 0)
  <2>1. st \in [Callers -> States] /\ s \in States /\ st[c] # "queued"
    BY DEF IInv, TypeOK, States
  <2> QED
    BY <2>1, <1>2, HolderCount
<1>5. value' = free - Cardinality(S) /\ Cardinality(S) <= free
  BY <1>2 DEF WakeUp
<1>6. Slots \in Nat
  BY DEF GateAssumption
<1>7. SlotsConserved' /\ value' \in 0..Slots
  <2>1. value' + Cardinality(Holders') = Slots
    BY <1>4, <1>5, <1>6
  <2>2. value' \in Nat
    BY <1>4, <1>5
  <2> QED
    BY <2>1, <2>2, <1>4, <1>6 DEF SlotsConserved
<1>8. LineInv'
  <2>1. ASSUME NEW k \in DOMAIN waiters'
        PROVE  st'[waiters'[k]] \in {"queued", "granted", "cancelled", "revoked"}
    <3>1. PICK m \in DOMAIN waiters : m # i /\ waiters'[k] = waiters[m]
      BY <1>13
    <3>2. waiters[m] # c /\ waiters[m] \in Callers
      BY <3>1, <1>1 DEF IInv, LineInv, TypeOK
    <3> QED
      BY <3>1, <3>2, <1>2 DEF Moved, IInv, LineInv
  <2>2. ASSUME NEW k \in DOMAIN waiters', NEW l \in DOMAIN waiters',
               waiters'[k] = waiters'[l]
        PROVE  k = l
    BY <2>2, <1>13 DEF IInv, LineInv
  <2> QED
    BY <2>1, <2>2 DEF LineInv
<1>9. In({"queued"})' = In({"queued"}) \ S
  BY <1>2 DEF In, Moved
<1>10. FreeSlotIsHandedOn'
  <2>1. SUFFICES ASSUME value' > 0 PROVE In({"queued"})' = {}
    BY DEF FreeSlotIsHandedOn
  <2>2. S = In({"queued"})
    BY <2>1, <1>2, <1>4, <1>5 DEF WakeUp
  <2> QED
    BY <2>2, <1>9
<1>11. ASSUME QueueIsFair PROVE QueueIsFair'
  <2>1. \A x, y : Before(x, y)' => Before(x, y)
    <3>1. SUFFICES ASSUME NEW k \in DOMAIN waiters', NEW l \in DOMAIN waiters', k < l
                   PROVE  Before(waiters'[k], waiters'[l])
      BY DEF Before
    <3>2. old(k) \in DOMAIN waiters /\ old(l) \in DOMAIN waiters /\ old(k) < old(l)
      BY <3>1, <1>13
    <3>3. waiters'[k] = waiters[old(k)] /\ waiters'[l] = waiters[old(l)]
      BY <1>13
    <3> QED
      BY <3>2, <3>3 DEF Before
  <2>2. ASSUME NEW x \in In({"granted", "revoked"})', NEW y \in In({"queued"})'
        PROVE  ~Before(y, x)'
    <3>1. y \in In({"queued"}) \ S
      BY <1>9
    <3>2. CASE x \in S
      <4>1. Before(x, y)
        BY <3>1, <3>2, <1>2 DEF WakeUp, Oldest
      <4>2. ~Before(y, x)
        BY <4>1 DEF Before, IInv, LineInv, TypeOK
      <4> QED
        BY <4>2, <2>1
    <3>3. CASE x \notin S
      <4>1. x \in In({"granted", "revoked"})
        BY <3>3, <1>2 DEF In, Moved
      <4> QED
        BY <4>1, <3>1, <2>1, <1>11 DEF QueueIsFair
    <3> QED
      BY <3>2, <3>3
  <2>3. \A x \in Callers : ~Before(x, x)'
    BY <2>1, <1>11 DEF QueueIsFair
  <2> QED
    BY <2>2, <2>3 DEF QueueIsFair
<1> QED
  BY <1>3, <1>4, <1>7, <1>8, <1>10, <1>11

\* A caller that posted gives its slot to the head of the line.
LEMMA ReleasingKeepsLine ==
    ASSUME GateAssumption, IInv, NEW c \in Callers, NEW s \in {"backoff", "idle"},
           st[c] = "posting", Release(c, s)
    PROVE  /\ value' \in 0..Slots /\ waiters' \in Seq(Callers)
           /\ st' \in [Callers -> States]
           /\ SlotsConserved' /\ LineInv' /\ FreeSlotIsHandedOn'
           /\ QueueIsFair => QueueIsFair'
<1>1. PICK S \in SUBSET In({"queued"}) : WakeUp(value + 1, 1, S) /\ st' = Moved(c, s, S)
  BY DEF Release
<1>2. waiters' = waiters
  BY DEF Release
<1>3. /\ st' \in [Callers -> States]
      /\ Cardinality(Holders) \in Nat /\ Cardinality(S) \in Nat
      /\ Cardinality(Holders') \in Nat
      /\ Cardinality(Holders') =
           Cardinality(Holders) + Cardinality(S)
           + (IF s \in HolderStates THEN 1 ELSE 0)
           - (IF st[c] \in HolderStates THEN 1 ELSE 0)
  <2>1. st \in [Callers -> States] /\ s \in States /\ st[c] # "queued"
    BY DEF IInv, TypeOK, States
  <2> QED
    BY <2>1, <1>1, HolderCount
<1>4. Cardinality(Holders') = Cardinality(Holders) + Cardinality(S) - 1
  BY <1>3 DEF HolderStates
<1>5. /\ value' = (value + 1) - Cardinality(S) /\ Cardinality(S) <= value + 1
      /\ value \in Nat /\ Slots \in Nat /\ value + Cardinality(Holders) = Slots
  BY <1>1 DEF WakeUp, IInv, TypeOK, SlotsConserved, GateAssumption
<1>6. SlotsConserved' /\ value' \in 0..Slots
  <2>1. value' + Cardinality(Holders') = Slots /\ value' \in Nat
    BY <1>3, <1>4, <1>5
  <2> QED
    BY <2>1, <1>3, <1>5 DEF SlotsConserved
<1>7. \A i \in DOMAIN waiters : waiters[i] # c /\ waiters[i] \in Callers
  BY DEF IInv, LineInv, TypeOK
<1>8. LineInv'
  BY <1>1, <1>2, <1>7 DEF IInv, LineInv, Moved
<1>9. In({"queued"})' = In({"queued"}) \ S
  BY <1>1 DEF In, Moved
<1>10. FreeSlotIsHandedOn'
  <2>1. SUFFICES ASSUME value' > 0, S # In({"queued"})
                 PROVE  In({"granted", "cancelled", "revoked"})' # {}
    BY <1>9 DEF FreeSlotIsHandedOn
  <2>2. Cardinality(S) = 1
    BY <2>1, <1>1, <1>3, <1>5 DEF WakeUp
  <2>3. S # {}
    BY <2>2, FS_EmptySet
  <2>4. PICK d \in S : d \in Callers /\ st'[d] = "granted"
    BY <2>3, <1>1 DEF Moved, In
  <2> QED
    BY <2>4 DEF In
<1>11. ASSUME QueueIsFair PROVE QueueIsFair'
  <2>1. \A x, y : Before(x, y)' <=> Before(x, y)
    BY <1>2 DEF Before
  <2>2. ASSUME NEW x \in In({"granted", "revoked"})', NEW y \in In({"queued"})'
        PROVE  ~Before(y, x)'
    <3>1. y \in In({"queued"}) \ S
      BY <1>9
    <3>2. CASE x \in S
      <4>1. Before(x, y)
        BY <3>1, <3>2, <1>1 DEF WakeUp, Oldest
      <4>2. ~Before(y, x)
        BY <4>1 DEF Before, IInv, LineInv, TypeOK
      <4> QED
        BY <4>2, <2>1
    <3>3. CASE x \notin S
      <4>1. x \in In({"granted", "revoked"})
        BY <3>3, <1>1 DEF In, Moved
      <4> QED
        BY <4>1, <3>1, <2>1, <1>11 DEF QueueIsFair
    <3> QED
      BY <3>2, <3>3
  <2>3. \A x \in Callers : ~Before(x, x)'
    BY <2>1, <1>11 DEF QueueIsFair
  <2> QED
    BY <2>2, <2>3 DEF QueueIsFair
<1> QED
  BY <1>2, <1>3, <1>6, <1>8, <1>10, <1>11 DEF IInv, TypeOK

\* A caller outside of the line takes a free slot, or joins at the end.
LEMMA EnteringKeepsLine ==
    ASSUME GateAssumption, IInv, FreeSlotIsHandedOn,
           NEW c \in Callers, NEW made \in 0..(Attempts - 1),
           st[c] \in {"idle", "backoff"}, Enter(c, made)
    PROVE  /\ value' \in 0..Slots /\ waiters' \in Seq(Callers)
           /\ st' \in [Callers -> States] /\ posts' \in [Callers -> 0..Attempts]
           /\ SlotsConserved' /\ LineInv' /\ FreeSlotIsHandedOn'
           /\ QueueIsFair => QueueIsFair'
<1>1. /\ value \in Nat /\ Slots \in Nat /\ Attempts \in Nat \ {0}
      /\ Cardinality(Holders) \in Nat
      /\ value + Cardinality(Holders) = Slots
      /\ st \in [Callers -> States] /\ waiters \in Seq(Callers)
      /\ posts \in [Callers -> 0..Attempts]
  <2>1. IsFiniteSet(Holders)
    BY FS_Subset DEF Holders, In, GateAssumption
  <2> QED
    BY <2>1, FS_CardinalityType DEF IInv, TypeOK, SlotsConserved, GateAssumption
<1>2. \A i \in DOMAIN waiters : waiters[i] # c /\ waiters[i] \in Callers
  <2>1. SUFFICES ASSUME NEW i \in DOMAIN waiters PROVE waiters[i] # c /\ waiters[i] \in Callers
    OBVIOUS
  <2>2. st[waiters[i]] \notin {"idle", "backoff"}
    BY DEF IInv, LineInv
  <2> QED
    BY <2>2, <1>1
<1>3. posts' \in [Callers -> 0..Attempts]
  <2>1. made \in 0..Attempts /\ made + 1 \in 0..Attempts
    BY <1>1
  <2> QED
    BY <2>1, <1>1 DEF Enter
<1>4. CASE ~Locked
  <2>1. value' = value - 1 /\ st' = [st EXCEPT ![c] = "posting"] /\ waiters' = waiters
    BY <1>4 DEF Enter
  <2>2. value > 0
    BY <1>1, <1>4 DEF Locked
  <2>3. Cardinality(Holders') = Cardinality(Holders) + 1
    <3>1. Cardinality(Holders') =
            Cardinality(Holders) + (IF "posting" \in HolderStates THEN 1 ELSE 0)
            - (IF st[c] \in HolderStates THEN 1 ELSE 0)
      BY <2>1, <1>1, HolderCountAlone DEF States
    <3> QED
      BY <3>1, <1>1 DEF HolderStates
  <2>4. SlotsConserved' /\ value' \in 0..Slots
    BY <1>1, <2>1, <2>2, <2>3 DEF SlotsConserved
  <2>5. LineInv'
    BY <1>2, <2>1 DEF IInv, LineInv
  <2>6. In({"queued"})' = In({"queued"}) /\ In({"granted", "revoked"})' = In({"granted", "revoked"})
        /\ In({"granted", "cancelled", "revoked"})' = In({"granted", "cancelled", "revoked"})
    BY <1>1, <2>1 DEF In
  <2>7. FreeSlotIsHandedOn'
    BY <1>1, <2>1, <2>2, <2>6 DEF FreeSlotIsHandedOn
  <2>8. QueueIsFair => QueueIsFair'
    BY <2>1, <2>6 DEF QueueIsFair, Before
  <2>9. st' \in [Callers -> States]
    BY <1>1, <2>1 DEF States
  <2> QED
    BY <1>1, <1>3, <2>1, <2>4, <2>5, <2>7, <2>8, <2>9
<1>5. CASE Locked
  <2>1. /\ value' = value /\ st' = [st EXCEPT ![c] = "queued"]
        /\ waiters' = Append(waiters, c)
    BY <1>5 DEF Enter
  <2>2. Cardinality(Holders') = Cardinality(Holders)
    <3>1. Cardinality(Holders') =
            Cardinality(Holders) + (IF "queued" \in HolderStates THEN 1 ELSE 0)
            - (IF st[c] \in HolderStates THEN 1 ELSE 0)
      BY <2>1, <1>1, HolderCountAlone DEF States
    <3> QED
      BY <3>1, <1>1 DEF HolderStates
  <2>3. SlotsConserved' /\ value' \in 0..Slots
    BY <1>1, <2>1, <2>2 DEF SlotsConserved
  <2>4. /\ waiters' \in Seq(Callers) /\ Len(waiters') = Len(waiters) + 1
        /\ DOMAIN waiters = 1..Len(waiters) /\ Len(waiters) \in Nat
        /\ DOMAIN waiters' = 1..(Len(waiters) + 1)
        /\ waiters'[Len(waiters) + 1] = c
        /\ \A i \in DOMAIN waiters : waiters'[i] = waiters[i]
    BY <1>1, <2>1
  <2>5. LineInv'
    <3>1. ASSUME NEW i \in DOMAIN waiters'
          PROVE  st'[waiters'[i]] \in {"queued", "granted", "cancelled", "revoked"}
      <4>1. CASE i = Len(waiters) + 1
        BY <4>1, <1>1, <2>1, <2>4
      <4>2. CASE i \in DOMAIN waiters
        BY <4>2, <1>1, <1>2, <2>1, <2>4 DEF IInv, LineInv
      <4> QED
        BY <4>1, <4>2, <2>4
    <3>2. ASSUME NEW i \in DOMAIN waiters', NEW j \in DOMAIN waiters',
                 waiters'[i] = waiters'[j]
          PROVE  i = j
      <4>1. CASE i \in DOMAIN waiters /\ j \in DOMAIN waiters
        BY <3>2, <4>1, <2>4 DEF IInv, LineInv
      <4>2. CASE i = Len(waiters) + 1 /\ j \in DOMAIN waiters
        BY <3>2, <4>2, <1>2, <2>4
      <4>3. CASE i \in DOMAIN waiters /\ j = Len(waiters) + 1
        BY <3>2, <4>3, <1>2, <2>4
      <4> QED
        BY <4>1, <4>2, <4>3, <2>4
    <3> QED
      BY <3>1, <3>2 DEF LineInv
  <2>6. FreeSlotIsHandedOn'
    <3>1. SUFFICES ASSUME value > 0
                   PROVE  In({"granted", "cancelled", "revoked"})' # {}
      BY <2>1 DEF FreeSlotIsHandedOn
    <3>2. PICK i \in DOMAIN waiters : st[waiters[i]] # "cancelled"
      BY <1>1, <1>5, <3>1 DEF Locked
    <3>3. st[waiters[i]] \in {"queued", "granted", "revoked"} /\ waiters[i] \in Callers
      BY <3>2, <1>2 DEF IInv, LineInv
    <3>4. In({"granted", "cancelled", "revoked"}) # {}
      BY <3>1, <3>3 DEF FreeSlotIsHandedOn, In
    <3> QED
      BY <3>4, <2>1, <1>1 DEF In
  <2>7. ASSUME QueueIsFair PROVE QueueIsFair'
    <3>1. \A x, y : Before(x, y)' => Before(x, y) \/ y = c
      <4>1. SUFFICES ASSUME NEW i \in DOMAIN waiters', NEW j \in DOMAIN waiters', i < j,
                            waiters'[j] # c
                     PROVE  Before(waiters'[i], waiters'[j])
        BY DEF Before
      <4>2. i \in DOMAIN waiters /\ j \in DOMAIN waiters
        BY <4>1, <2>4
      <4> QED
        BY <4>1, <4>2, <2>4 DEF Before
    <3>2. \A x : ~Before(c, x)'
      <4>1. SUFFICES ASSUME NEW i \in DOMAIN waiters', NEW j \in DOMAIN waiters', i < j
                     PROVE  waiters'[i] # c
        BY DEF Before
      <4>2. i \in DOMAIN waiters
        BY <4>1, <2>4
      <4> QED
        BY <4>2, <1>2, <2>4
    <3>3. ASSUME NEW x \in In({"granted", "revoked"})', NEW y \in In({"queued"})'
          PROVE  ~Before(y, x)'
      <4>1. x # c /\ x \in In({"granted", "revoked"})
        BY <1>1, <2>1 DEF In
      <4>2. y = c \/ y \in In({"queued"})
        BY <1>1, <2>1 DEF In
      <4> QED
        BY <4>1, <4>2, <3>1, <3>2, <2>7 DEF QueueIsFair
    <3>4. \A x \in Callers : ~Before(x, x)'
      BY <3>1, <3>2, <2>7 DEF QueueIsFair
    <3> QED
      BY <3>3, <3>4 DEF QueueIsFair
  <2>8. st' \in [Callers -> States]
    BY <1>1, <2>1 DEF States
  <2> QED
    BY <1>3, <2>3, <2>4, <2>5, <2>6, <2>7, <2>8
<1> QED
  BY <1>4, <1>5

-----------------------------------------------------------------------------
(* The inductive invariant                                                 *)

\* A call that may be repeated has an attempt left.
SpareAttempt == \A c \in Callers : st[c] \in {"backoff", "queued", "granted"} => posts[c] < Attempts

Kept == IInv /\ FreeSlotIsHandedOn /\ SpareAttempt

\* Every step keeps the typing, the slots, the shape of the line, and hands
\* free slots on; and it keeps the order of the line.
LEMMA StepKeeps ==
    ASSUME GateAssumption, Kept, [Next]_vars
    PROVE  Kept' /\ (QueueIsFair => QueueIsFair')
<1> USE GateAssumption
<1>1. /\ st \in [Callers -> States] /\ posts \in [Callers -> 0..Attempts]
      /\ ended \in [Callers -> Endings] /\ Attempts \in Nat \ {0}
      /\ value \in 0..Slots /\ waiters \in Seq(Callers)
  BY DEF Kept, IInv, TypeOK, GateAssumption
<1>2. ASSUME NEW c \in Callers, Call(c) PROVE Kept' /\ (QueueIsFair => QueueIsFair')
  <2>1. st[c] \in {"idle", "backoff"} /\ 0 \in 0..(Attempts - 1) /\ Enter(c, 0)
    BY <1>1, <1>2 DEF Call
  <2>2. /\ value' \in 0..Slots /\ waiters' \in Seq(Callers)
        /\ st' \in [Callers -> States] /\ posts' \in [Callers -> 0..Attempts]
        /\ SlotsConserved' /\ LineInv' /\ FreeSlotIsHandedOn'
        /\ QueueIsFair => QueueIsFair'
    BY <2>1, EnteringKeepsLine DEF Kept
  <2>3. ended' \in [Callers -> Endings]
    BY <1>1, <1>2 DEF Call, Endings
  <2>4. SpareAttempt'
    BY <1>1, <2>1 DEF Enter, Kept, SpareAttempt
  <2> QED
    BY <2>2, <2>3, <2>4 DEF Kept, IInv, TypeOK
<1>3. ASSUME NEW c \in Callers, Retry(c) PROVE Kept' /\ (QueueIsFair => QueueIsFair')
  <2>1. st[c] \in {"idle", "backoff"} /\ posts[c] \in 0..(Attempts - 1) /\ Enter(c, posts[c])
    BY <1>1, <1>3 DEF Retry, Kept, SpareAttempt
  <2>2. /\ value' \in 0..Slots /\ waiters' \in Seq(Callers)
        /\ st' \in [Callers -> States] /\ posts' \in [Callers -> 0..Attempts]
        /\ SlotsConserved' /\ LineInv' /\ FreeSlotIsHandedOn'
        /\ QueueIsFair => QueueIsFair'
    BY <2>1, EnteringKeepsLine DEF Kept
  <2>3. ended' \in [Callers -> Endings]
    BY <1>1, <1>3 DEF Retry
  <2>4. SpareAttempt'
    <3>1. \A d \in Callers \ {c} : st'[d] = st[d] /\ posts'[d] = posts[d]
      BY <1>1, <2>1 DEF Enter
    <3>2. st'[c] = "posting" \/ (st'[c] = "queued" /\ posts'[c] = posts[c])
      BY <1>1, <2>1 DEF Enter
    <3>3. posts[c] < Attempts
      BY <1>3 DEF Retry, Kept, SpareAttempt
    <3> QED
      BY <3>1, <3>2, <3>3 DEF Kept, SpareAttempt
  <2> QED
    BY <2>2, <2>3, <2>4 DEF Kept, IInv, TypeOK
<1>4. ASSUME NEW c \in Callers, TakeSlot(c) PROVE Kept' /\ (QueueIsFair => QueueIsFair')
  <2>1. st[c] = "granted" /\ LeaveQueue(c, value, "posting") /\ value \in Nat
    BY <1>1, <1>4 DEF TakeSlot, GateAssumption
  <2>2. value + Cardinality(Holders) + (IF "posting" \in HolderStates THEN 1 ELSE 0)
          - (IF st[c] \in HolderStates THEN 1 ELSE 0) = Slots
    <3>1. Cardinality(Holders) \in Nat
      BY FS_Subset, FS_CardinalityType DEF Holders, In, GateAssumption
    <3> QED
      BY <2>1, <3>1 DEF HolderStates, Kept, IInv, SlotsConserved
  <2>3. /\ value' \in 0..Slots /\ waiters' \in Seq(Callers)
        /\ st' \in [Callers -> States]
        /\ SlotsConserved' /\ LineInv' /\ FreeSlotIsHandedOn'
        /\ QueueIsFair => QueueIsFair'
    BY <2>1, <2>2, LeavingKeepsLine DEF Kept
  <2>4. posts' \in [Callers -> 0..Attempts] /\ ended' = ended
    BY <1>1, <1>4, <2>1 DEF TakeSlot, Kept, SpareAttempt
  <2>5. SpareAttempt'
    <3>1. PICK S \in SUBSET In({"queued"}) : st' = Moved(c, "posting", S)
      BY <2>1 DEF LeaveQueue
    <3>2. \A d \in Callers \ {c} : posts'[d] = posts[d]
      BY <1>1, <1>4 DEF TakeSlot
    <3>3. st'[c] = "posting"
      BY <3>1 DEF Moved
    <3>4. \A d \in Callers \ {c} :
            st'[d] \in {"backoff", "queued", "granted"}
              => st[d] \in {"backoff", "queued", "granted"}
      BY <3>1 DEF Moved, In
    <3> QED
      BY <3>2, <3>3, <3>4 DEF Kept, SpareAttempt
  <2> QED
    BY <1>1, <2>3, <2>4, <2>5 DEF Kept, IInv, TypeOK
<1>5. ASSUME NEW c \in Callers, NEW a \in Answers, FinishPost(c, a)
      PROVE  Kept' /\ (QueueIsFair => QueueIsFair')
  <2>1. st[c] = "posting" /\ posts' = posts
    BY <1>5 DEF FinishPost
  <2>2. CASE Retries(c, a)
    <3>1. Release(c, "backoff") /\ ended' = ended
      BY <1>5, <2>2 DEF FinishPost
    <3>2. /\ value' \in 0..Slots /\ waiters' \in Seq(Callers)
          /\ st' \in [Callers -> States]
          /\ SlotsConserved' /\ LineInv' /\ FreeSlotIsHandedOn'
          /\ QueueIsFair => QueueIsFair'
      BY <2>1, <3>1, ReleasingKeepsLine DEF Kept
    <3>3. SpareAttempt'
      BY <1>1, <2>1, <2>2, <3>1 DEF Release, Moved, In, Retries, Kept, SpareAttempt
    <3> QED
      BY <1>1, <2>1, <3>1, <3>2, <3>3 DEF Kept, IInv, TypeOK
  <2>3. CASE ~Retries(c, a)
    <3>1. Release(c, "idle") /\ ended' = [ended EXCEPT ![c] = Ending(a)]
      BY <1>5, <2>3 DEF FinishPost
    <3>2. /\ value' \in 0..Slots /\ waiters' \in Seq(Callers)
          /\ st' \in [Callers -> States]
          /\ SlotsConserved' /\ LineInv' /\ FreeSlotIsHandedOn'
          /\ QueueIsFair => QueueIsFair'
      BY <2>1, <3>1, ReleasingKeepsLine DEF Kept
    <3>3. SpareAttempt'
      BY <1>1, <2>1, <3>1 DEF Release, Moved, In, Kept, SpareAttempt
    <3>4. ended' \in [Callers -> Endings]
      BY <1>1, <3>1 DEF Ending, Endings
    <3> QED
      BY <1>1, <2>1, <3>2, <3>3, <3>4 DEF Kept, IInv, TypeOK
  <2> QED
    BY <2>2, <2>3
<1>6. ASSUME NEW c \in Callers, CancelWaiter(c) PROVE Kept' /\ (QueueIsFair => QueueIsFair')
  <2>1. /\ value' = value /\ waiters' = waiters /\ posts' = posts /\ ended' = ended
        /\ \/ st[c] = "queued" /\ st' = [st EXCEPT ![c] = "cancelled"]
           \/ st[c] = "granted" /\ st' = [st EXCEPT ![c] = "revoked"]
    BY <1>6 DEF CancelWaiter
  <2>2. Holders' = Holders /\ st' \in [Callers -> States]
    BY <1>1, <2>1 DEF Holders, In, States
  <2>3. LineInv' /\ SlotsConserved'
    <3>1. \A i \in DOMAIN waiters :
            st'[waiters[i]] \in {"queued", "granted", "cancelled", "revoked"}
      <4>1. SUFFICES ASSUME NEW i \in DOMAIN waiters
                     PROVE  st'[waiters[i]] \in {"queued", "granted", "cancelled", "revoked"}
        OBVIOUS
      <4>2. waiters[i] \in Callers
            /\ st[waiters[i]] \in {"queued", "granted", "cancelled", "revoked"}
        BY <1>1 DEF LineInv, Kept, IInv
      <4> QED
        BY <1>1, <2>1, <4>2
    <3> QED
      BY <2>1, <2>2, <3>1 DEF LineInv, SlotsConserved, Kept, IInv
  <2>4. FreeSlotIsHandedOn'
    <3>1. c \in In({"granted", "cancelled", "revoked"})'
      BY <1>1, <2>1 DEF In
    <3> QED
      BY <3>1 DEF FreeSlotIsHandedOn
  <2>5. SpareAttempt'
    BY <1>1, <2>1 DEF Kept, SpareAttempt
  <2>6. ASSUME QueueIsFair PROVE QueueIsFair'
    <3>1. In({"granted", "revoked"})' = In({"granted", "revoked"})
          /\ In({"queued"})' \subseteq In({"queued"})
      BY <1>1, <2>1 DEF In
    <3> QED
      BY <2>1, <2>6, <3>1 DEF QueueIsFair, Before
  <2> QED
    BY <1>1, <2>1, <2>2, <2>3, <2>4, <2>5, <2>6 DEF Kept, IInv, TypeOK
<1>7. ASSUME NEW c \in Callers, Unwind(c) PROVE Kept' /\ (QueueIsFair => QueueIsFair')
  <2> DEFINE free == IF st[c] = "revoked" THEN value + 1 ELSE value
  <2>1. /\ st[c] \in {"cancelled", "revoked"} /\ LeaveQueue(c, free, "idle")
        /\ free \in Nat /\ posts' = posts /\ ended' = [ended EXCEPT ![c] = "cancelled"]
    BY <1>1, <1>7 DEF Unwind, GateAssumption
  <2>2. free + Cardinality(Holders) + (IF "idle" \in HolderStates THEN 1 ELSE 0)
          - (IF st[c] \in HolderStates THEN 1 ELSE 0) = Slots
    <3>1. Cardinality(Holders) \in Nat
      BY FS_Subset, FS_CardinalityType DEF Holders, In, GateAssumption
    <3> QED
      BY <1>1, <2>1, <3>1 DEF HolderStates, Kept, IInv, SlotsConserved
  <2> HIDE DEF free
  <2>3. /\ value' \in 0..Slots /\ waiters' \in Seq(Callers)
        /\ st' \in [Callers -> States]
        /\ SlotsConserved' /\ LineInv' /\ FreeSlotIsHandedOn'
        /\ QueueIsFair => QueueIsFair'
    BY <2>1, <2>2, LeavingKeepsLine DEF Kept
  <2>4. SpareAttempt'
    BY <1>1, <2>1 DEF LeaveQueue, Moved, In, Kept, SpareAttempt
  <2>5. ended' \in [Callers -> Endings]
    BY <1>1, <2>1 DEF Endings
  <2> QED
    BY <1>1, <2>1, <2>3, <2>4, <2>5 DEF Kept, IInv, TypeOK
<1>8. ASSUME NEW c \in Callers, CancelPost(c) PROVE Kept' /\ (QueueIsFair => QueueIsFair')
  <2>1. /\ st[c] = "posting" /\ Release(c, "idle") /\ posts' = posts
        /\ ended' = [ended EXCEPT ![c] = "cancelled"]
    BY <1>8 DEF CancelPost
  <2>2. /\ value' \in 0..Slots /\ waiters' \in Seq(Callers)
        /\ st' \in [Callers -> States]
        /\ SlotsConserved' /\ LineInv' /\ FreeSlotIsHandedOn'
        /\ QueueIsFair => QueueIsFair'
    BY <2>1, ReleasingKeepsLine DEF Kept
  <2>3. SpareAttempt'
    BY <1>1, <2>1 DEF Release, Moved, In, Kept, SpareAttempt
  <2>4. ended' \in [Callers -> Endings]
    BY <1>1, <2>1 DEF Endings
  <2> QED
    BY <1>1, <2>1, <2>2, <2>3, <2>4 DEF Kept, IInv, TypeOK
<1>9. ASSUME NEW c \in Callers, CancelBackoff(c) PROVE Kept' /\ (QueueIsFair => QueueIsFair')
  <2>1. /\ value' = value /\ waiters' = waiters /\ posts' = posts
        /\ st[c] = "backoff" /\ st' = [st EXCEPT ![c] = "idle"]
        /\ ended' = [ended EXCEPT ![c] = "cancelled"]
    BY <1>9 DEF CancelBackoff
  <2>2. /\ Holders' = Holders /\ st' \in [Callers -> States]
        /\ In({"granted", "revoked"})' = In({"granted", "revoked"})
        /\ In({"granted", "cancelled", "revoked"})' = In({"granted", "cancelled", "revoked"})
        /\ In({"queued"})' = In({"queued"})
    BY <1>1, <2>1 DEF Holders, In, States
  <2>3. LineInv'
    <3>1. ASSUME NEW i \in DOMAIN waiters PROVE st'[waiters[i]] = st[waiters[i]]
      <4>1. waiters[i] \in Callers /\ st[waiters[i]] # "backoff"
        BY <1>1 DEF LineInv, Kept, IInv
      <4> QED
        BY <1>1, <2>1, <4>1
    <3> QED
      BY <2>1, <3>1 DEF LineInv, Kept, IInv
  <2>4. SlotsConserved' /\ FreeSlotIsHandedOn' /\ (QueueIsFair => QueueIsFair')
    BY <2>1, <2>2 DEF SlotsConserved, FreeSlotIsHandedOn, QueueIsFair, Before, Kept, IInv
  <2>5. SpareAttempt'
    BY <1>1, <2>1 DEF Kept, SpareAttempt
  <2>6. ended' \in [Callers -> Endings]
    BY <1>1, <2>1 DEF Endings
  <2> QED
    BY <1>1, <2>1, <2>2, <2>3, <2>4, <2>5, <2>6 DEF Kept, IInv, TypeOK
<1>10. CASE UNCHANGED vars
  BY <1>10 DEF vars, Kept, IInv, TypeOK, SlotsConserved, LineInv, FreeSlotIsHandedOn,
               QueueIsFair, SpareAttempt, Before, Holders, In
<1> QED
  BY <1>2, <1>3, <1>4, <1>5, <1>6, <1>7, <1>8, <1>9, <1>10 DEF Next, Step

\* All slots are free and nobody waits.
LEMMA InitKeeps == ASSUME GateAssumption, Init PROVE Kept /\ QueueIsFair
<1>1. Holders = {} /\ In({"queued"}) = {}
  BY DEF Init, Holders, In
<1>2. Cardinality(Holders) = 0
  BY <1>1, FS_EmptySet
<1>3. TypeOK
  BY DEF Init, TypeOK, States, Endings, GateAssumption
<1>4. SlotsConserved
  BY <1>2 DEF Init, SlotsConserved, GateAssumption
<1>5. LineInv /\ FreeSlotIsHandedOn /\ SpareAttempt /\ QueueIsFair
  BY <1>1 DEF Init, LineInv, FreeSlotIsHandedOn, SpareAttempt, QueueIsFair, Before
<1> QED
  BY <1>3, <1>4, <1>5 DEF Kept, IInv

-----------------------------------------------------------------------------
(* Theorems                                                                *)

\* The semaphore's variables and the callers keep their types: value never
\* leaves 0..Slots, whatever is cancelled when.
THEOREM TypeCorrect == Spec => []TypeOK
<1>1. Init => Kept
  BY InitKeeps, GateAssumption
<1>2. Kept /\ [Next]_vars => Kept'
  BY StepKeeps, GateAssumption
<1>3. Kept => TypeOK
  BY DEF Kept, IInv
<1> QED
  BY <1>1, <1>2, <1>3, PTL DEF Spec

\* No interleaving of calls, answers and cancellations loses or makes a slot.
THEOREM NoSlotLeaks == Spec => []SlotsConserved
<1>1. Init => Kept
  BY InitKeeps, GateAssumption
<1>2. Kept /\ [Next]_vars => Kept'
  BY StepKeeps, GateAssumption
<1>3. Kept => SlotsConserved
  BY DEF Kept, IInv
<1> QED
  BY <1>1, <1>2, <1>3, PTL DEF Spec

\* No wakeup is lost: while a slot is free and somebody waits, a waiter that
\* will hand it on is ready to run.
THEOREM NoWakeupIsLost == Spec => []FreeSlotIsHandedOn
<1>1. Init => Kept
  BY InitKeeps, GateAssumption
<1>2. Kept /\ [Next]_vars => Kept'
  BY StepKeeps, GateAssumption
<1>3. Kept => FreeSlotIsHandedOn
  BY DEF Kept
<1> QED
  BY <1>1, <1>2, <1>3, PTL DEF Spec

\* Slots are granted in the order of arrival.
THEOREM GrantsAreInOrder == Spec => []QueueIsFair
<1>1. Init => Kept /\ QueueIsFair
  BY InitKeeps, GateAssumption
<1>2. Kept /\ QueueIsFair /\ [Next]_vars => (Kept /\ QueueIsFair)'
  BY StepKeeps, GateAssumption
<1> QED
  BY <1>1, <1>2, PTL DEF Spec

-----------------------------------------------------------------------------
(* The archive.                                                            *)

Scorable == {a \in Auctions : a \notin Malformed /\ Stored[a] # {}}
TrueScore(a) == ScoreOver(Keys(Stored[a]), a)

\* Slimming takes orders away, but none that the solution fills.
RowsKeepFills ==
    \A a \in Auctions :
        /\ Keys(raw[a]) \subseteq Keys(Stored[a])
        /\ Keys(Trades[a]) \cap Keys(Stored[a]) \subseteq Keys(raw[a])

\* What a script carries from its reading to its writing is right already.
UpdatesTrue ==
    \A u \in script.updates : u[1] \in Scorable => u[2] = TrueScore(u[1])

ScoresTyped == DOMAIN score = Columns /\ \A c \in Columns : DOMAIN score[c] = Auctions

ArchiveInv == RowsKeepFills /\ UpdatesTrue /\ ScoresTyped /\ ScoresSurviveSlimming

\* The invariant of the archive holds at the start.
LEMMA ArchiveInitInv == ArchiveInit => ArchiveInv
  BY DEF ArchiveInit, ArchiveInv, RowsKeepFills, UpdatesTrue, ScoresTyped,
         ScoresSurviveSlimming, NotRun, Keys

\* retain_row keeps the fills of the row.
LEMMA RetainKeepsFills ==
    ASSUME NEW a, NEW orders
    PROVE  /\ Keys(RetainRow(orders, a)) \subseteq Keys(orders)
           /\ Keys(Trades[a]) \cap Keys(orders) \subseteq Keys(RetainRow(orders, a))
  BY DEF RetainRow, Keys, ExtractReferencedUids

\* The score over any set of orders between the fills of the auction and the
\* auction is the score over the auction.
LEMMA SameScore ==
    ASSUME NEW a, NEW keys,
           Keys(Trades[a]) \cap keys = Keys(Trades[a]) \cap Keys(Stored[a])
    PROVE  ScoreOver(keys, a) = TrueScore(a)
  BY DEF ScoreOver, TrueScore

\* Whatever a script sees of a row that was stored with orders, slimmed or
\* not, yields the score over the auction; the order API is asked only when
\* there is nothing to score.
LEMMA ViewsAgree ==
    ASSUME RowsKeepFills, NEW a \in Scorable, NEW view \in Views(a)
    PROVE  ScoreOver(view, a) = TrueScore(a)
<1>1. Keys(raw[a]) \subseteq Keys(Stored[a])
      /\ Keys(Trades[a]) \cap Keys(Stored[a]) \subseteq Keys(raw[a])
  BY DEF RowsKeepFills, Scorable
<1>2. OrdersInRow(a) = Keys(raw[a])
  BY DEF OrdersInRow, Scorable
<1>3. Keys(Trades[a]) \cap view = Keys(Trades[a]) \cap Keys(Stored[a])
  <2>1. CASE OrdersInRow(a) = {}
    <3>1. Keys(Trades[a]) \cap Keys(Stored[a]) = {}
      BY <1>1, <1>2, <2>1
    <3>2. Trades[a] = {}
      BY <3>1, FillsAssumption DEF Scorable
    <3> QED
      BY <3>2 DEF Keys
  <2>2. CASE OrdersInRow(a) # {}
    <3>1. view = Keys(raw[a])
      BY <1>2, <2>2 DEF Views
    <3> QED
      BY <1>1, <3>1
  <2> QED
    BY <2>1, <2>2
<1> QED
  BY <1>3, SameScore

\* No step takes an order out of a row that a trade fills.
LEMMA RowsKeepFillsStep ==
    ASSUME RowsKeepFills, ArchiveNext \/ UNCHANGED archiveVars
    PROVE  RowsKeepFills'
<1>1. CASE CommitPage
  <2>1. PICK todo \in SUBSET Auctions :
           raw' = [a \in Auctions |-> IF a \in todo THEN RetainRow(raw[a], a) ELSE raw[a]]
    <3>1. PICK page \in NextPages :
             raw' = [a \in Auctions |->
                        IF a \in {b \in page : b \notin Malformed /\ b \notin retained}
                        THEN RetainRow(raw[a], a) ELSE raw[a]]
      BY <1>1 DEF CommitPage
    <3>2. raw' = [a \in Auctions |->
                     IF a \in {b \in page \cap Auctions : b \notin Malformed /\ b \notin retained}
                     THEN RetainRow(raw[a], a) ELSE raw[a]]
      BY <3>1
    <3> QED
      BY <3>2
  <2>2. SUFFICES ASSUME NEW a \in Auctions
                 PROVE  /\ Keys(raw'[a]) \subseteq Keys(Stored[a])
                        /\ Keys(Trades[a]) \cap Keys(Stored[a]) \subseteq Keys(raw'[a])
    BY DEF RowsKeepFills
  <2>3. /\ Keys(raw[a]) \subseteq Keys(Stored[a])
        /\ Keys(Trades[a]) \cap Keys(Stored[a]) \subseteq Keys(raw[a])
    BY DEF RowsKeepFills
  <2>4. raw'[a] = raw[a] \/ raw'[a] = RetainRow(raw[a], a)
    BY <2>1
  <2> QED
    BY <2>3, <2>4, RetainKeepsFills
<1>2. CASE UNCHANGED raw
  BY <1>2 DEF RowsKeepFills
<1> QED
  BY <1>1, <1>2 DEF ArchiveNext, archiveVars, Tick, BeginCycle, FailCycle, RestartLoop,
                    ScriptReads, ScriptWrites, ScriptDies

\* What a script carries stays right while the rows change below it.
LEMMA UpdatesStep ==
    ASSUME RowsKeepFills, UpdatesTrue, ArchiveNext \/ UNCHANGED archiveVars
    PROVE  UpdatesTrue'
<1>1. ASSUME NEW c \in Columns, ScriptReads(c)
      PROVE  UpdatesTrue'
  <2>1. PICK found, view :
           /\ \A a \in found : view[a] \in Views(a)
           /\ script' = [column |-> c, updates |-> {<<a, ScoreOver(view[a], a)>> : a \in found}]
    BY <1>1 DEF ScriptReads
  <2>2. SUFFICES ASSUME NEW a \in found, a \in Scorable
                 PROVE  ScoreOver(view[a], a) = TrueScore(a)
    BY <2>1 DEF UpdatesTrue
  <2> QED
    BY <2>1, <2>2, ViewsAgree
<1>2. CASE script' = NotRun
  BY <1>2 DEF UpdatesTrue, NotRun
<1>3. CASE UNCHANGED script
  BY <1>3 DEF UpdatesTrue
<1> QED
  BY <1>1, <1>2, <1>3 DEF ArchiveNext, archiveVars, Tick, BeginCycle, CommitPage, FailCycle,
                          RestartLoop, ScriptWrites, ScriptDies

\* A score that is written is the score of the auction as it was polled.
LEMMA ScoresStep ==
    ASSUME ArchiveInv, ArchiveNext \/ UNCHANGED archiveVars
    PROVE  ScoresTyped' /\ ScoresSurviveSlimming'
<1>1. ASSUME NEW c \in Columns, ScriptWrites(c)
      PROVE  ScoresTyped' /\ ScoresSurviveSlimming'
  <2> DEFINE Written(a) == IF c = "our_score_wei" \/ score[c][a] = Null
                           THEN NewScore(a, score[c][a]) ELSE score[c][a]
  <2>1. score' = [score EXCEPT ![c] = [a \in Auctions |-> Written(a)]]
    BY <1>1 DEF ScriptWrites
  <2>2. ScoresTyped'
    BY <2>1 DEF ArchiveInv, ScoresTyped
  <2>3. ASSUME NEW a \in Scorable, Written(a) # Null
        PROVE  Written(a) = TrueScore(a)
    <3>1. score[c][a] # Null => score[c][a] = TrueScore(a)
      BY DEF ArchiveInv, ScoresSurviveSlimming, Scorable, TrueScore
    <3>2. CASE \E u \in script.updates : u[1] = a
      <4>1. PICK u \in script.updates : u[1] = a /\ NewScore(a, score[c][a]) = u[2]
        BY <3>2 DEF NewScore
      <4>2. u[2] = TrueScore(a)
        BY <4>1 DEF ArchiveInv, UpdatesTrue
      <4> QED
        BY <2>3, <3>1, <4>1, <4>2
    <3>3. CASE ~ \E u \in script.updates : u[1] = a
      BY <2>3, <3>1, <3>3 DEF NewScore
    <3> QED
      BY <3>2, <3>3
  <2>4. ScoresSurviveSlimming'
    <3>1. SUFFICES ASSUME NEW d \in Columns, NEW a \in Auctions,
                          a \notin Malformed, Stored[a] # {}, score'[d][a] # Null
                   PROVE  score'[d][a] = TrueScore(a)
      BY DEF ScoresSurviveSlimming, TrueScore
    <3>2. CASE d = c
      BY <2>1, <2>3, <3>1, <3>2 DEF ArchiveInv, ScoresTyped, Scorable
    <3>3. CASE d # c
      BY <2>1, <3>1, <3>3 DEF ArchiveInv, ScoresTyped, ScoresSurviveSlimming, TrueScore
    <3> QED
      BY <3>2, <3>3
  <2> QED
    BY <2>2, <2>4
<1>2. CASE UNCHANGED score
  BY <1>2 DEF ArchiveInv, ScoresTyped, ScoresSurviveSlimming
<1> QED
  BY <1>1, <1>2 DEF ArchiveNext, archiveVars, Tick, BeginCycle, CommitPage, FailCycle,
                    RestartLoop, ScriptReads, ScriptDies

\* A score that a script fills in from a stored row is the score over the
\* auction as it was polled, however the retention loop slims the row before,
\* during and after (retain_row, backfill_scores, backfill_winner_price_scores).
THEOREM ScoresAreTrue ==
    ArchiveInit /\ [][ArchiveNext]_archiveVars => []ScoresSurviveSlimming
<1>1. ArchiveInv /\ [ArchiveNext]_archiveVars => ArchiveInv'
  BY RowsKeepFillsStep, UpdatesStep, ScoresStep DEF ArchiveInv
<1>2. ArchiveInv => ScoresSurviveSlimming
  BY DEF ArchiveInv
<1> QED
  BY ArchiveInitInv, <1>1, <1>2, PTL

-----------------------------------------------------------------------------
(* The labels.                                                             *)

Row == [proxy : Flag, tax : Int, transferTax : Flag]
Columned == {"proxy", "tax", "transferTax"}

\* Rows, and what a run has found, have their columns; what is found of a
\* token comes from an answer of GoPlus.
FeaturesTyped == \A t \in DOMAIN features : features[t] \in Row
FoundTyped == \A t \in DOMAIN seeder.found : seeder.found[t] \in [proxy : Flag, tax : Int]
SeederTyped ==
    \E stage, left, attempt, verdicts, found :
        seeder = [stage |-> stage, left |-> left, attempt |-> attempt, verdicts |-> verdicts,
                  found |-> found]
LabelsInv == FeaturesTyped /\ FoundTyped /\ SeederTyped

\* One row is as good as another, column by column.
Keeps(new, old) == \A c \in Columned : old[c] # Blank[c] => new[c] # Blank[c]

\* A token nobody has looked at has a row of unknowns.
LEMMA BlankIsRow == Blank \in Row
  BY DEF Blank, Row, Flag, Unknown

\* A seeder that does not run has found nothing.
LEMMA EmptyFound == NoRun.found = <<>> /\ DOMAIN <<>> = {}
  BY DEF NoRun

\* An upsert forgets no column that was known.
LEMMA MergedKeeps ==
    ASSUME NEW row \in Row, NEW known \in [proxy : Flag, tax : Int]
    PROVE  Merged(row, known) \in Row /\ Keeps(Merged(row, known), row)
<1> DEFINE proxy == IF known.proxy = "none" THEN row.proxy ELSE known.proxy
           tax == IF known.tax = Unknown THEN row.tax ELSE known.tax
<1>0. Merged(row, known) = [row EXCEPT !.proxy = proxy, !.tax = tax]
  BY DEF Merged
<1>1. Merged(row, known) = [proxy |-> proxy, tax |-> tax, transferTax |-> row.transferTax]
  <2> HIDE DEF proxy, tax
  <2> QED
    BY <1>0 DEF Row
<1>2. /\ known.proxy \in Flag /\ known.tax \in Int
      /\ row.proxy \in Flag /\ row.tax \in Int /\ row.transferTax \in Flag
  BY DEF Row
<1>3. Merged(row, known) \in Row
  BY <1>1, <1>2 DEF Row
<1>4. Keeps(Merged(row, known), row)
  BY <1>1 DEF Keeps, Columned, Blank
<1> QED
  BY <1>3, <1>4

\* A row that stays forgets nothing.
LEMMA KeepsItself == \A row : Keeps(row, row)
  BY DEF Keeps

\* A row marked by seed_scam_labels keeps its columns.
LEMMA MarkedKeeps ==
    ASSUME NEW row \in Row
    PROVE  /\ [row EXCEPT !.transferTax = "1"] \in Row
           /\ Keeps([row EXCEPT !.transferTax = "1"], row)
<1>1. [row EXCEPT !.transferTax = "1"] =
         [proxy |-> row.proxy, tax |-> row.tax, transferTax |-> "1"]
  BY DEF Row
<1>2. row.proxy \in Flag /\ row.tax \in Int /\ "1" \in Flag
  BY DEF Row, Flag
<1>3. [row EXCEPT !.transferTax = "1"] \in Row
  BY <1>1, <1>2 DEF Row
<1>4. Keeps([row EXCEPT !.transferTax = "1"], row)
  BY <1>1 DEF Keeps, Columned, Blank
<1> QED
  BY <1>3, <1>4

\* What an answer tells is a value of each column.
LEMMA AnswerTyped ==
    ASSUME NEW e \in Entries \cup {NoEntry}
    PROVE  ExtractSecurityFeatures(e) \in [proxy : Flag, tax : Int]
<1>1. e.proxy \in Flag /\ e.tax \in Int
  BY LabelsAssumption DEF NoEntry, Flag, Unknown
<1> QED
  BY <1>1 DEF ExtractSecurityFeatures

\* A verdict adds an answer to what the run has found.
LEMMA VerdictTyped ==
    ASSUME LabelsInv, NEW kind, NEW known, Verdict(kind, known),
           known # NothingKnown => known \in [proxy : Flag, tax : Int]
    PROVE  FoundTyped' /\ SeederTyped'
<1> DEFINE t == Head(seeder.left)
           found == seeder.found
           next == IF known = NothingKnown THEN found
                   ELSE [u \in DOMAIN found \cup {t} |-> IF u = t THEN known ELSE found[u]]
           left == Tail(seeder.left)
           stage == IF left = <<>> THEN "labels" ELSE "asking"
           verdicts == seeder.verdicts \cup {<<t, kind>>}
<1>1. seeder' = [seeder EXCEPT !.left = left, !.attempt = 1, !.stage = stage,
                               !.verdicts = verdicts, !.found = next]
  BY DEF Verdict
<1>2. \A u \in DOMAIN next : next[u] \in [proxy : Flag, tax : Int]
  BY DEF LabelsInv, FoundTyped
<1> HIDE DEF next, left, stage, verdicts
<1>3. seeder' = [stage |-> stage, left |-> left, attempt |-> 1, verdicts |-> verdicts,
                 found |-> next]
  BY <1>1 DEF LabelsInv, SeederTyped
<1>4. SeederTyped'
  BY <1>3 DEF SeederTyped
<1>5. seeder'.found = next
  BY <1>3
<1>6. FoundTyped'
  BY <1>2, <1>5 DEF FoundTyped
<1> QED
  BY <1>4, <1>6

\* A step keeps the types of a run and of what it found.
LEMMA SeederStep ==
    ASSUME LabelsInv, LabelsNext \/ UNCHANGED labelVars
    PROVE  FoundTyped' /\ SeederTyped'
<1>1. CASE seeder' = NoRun
  BY <1>1, EmptyFound DEF FoundTyped, SeederTyped, NoRun
<1>2. CASE UNCHANGED seeder
  BY <1>2 DEF LabelsInv, FoundTyped, SeederTyped
<1>3. CASE StartSeed
  <2>1. PICK picked : seeder' = [NoRun EXCEPT !.stage = "asking", !.left = SetToSeq(picked)]
    BY <1>3 DEF StartSeed
  <2>2. seeder' = [stage |-> "asking", left |-> SetToSeq(picked), attempt |-> 1,
                   verdicts |-> {}, found |-> <<>>]
    BY <2>1 DEF NoRun
  <2> QED
    BY <2>2, EmptyFound DEF FoundTyped, SeederTyped
<1>4. CASE Answered
  <2>1. PICK e \in Entries \cup {NoEntry} : Verdict(ClassifyOne(e), ExtractSecurityFeatures(e))
    BY <1>4 DEF Answered
  <2> QED
    BY <2>1, AnswerTyped, VerdictTyped
<1>5. ASSUME Verdict("error", NothingKnown)
      PROVE  FoundTyped' /\ SeederTyped'
  BY <1>5, VerdictTyped
<1>6. CASE seeder' = [seeder EXCEPT !.attempt = @ + 1]
  BY <1>6 DEF LabelsInv, FoundTyped, SeederTyped
<1>7. CASE WriteLabels
  <2>1. seeder' = [seeder EXCEPT !.stage = "features"]
    BY <1>7 DEF WriteLabels
  <2> QED
    BY <2>1 DEF LabelsInv, FoundTyped, SeederTyped
<1> QED
  BY <1>1, <1>2, <1>3, <1>4, <1>5, <1>6, <1>7
     DEF LabelsNext, labelVars, PersistOutcomes, RateLimited, AskFails, UpsertSecurityFeatures,
         SeedDies, CheckAndFlagExisting, InjectKnownScamTokens

\* No row is dropped, and none loses a column.
RowsKept ==
    \A t \in DOMAIN features : t \in DOMAIN features' /\ Keeps(features'[t], features[t])

\* A step keeps the types of the features and forgets no column.
LEMMA FeaturesStep ==
    ASSUME LabelsInv, LabelsNext \/ UNCHANGED labelVars
    PROVE  FeaturesTyped' /\ RowsKept
<1> USE DEF LabelsInv, FeaturesTyped, RowsKept
<1>1. CASE UpsertSecurityFeatures
  <2>1. features' = [t \in DOMAIN features \cup DOMAIN seeder.found |->
                        IF t \in DOMAIN seeder.found THEN Merged(RowOf(t), seeder.found[t])
                                                     ELSE features[t]]
    BY <1>1 DEF UpsertSecurityFeatures
  <2>2. \A t : RowOf(t) \in Row
    BY BlankIsRow DEF RowOf
  <2>3. \A t \in DOMAIN seeder.found :
           /\ Merged(RowOf(t), seeder.found[t]) \in Row
           /\ Keeps(Merged(RowOf(t), seeder.found[t]), RowOf(t))
    BY <2>2, MergedKeeps DEF FoundTyped
  <2>4. \A t \in DOMAIN features : RowOf(t) = features[t]
    BY DEF RowOf
  <2> QED
    BY <2>1, <2>3, <2>4, KeepsItself
<1>2. CASE CheckAndFlagExisting
  <2>1. PICK flagged : features' = [t \in DOMAIN features |->
                IF t \in flagged THEN [features[t] EXCEPT !.transferTax = "1"] ELSE features[t]]
    BY <1>2 DEF CheckAndFlagExisting
  <2>2. \A t \in DOMAIN features : features'[t] \in Row /\ Keeps(features'[t], features[t])
    BY <2>1, MarkedKeeps, KeepsItself
  <2> QED
    BY <2>1, <2>2
<1>3. CASE InjectKnownScamTokens /\ features' # features
  <2>1. PICK fresh : /\ fresh = KnownScams \ DOMAIN features
                     /\ features' = [t \in DOMAIN features \cup fresh |->
                           IF t \in fresh THEN [Blank EXCEPT !.transferTax = "1"] ELSE features[t]]
    BY <1>3 DEF InjectKnownScamTokens
  <2>2. [Blank EXCEPT !.transferTax = "1"] \in Row
    BY BlankIsRow, MarkedKeeps
  <2> QED
    BY <2>1, <2>2, KeepsItself
<1>4. CASE UNCHANGED features
  BY <1>4, KeepsItself
<1> QED
  BY <1>1, <1>2, <1>3, <1>4
     DEF LabelsNext, labelVars, PersistOutcomes, StartSeed, Answered, RateLimited, AskFails,
         WriteLabels, SeedDies

\* No outcome is taken back.
LEMMA OutcomesGrow ==
    ASSUME LabelsNext \/ UNCHANGED labelVars
    PROVE  outcomes \subseteq outcomes'
  BY DEF LabelsNext, labelVars, PersistOutcomes, StartSeed, Answered, RateLimited, AskFails,
         WriteLabels, UpsertSecurityFeatures, SeedDies, CheckAndFlagExisting,
         InjectKnownScamTokens

\* What is known of a token is not forgotten (_upsert_security_features,
\* check_and_flag_existing, inject_known_scam_tokens): for any tokens, any
\* answers of GoPlus, and runs that die at any point.
THEOREM KnowledgeGrows ==
    LabelsInit /\ [][LabelsNext]_labelVars => KnowledgeIsKept
<1>1. LabelsInit => LabelsInv
  <2> SUFFICES ASSUME LabelsInit PROVE LabelsInv
    OBVIOUS
  <2>1. FeaturesTyped
    BY BlankIsRow DEF LabelsInit, FeaturesTyped
  <2>2. FoundTyped
    BY EmptyFound DEF LabelsInit, FoundTyped
  <2>3. SeederTyped
    BY DEF LabelsInit, SeederTyped, NoRun
  <2> QED
    BY <2>1, <2>2, <2>3 DEF LabelsInv
<1>2. LabelsInv /\ [LabelsNext]_labelVars => LabelsInv'
  BY SeederStep, FeaturesStep DEF LabelsInv
<1>3. LabelsInv /\ [LabelsNext]_labelVars
      => [/\ ConfirmedScam \subseteq ConfirmedScam'
          /\ \A t \in DOMAIN features :
                /\ t \in DOMAIN features'
                /\ \A c \in {"proxy", "tax", "transferTax"} :
                      features[t][c] # Blank[c] => features'[t][c] # Blank[c]]_labelVars
  <2> SUFFICES ASSUME LabelsInv, LabelsNext \/ UNCHANGED labelVars
               PROVE  /\ ConfirmedScam \subseteq ConfirmedScam'
                      /\ \A t \in DOMAIN features :
                            /\ t \in DOMAIN features'
                            /\ \A c \in {"proxy", "tax", "transferTax"} :
                                  features[t][c] # Blank[c] => features'[t][c] # Blank[c]
    OBVIOUS
  <2>1. ConfirmedScam \subseteq ConfirmedScam'
    BY OutcomesGrow DEF ConfirmedScam
  <2>2. RowsKept
    BY FeaturesStep
  <2> QED
    BY <2>1, <2>2 DEF RowsKept, Keeps, Columned
<1> QED
  BY <1>1, <1>2, <1>3, PTL DEF KnowledgeIsKept
===============================================================================
