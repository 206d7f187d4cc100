--------------------------- MODULE ShadowStoreProofs ---------------------------
(***************************************************************************)
(* What holds of ShadowStore for every number of persist tasks and every   *)
(* number of restarts.                                                     *)
(***************************************************************************)
EXTENDS ShadowStore, TLAPS

\* A transaction past its insert has the parent row, committed or its own.
ParentAtHand ==
    /\ \A t \in Tasks : task[t] = "working" => row # "none" \/ holder = t
    /\ poller \in {"commitRow", "skipCommit"} => row # "none" \/ holder = "poller"
    /\ poller = "outcomes" => row # "none"

\* What the poller may still append before it is restarted.
Pass(S) == IF ~seen \/ poller \in S THEN 1 ELSE 0
BeforeOutcomes == {"orders", "posting", "row", "insert", "commitRow", "outcomes"}
BeforeSkip == BeforeOutcomes \cup {"skipRow", "skipInsert", "skipCommit"}

Counted ==
    /\ poller # "watching" => seen
    /\ outcomes + Pass(BeforeOutcomes) <= 1 + restarts
    /\ skips + Pass(BeforeSkip) <= 1 + restarts

\* The inductive invariant.
IInv ==
    /\ TypeOK /\ RaceCostsNothing /\ ScoresHaveWinner /\ ChildrenHaveParent
    /\ ParentAtHand /\ Counted

\* Empty tables satisfy the invariant.
LEMMA InitHolds == ASSUME StoreAssumption, Init PROVE IInv
<1> USE DEF Init
<1>1. TypeOK
  <2>1. MaxRestarts \in Nat
    BY DEF StoreAssumption
  <2>2. /\ outcomes \in 0..(MaxRestarts + 1) /\ skips \in 0..(MaxRestarts + 1)
        /\ restarts \in 0..MaxRestarts /\ deaths \in 0..MaxRestarts
    BY <2>1
  <2>3. task \in [Tasks -> {"idle", "scheduled", "insert", "working", "done", "lost"}]
    OBVIOUS
  <2> QED
    BY <2>2, <2>3 DEF TypeOK
<1>2. RaceCostsNothing /\ ScoresHaveWinner
  BY DEF RaceCostsNothing, ScoresHaveWinner
<1>3. ChildrenHaveParent /\ ParentAtHand
  BY DEF StoreAssumption, ChildrenHaveParent, ParentAtHand
<1>4. Counted
  BY DEF Counted, Pass, BeforeOutcomes, BeforeSkip
<1> QED
  BY <1>1, <1>2, <1>3, <1>4 DEF IInv

\* The typing that the steps need.
LEMMA Typed ==
    ASSUME StoreAssumption, IInv
    PROVE  /\ outcomes \in Nat /\ skips \in Nat /\ restarts \in Nat /\ MaxRestarts \in Nat
           /\ "poller" \notin Tasks /\ "nobody" \notin Tasks
           /\ seen \in BOOLEAN
           /\ task \in [Tasks -> {"idle", "scheduled", "insert", "working", "done", "lost"}]
           /\ scored \subseteq Tasks /\ stored \subseteq Tasks
  BY DEF StoreAssumption, IInv, TypeOK

(***************************************************************************)
(* The steps of the persist tasks.                                         *)
(***************************************************************************)
LEMMA ScheduleHolds == ASSUME StoreAssumption, IInv, NEW t \in Tasks, Schedule(t) PROVE IInv'
<1> USE Typed DEF Schedule, Goto, pollerVars
<1>1. TypeOK'
  BY DEF IInv, TypeOK
<1>2. RaceCostsNothing'
  BY DEF IInv, RaceCostsNothing, ParentAtHand
<1>3. ScoresHaveWinner'
  BY DEF IInv, ScoresHaveWinner
<1>4. ChildrenHaveParent'
  BY DEF IInv, ChildrenHaveParent, ParentAtHand
<1>5. ParentAtHand'
  BY DEF IInv, ChildrenHaveParent, ParentAtHand
<1>6. Counted'
  BY DEF IInv, Counted, Pass
<1> QED
  BY <1>1, <1>2, <1>3, <1>4, <1>5, <1>6 DEF IInv

\* A persist task that looks for the auction row only reads.
LEMMA CheckRowHolds == ASSUME StoreAssumption, IInv, NEW t \in Tasks, CheckRow(t) PROVE IInv'
<1> USE Typed DEF CheckRow, Goto, pollerVars
<1>1. TypeOK'
  BY DEF IInv, TypeOK
<1>2. RaceCostsNothing'
  BY DEF IInv, RaceCostsNothing, ParentAtHand
<1>3. ScoresHaveWinner'
  BY DEF IInv, ScoresHaveWinner
<1>4. ChildrenHaveParent'
  BY DEF IInv, ChildrenHaveParent, ParentAtHand
<1>5. ParentAtHand'
  BY DEF IInv, ChildrenHaveParent, ParentAtHand
<1>6. Counted'
  BY DEF IInv, Counted, Pass
<1> QED
  BY <1>1, <1>2, <1>3, <1>4, <1>5, <1>6 DEF IInv

\* An insert waits for the row lock or takes it; the parent is at hand after it.
LEMMA InsertRowHolds == ASSUME StoreAssumption, IInv, NEW t \in Tasks, InsertRow(t) PROVE IInv'
<1> USE Typed DEF InsertRow, Goto, pollerVars
<1>1. TypeOK'
  BY DEF IInv, TypeOK
<1>2. RaceCostsNothing'
  BY DEF IInv, RaceCostsNothing, ParentAtHand
<1>3. ScoresHaveWinner'
  BY DEF IInv, ScoresHaveWinner
<1>4. ChildrenHaveParent'
  BY DEF IInv, ChildrenHaveParent, ParentAtHand
<1>5. ParentAtHand'
  BY DEF IInv, ChildrenHaveParent, ParentAtHand
<1>6. Counted'
  BY DEF IInv, Counted, Pass
<1> QED
  BY <1>1, <1>2, <1>3, <1>4, <1>5, <1>6 DEF IInv

\* Attempt rows are committed with their parent, or after it.
LEMMA CommitAttemptsHolds == ASSUME StoreAssumption, IInv, NEW t \in Tasks, CommitAttempts(t) PROVE IInv'
<1> USE Typed DEF CommitAttempts, Goto, pollerVars
<1>1. TypeOK'
  BY DEF IInv, TypeOK
<1>2. RaceCostsNothing'
  BY DEF IInv, RaceCostsNothing, ParentAtHand
<1>3. ScoresHaveWinner'
  BY DEF IInv, ScoresHaveWinner
<1>4. ChildrenHaveParent'
  BY DEF IInv, ChildrenHaveParent, ParentAtHand
<1>5. ParentAtHand'
  BY DEF IInv, ChildrenHaveParent, ParentAtHand
<1>6. Counted'
  BY DEF IInv, Counted, Pass
<1> QED
  BY <1>1, <1>2, <1>3, <1>4, <1>5, <1>6 DEF IInv

\* A persist task that fails gives its lock back and commits nothing.
LEMMA FailHolds == ASSUME StoreAssumption, IInv, NEW t \in Tasks, Fail(t) PROVE IInv'
<1> USE Typed DEF Fail, Goto, pollerVars
<1>1. TypeOK'
  BY DEF IInv, TypeOK
<1>2. RaceCostsNothing'
  BY DEF IInv, RaceCostsNothing, ParentAtHand
<1>3. ScoresHaveWinner'
  BY DEF IInv, ScoresHaveWinner
<1>4. ChildrenHaveParent'
  BY DEF IInv, ChildrenHaveParent, ParentAtHand
<1>5. ParentAtHand'
  BY DEF IInv, ChildrenHaveParent, ParentAtHand
<1>6. Counted'
  BY DEF IInv, Counted, Pass
<1> QED
  BY <1>1, <1>2, <1>3, <1>4, <1>5, <1>6 DEF IInv

\* A restart of the API aborts the open transactions of its persist tasks.
LEMMA ApiRestartHolds == ASSUME StoreAssumption, IInv, ApiRestart PROVE IInv'
<1> USE Typed DEF ApiRestart, pollerVars
<1>1. TypeOK'
  BY DEF IInv, TypeOK
<1>2. RaceCostsNothing'
  BY DEF IInv, RaceCostsNothing, ParentAtHand
<1>3. ScoresHaveWinner'
  BY DEF IInv, ScoresHaveWinner
<1>4. ChildrenHaveParent'
  BY DEF IInv, ChildrenHaveParent, ParentAtHand
<1>5. ParentAtHand'
  BY DEF IInv, ChildrenHaveParent, ParentAtHand
<1>6. Counted'
  BY DEF IInv, Counted, Pass
<1> QED
  BY <1>1, <1>2, <1>3, <1>4, <1>5, <1>6 DEF IInv

(***************************************************************************)
(* The steps of the poller.                                                *)
(***************************************************************************)
LEMMA FetchCompetitionHolds == ASSUME StoreAssumption, IInv, FetchCompetition PROVE IInv'
<1> USE Typed DEF FetchCompetition, Seek, KeepPollerBut, taskVars
<1>1. Counted'
  BY DEF IInv, Counted, Pass, BeforeOutcomes, BeforeSkip, InTransaction
<1>2. TypeOK'
  BY <1>1 DEF IInv, TypeOK, Counted, Pass, InTransaction
<1>3. RaceCostsNothing'
  BY DEF IInv, RaceCostsNothing
<1>4. ScoresHaveWinner'
  BY DEF IInv, ScoresHaveWinner
<1>5. ChildrenHaveParent'
  BY DEF IInv, ChildrenHaveParent, ParentAtHand, InTransaction
<1>6. ParentAtHand'
  BY DEF IInv, ChildrenHaveParent, ParentAtHand
<1> QED
  BY <1>1, <1>2, <1>3, <1>4, <1>5, <1>6 DEF IInv

\* A competition whose orders are fetched is one the poller has seen.
LEMMA FetchOrdersHolds == ASSUME StoreAssumption, IInv, FetchOrders PROVE IInv'
<1> USE Typed DEF FetchOrders, Seek, KeepPollerBut, taskVars
<1>1. Counted'
  BY DEF IInv, Counted, Pass, BeforeOutcomes, BeforeSkip, InTransaction
<1>2. TypeOK'
  BY <1>1 DEF IInv, TypeOK, Counted, Pass, InTransaction
<1>3. RaceCostsNothing'
  BY DEF IInv, RaceCostsNothing
<1>4. ScoresHaveWinner'
  BY DEF IInv, ScoresHaveWinner
<1>5. ChildrenHaveParent'
  BY DEF IInv, ChildrenHaveParent, ParentAtHand, InTransaction
<1>6. ParentAtHand'
  BY DEF IInv, ChildrenHaveParent, ParentAtHand
<1> QED
  BY <1>1, <1>2, <1>3, <1>4, <1>5, <1>6 DEF IInv

\* What /solve answers takes no outcome or skip row with it.
LEMMA PostSolveHolds == ASSUME StoreAssumption, IInv, PostSolve PROVE IInv'
<1> USE Typed DEF PostSolve, Seek, Goto, KeepPollerBut, taskVars
<1>1. Counted'
  BY DEF IInv, Counted, Pass, BeforeOutcomes, BeforeSkip, InTransaction
<1>2. TypeOK'
  BY <1>1 DEF IInv, TypeOK, Counted, Pass, InTransaction
<1>3. RaceCostsNothing'
  BY DEF IInv, RaceCostsNothing
<1>4. ScoresHaveWinner'
  BY DEF IInv, ScoresHaveWinner
<1>5. ChildrenHaveParent'
  BY DEF IInv, ChildrenHaveParent, ParentAtHand, InTransaction
<1>6. ParentAtHand'
  BY DEF IInv, ChildrenHaveParent, ParentAtHand
<1> QED
  BY <1>1, <1>2, <1>3, <1>4, <1>5, <1>6 DEF IInv

\* The poller that looks for the auction row only reads.
LEMMA PollerCheckRowHolds == ASSUME StoreAssumption, IInv, PollerCheckRow PROVE IInv'
<1> USE Typed DEF PollerCheckRow, Seek, KeepPollerBut, taskVars
<1>1. Counted'
  BY DEF IInv, Counted, Pass, BeforeOutcomes, BeforeSkip, InTransaction
<1>2. TypeOK'
  BY <1>1 DEF IInv, TypeOK, Counted, Pass, InTransaction
<1>3. RaceCostsNothing'
  BY DEF IInv, RaceCostsNothing
<1>4. ScoresHaveWinner'
  BY DEF IInv, ScoresHaveWinner
<1>5. ChildrenHaveParent'
  BY DEF IInv, ChildrenHaveParent, ParentAtHand, InTransaction
<1>6. ParentAtHand'
  BY DEF IInv, ChildrenHaveParent, ParentAtHand
<1> QED
  BY <1>1, <1>2, <1>3, <1>4, <1>5, <1>6 DEF IInv

\* The insert of the poller waits for the row lock or takes it.
LEMMA PollerInsertRowHolds == ASSUME StoreAssumption, IInv, PollerInsertRow PROVE IInv'
<1> USE Typed DEF PollerInsertRow, Seek, KeepPollerBut, taskVars
<1>1. Counted'
  BY DEF IInv, Counted, Pass, BeforeOutcomes, BeforeSkip, InTransaction
<1>2. TypeOK'
  BY <1>1 DEF IInv, TypeOK, Counted, Pass, InTransaction
<1>3. RaceCostsNothing'
  BY DEF IInv, RaceCostsNothing
<1>4. ScoresHaveWinner'
  BY DEF IInv, ScoresHaveWinner
<1>5. ChildrenHaveParent'
  BY DEF IInv, ChildrenHaveParent, ParentAtHand, InTransaction
<1>6. ParentAtHand'
  BY DEF IInv, ChildrenHaveParent, ParentAtHand
<1> QED
  BY <1>1, <1>2, <1>3, <1>4, <1>5, <1>6 DEF IInv

\* The row of the poller is committed before its outcomes are written.
LEMMA CommitRowHolds == ASSUME StoreAssumption, IInv, CommitRow PROVE IInv'
<1> USE Typed DEF CommitRow, Seek, CommitInsert, KeepPollerBut, taskVars
<1>1. Counted'
  BY DEF IInv, Counted, Pass, BeforeOutcomes, BeforeSkip, InTransaction
<1>2. TypeOK'
  BY <1>1 DEF IInv, TypeOK, Counted, Pass, InTransaction
<1>3. RaceCostsNothing'
  BY DEF IInv, RaceCostsNothing
<1>4. ScoresHaveWinner'
  BY DEF IInv, ScoresHaveWinner
<1>5. ChildrenHaveParent'
  BY DEF IInv, ChildrenHaveParent, ParentAtHand, InTransaction
<1>6. ParentAtHand'
  BY DEF IInv, ChildrenHaveParent, ParentAtHand
<1> QED
  BY <1>1, <1>2, <1>3, <1>4, <1>5, <1>6 DEF IInv

\* One pass of the poller uses up its one pass of outcomes.
LEMMA WriteOutcomesHolds == ASSUME StoreAssumption, IInv, WriteOutcomes PROVE IInv'
<1> USE Typed DEF WriteOutcomes, Seek, AfterOutcomes, KeepPollerBut, taskVars
<1>1. Counted'
  BY DEF IInv, Counted, Pass, BeforeOutcomes, BeforeSkip, InTransaction
<1>2. TypeOK'
  BY <1>1 DEF IInv, TypeOK, Counted, Pass, InTransaction
<1>3. RaceCostsNothing'
  BY DEF IInv, RaceCostsNothing
<1>4. ScoresHaveWinner'
  BY DEF IInv, ScoresHaveWinner
<1>5. ChildrenHaveParent'
  BY DEF IInv, ChildrenHaveParent, ParentAtHand, InTransaction
<1>6. ParentAtHand'
  BY DEF IInv, ChildrenHaveParent, ParentAtHand
<1> QED
  BY <1>1, <1>2, <1>3, <1>4, <1>5, <1>6 DEF IInv

\* A skipped auction is committed with its parent row.
LEMMA CommitSkippedHolds == ASSUME StoreAssumption, IInv, CommitSkipped PROVE IInv'
<1> USE Typed DEF CommitSkipped, Seek, CommitInsert, KeepPollerBut, taskVars
<1>1. Counted'
  BY DEF IInv, Counted, Pass, BeforeOutcomes, BeforeSkip, InTransaction
<1>2. TypeOK'
  BY <1>1 DEF IInv, TypeOK, Counted, Pass, InTransaction
<1>3. RaceCostsNothing'
  BY DEF IInv, RaceCostsNothing
<1>4. ScoresHaveWinner'
  BY DEF IInv, ScoresHaveWinner
<1>5. ChildrenHaveParent'
  BY DEF IInv, ChildrenHaveParent, ParentAtHand, InTransaction
<1>6. ParentAtHand'
  BY DEF IInv, ChildrenHaveParent, ParentAtHand
<1> QED
  BY <1>1, <1>2, <1>3, <1>4, <1>5, <1>6 DEF IInv

\* A poller that fails gives its lock back; the competition stays seen.
LEMMA PollerFailsHolds == ASSUME StoreAssumption, IInv, PollerFails PROVE IInv'
<1> USE Typed DEF PollerFails, Seek, AfterOutcomes, KeepPollerBut, taskVars
<1>1. Counted'
  BY DEF IInv, Counted, Pass, BeforeOutcomes, BeforeSkip, InTransaction
<1>2. TypeOK'
  BY <1>1 DEF IInv, TypeOK, Counted, Pass, InTransaction
<1>3. RaceCostsNothing'
  BY DEF IInv, RaceCostsNothing
<1>4. ScoresHaveWinner'
  BY DEF IInv, ScoresHaveWinner
<1>5. ChildrenHaveParent'
  BY DEF IInv, ChildrenHaveParent, ParentAtHand, InTransaction
<1>6. ParentAtHand'
  BY DEF IInv, ChildrenHaveParent, ParentAtHand
<1> QED
  BY <1>1, <1>2, <1>3, <1>4, <1>5, <1>6 DEF IInv

\* The JSON line is no part of the database.
LEMMA WriteLogHolds == ASSUME StoreAssumption, IInv, WriteLog PROVE IInv'
<1> USE Typed DEF WriteLog, Seek, KeepPollerBut, taskVars
<1>1. Counted'
  BY DEF IInv, Counted, Pass, BeforeOutcomes, BeforeSkip, InTransaction
<1>2. TypeOK'
  BY <1>1 DEF IInv, TypeOK, Counted, Pass, InTransaction
<1>3. RaceCostsNothing'
  BY DEF IInv, RaceCostsNothing
<1>4. ScoresHaveWinner'
  BY DEF IInv, ScoresHaveWinner
<1>5. ChildrenHaveParent'
  BY DEF IInv, ChildrenHaveParent, ParentAtHand, InTransaction
<1>6. ParentAtHand'
  BY DEF IInv, ChildrenHaveParent, ParentAtHand
<1> QED
  BY <1>1, <1>2, <1>3, <1>4, <1>5, <1>6 DEF IInv

\* A restart of the poller forgets what was seen, and is counted.
LEMMA PollerRestartHolds == ASSUME StoreAssumption, IInv, PollerRestart PROVE IInv'
<1> USE Typed DEF PollerRestart, Seek, KeepPollerBut, taskVars
<1>1. Counted'
  BY DEF IInv, Counted, Pass, BeforeOutcomes, BeforeSkip, InTransaction
<1>2. TypeOK'
  <2>1. outcomes' \in 0..(MaxRestarts + 1) /\ skips' \in 0..(MaxRestarts + 1)
    BY DEF IInv, TypeOK
  <2>2. restarts' \in 0..MaxRestarts /\ deaths' \in 0..MaxRestarts
    BY DEF IInv, TypeOK
  <2> QED
    BY <2>1, <2>2 DEF IInv, TypeOK
<1>3. RaceCostsNothing'
  BY DEF IInv, RaceCostsNothing
<1>4. ScoresHaveWinner'
  BY DEF IInv, ScoresHaveWinner
<1>5. ChildrenHaveParent'
  BY DEF IInv, ChildrenHaveParent, ParentAtHand, InTransaction
<1>6. ParentAtHand'
  BY DEF IInv, ChildrenHaveParent, ParentAtHand
<1> QED
  BY <1>1, <1>2, <1>3, <1>4, <1>5, <1>6 DEF IInv

(***************************************************************************)
(* The theorems.                                                           *)
(***************************************************************************)
LEMMA StepHolds == ASSUME StoreAssumption, IInv, [Next]_vars PROVE IInv'
<1>1. CASE Next
  BY <1>1, ScheduleHolds, CheckRowHolds, InsertRowHolds, CommitAttemptsHolds,
         FailHolds, ApiRestartHolds, FetchCompetitionHolds, FetchOrdersHolds,
         PostSolveHolds, PollerCheckRowHolds, PollerInsertRowHolds, CommitRowHolds,
         WriteOutcomesHolds, CommitSkippedHolds, PollerFailsHolds, WriteLogHolds,
         PollerRestartHolds
  DEF Next, TaskStep, PollerStep
<1>2. CASE UNCHANGED vars
  BY <1>2 DEF vars, IInv, TypeOK, RaceCostsNothing, ScoresHaveWinner, ChildrenHaveParent,
              ParentAtHand, Counted, Pass
<1> QED
  BY <1>1, <1>2

\* The inductive invariant, in every state.
THEOREM Invariance == Spec => []IInv
<1>1. Init => IInv
  BY StoreAssumption, InitHolds
<1>2. IInv /\ [Next]_vars => IInv'
  BY StoreAssumption, StepHolds
<1> QED
  BY <1>1, <1>2, PTL DEF Spec

\* Every variable of the store model keeps its type.
THEOREM TypeCorrect == Spec => []TypeOK
<1>1. IInv => TypeOK
  BY StoreAssumption, Typed DEF IInv
<1> QED
  BY <1>1, StoreAssumption, Invariance, PTL

\* However many persist tasks race with the poller for the auction row
\* (persist.py 159-181), a task that meets no fault and no restart keeps its rows.
THEOREM RacesCostNothing == Spec => []RaceCostsNothing
<1>1. IInv => RaceCostsNothing
  BY StoreAssumption, Typed DEF IInv
<1> QED
  BY <1>1, StoreAssumption, Invariance, PTL

\* An auction gets at most one batch of token outcomes, and one skipped
\* record, for each life of the poller process (its seen set).
THEOREM DuplicatesCostARestart == Spec => []DuplicatesNeedRestart
<1>1. IInv => DuplicatesNeedRestart
  BY StoreAssumption, Typed DEF IInv, Counted, Pass, DuplicatesNeedRestart
<1> QED
  BY <1>1, StoreAssumption, Invariance, PTL

\* No solution is scored at the prices of a winner that is not stored.
THEOREM ScoresBelongToWinners == Spec => []ScoresHaveWinner
<1>1. IInv => ScoresHaveWinner
  BY StoreAssumption, Typed DEF IInv
<1> QED
  BY <1>1, StoreAssumption, Invariance, PTL

\* No child row is ever committed without its auction row, and only an
\* open transaction holds the uncommitted one.
THEOREM ParentsComeFirst == Spec => []ChildrenHaveParent
<1>1. IInv => ChildrenHaveParent
  BY StoreAssumption, Typed DEF IInv
<1> QED
  BY <1>1, StoreAssumption, Invariance, PTL
=============================================================================
