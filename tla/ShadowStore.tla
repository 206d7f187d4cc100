------------------------------ MODULE ShadowStore ------------------------------
(***************************************************************************)
(* Who writes what about one auction into the shadow database: the persist *)
(* tasks of /solve (persist_shadow_attempt) and the shadow poller          *)
(* (poll_once, persist_winner_and_outcomes, persist_skipped_auction), in   *)
(* two processes that both want to create the shadow_auctions row.         *)
(*                                                                         *)
(* Postgres, as the code uses it: a transaction reads what is committed; an*)
(* insert of a key that another open transaction has inserted waits for    *)
(* that one to end; a child row needs its parent.                          *)
(***************************************************************************)
EXTENDS Naturals, FiniteSets

CONSTANTS
    Tasks,           \* persist tasks: one for each answered /solve
    MaxRestarts      \* bound: restarts of either process

ASSUME StoreAssumption ==
    /\ MaxRestarts \in Nat
    /\ {"poller", "nobody"} \cap Tasks = {}

VARIABLES
    task,        \* where a persist task stands
    poller,      \* where the poller stands
    seen,        \* the auction is in the seen set of the poller
    fetched,     \* the poller has the orders of the auction
    limited,     \* the order fetch was rate limited
    row,         \* who created the committed shadow_auctions row, or "none"
    holder,      \* who has an uncommitted insert of that row
    stored,      \* tasks whose shadow_solutions rows are committed
    scored,      \* ... and have a score at the winner's prices
    winner,      \* the shadow_winners row exists
    outcomes,    \* batches of token_outcomes rows
    skips,       \* "poller-skipped" rows
    faulted,     \* history: tasks that met a database fault or a restart
    restarts,    \* history: restarts of the poller
    deaths       \* restarts of the API process

vars == <<task, poller, seen, fetched, limited, row, holder, stored, scored,
          winner, outcomes, skips, faulted, restarts, deaths>>
pollerVars == <<poller, seen, fetched, limited, outcomes, skips, winner, scored>>
taskVars == <<task, stored, faulted, deaths>>

InTransaction == {"row", "insert", "commitRow", "outcomes", "skipRow", "skipInsert",
                  "skipCommit"}

TypeOK ==
    /\ task \in [Tasks -> {"idle", "scheduled", "insert", "working", "done", "lost"}]
    /\ poller \in InTransaction \cup {"watching", "orders", "posting", "log"}
    /\ {seen, fetched, limited, winner} \subseteq BOOLEAN
    /\ row \in {"none", "solve", "poller"}
    /\ holder \in Tasks \cup {"poller", "nobody"}
    /\ stored \subseteq Tasks /\ scored \subseteq Tasks /\ faulted \subseteq Tasks
    /\ outcomes \in 0..(MaxRestarts + 1) /\ skips \in 0..(MaxRestarts + 1)
    /\ restarts \in 0..MaxRestarts /\ deaths \in 0..MaxRestarts

Init ==
    /\ task = [t \in Tasks |-> "idle"]
    /\ poller = "watching"
    /\ seen = FALSE /\ fetched = FALSE /\ limited = FALSE /\ winner = FALSE
    /\ row = "none" /\ holder = "nobody"
    /\ stored = {} /\ scored = {} /\ faulted = {}
    /\ outcomes = 0 /\ skips = 0
    /\ restarts = 0 /\ deaths = 0

-----------------------------------------------------------------------------
(* The persist task of a /solve                                            *)

Goto(t, s) == task' = [task EXCEPT ![t] = s]

\* The driver's request for the auction was answered.
Schedule(t) ==
    /\ task[t] = "idle"
    /\ Goto(t, "scheduled")
    /\ UNCHANGED <<pollerVars, row, holder, stored, faulted, restarts, deaths>>

CheckRow(t) ==
    /\ task[t] = "scheduled"
    /\ Goto(t, IF row = "none" THEN "insert" ELSE "working")
    /\ UNCHANGED <<pollerVars, row, holder, stored, faulted, restarts, deaths>>

\* Variant: the IntegrityError is not caught here.
InsertRowUnguarded(t) ==
    /\ task[t] = "insert" /\ holder = "nobody"
    /\ \/ row = "none" /\ holder' = t /\ Goto(t, "working")
       \/ row # "none" /\ UNCHANGED holder /\ Goto(t, "lost")
    /\ UNCHANGED <<pollerVars, row, stored, faulted, restarts, deaths>>

\* The flush waits for a concurrent insert to end.  If that one committed,
\* the IntegrityError is caught and the transaction rolled back.
InsertRow(t) ==
    /\ task[t] = "insert" /\ holder = "nobody"
    /\ \/ row = "none" /\ holder' = t
       \/ row # "none" /\ UNCHANGED holder
    /\ Goto(t, "working")
    /\ UNCHANGED <<pollerVars, row, stored, faulted, restarts, deaths>>

\* Scores and feasibility verdicts are computed with the transaction open;
\* then all rows of the task are committed.
CommitAttempts(t) ==
    /\ task[t] = "working"
    /\ IF row # "none" \/ holder = t
       THEN /\ Goto(t, "done")
            /\ stored' = stored \cup {t}
       ELSE Goto(t, "lost") /\ UNCHANGED stored       \* no parent row
    /\ row' = IF holder = t THEN "solve" ELSE row
    /\ holder' = IF holder = t THEN "nobody" ELSE holder
    /\ UNCHANGED <<pollerVars, faulted, restarts, deaths>>

\* Variant: the session is not closed when the task fails.
FailAndLeak(t) ==
    /\ task[t] \in {"scheduled", "insert", "working"}
    /\ Goto(t, "lost")
    /\ faulted' = faulted \cup {t}
    /\ UNCHANGED <<pollerVars, row, holder, stored, restarts, deaths>>

\* A database error: persist_shadow_attempt_safe swallows it, the session
\* rolls back, and nothing of the task is kept.
Fail(t) ==
    /\ task[t] \in {"scheduled", "insert", "working"}
    /\ Goto(t, "lost")
    /\ faulted' = faulted \cup {t}
    /\ holder' = IF holder = t THEN "nobody" ELSE holder
    /\ UNCHANGED <<pollerVars, row, stored, restarts, deaths>>

\* The API process dies with every task it had.
ApiRestart ==
    /\ deaths < MaxRestarts
    /\ deaths' = deaths + 1
    /\ task' = [t \in Tasks |-> IF task[t] \in {"scheduled", "insert", "working"}
                                THEN "lost" ELSE task[t]]
    /\ faulted' = faulted \cup {t \in Tasks : task[t] \in {"scheduled", "insert", "working"}}
    /\ holder' = IF holder = "poller" THEN holder ELSE "nobody"
    /\ UNCHANGED <<pollerVars, row, stored, restarts>>

-----------------------------------------------------------------------------
(* The poller                                                              *)

Seek(s) == poller' = s
KeepPollerBut == <<seen, outcomes, skips, winner, scored>>

\* Variant: the seen set is filled when the auction has been processed.
FetchUnseen ==
    /\ poller = "watching" /\ ~seen
    /\ fetched' = FALSE /\ limited' = FALSE
    /\ \E s \in {"orders", "row"} : Seek(s)
    /\ UNCHANGED <<KeepPollerBut, taskVars, row, holder, restarts>>

\* solver_competition/latest names the auction, with orders or without.
FetchCompetition ==
    /\ poller = "watching" /\ ~seen
    /\ seen' = TRUE
    /\ fetched' = FALSE /\ limited' = FALSE
    /\ \E s \in {"orders", "row"} : Seek(s)
    /\ UNCHANGED <<outcomes, skips, winner, scored, taskVars, row, holder, restarts>>

FetchOrders ==
    /\ poller = "orders"
    /\ \/ fetched' = TRUE /\ Seek("posting") /\ UNCHANGED limited
       \/ limited' = TRUE /\ Seek("row") /\ UNCHANGED fetched
       \/ Seek("row") /\ UNCHANGED <<fetched, limited>>
    /\ UNCHANGED <<KeepPollerBut, taskVars, row, holder, restarts>>

\* POST /solve: the answer schedules a persist task, or there is none.
PostSolve ==
    /\ poller = "posting"
    /\ \/ \E t \in Tasks : task[t] = "idle" /\ Goto(t, "scheduled")
       \/ UNCHANGED task
    /\ Seek("row")
    /\ UNCHANGED <<KeepPollerBut, fetched, limited, row, holder, stored, faulted,
                   restarts, deaths>>

\* check-then-insert of the parent row, before the winner and before a
\* skipped record.
PollerCheckRow ==
    /\ \/ poller = "row" /\ Seek(IF row = "none" THEN "insert" ELSE "outcomes")
       \/ poller = "skipRow" /\ Seek(IF row = "none" THEN "skipInsert" ELSE "skipCommit")
    /\ UNCHANGED <<KeepPollerBut, fetched, limited, taskVars, row, holder, restarts>>

PollerInsertRow ==
    /\ holder = "nobody"
    /\ \/ row = "none" /\ holder' = "poller"
       \/ row # "none" /\ UNCHANGED holder
    /\ \/ poller = "insert" /\ Seek("commitRow")
       \/ poller = "skipInsert" /\ Seek("skipCommit")
    /\ UNCHANGED <<KeepPollerBut, fetched, limited, taskVars, row, restarts>>

CommitInsert ==
    /\ row' = IF holder = "poller" THEN "poller" ELSE row
    /\ holder' = IF holder = "poller" THEN "nobody" ELSE holder

CommitRow ==
    /\ poller = "commitRow"
    /\ CommitInsert
    /\ Seek("outcomes")
    /\ UNCHANGED <<KeepPollerBut, fetched, limited, taskVars, restarts>>

AfterOutcomes == IF limited THEN "skipRow" ELSE "log"

\* Winner (if the competition names one, and it is not stored yet), token
\* outcomes, and a score at the winner's prices for every solved row that is
\* visible, if winner, prices and orders are known.
WriteOutcomes ==
    /\ poller = "outcomes"
    /\ outcomes' = outcomes + 1
    /\ \E found \in BOOLEAN :
         /\ winner' = (winner \/ found)
         /\ \/ found /\ fetched /\ scored' = scored \cup stored
            \/ UNCHANGED scored
    /\ Seek(AfterOutcomes)
    /\ UNCHANGED <<seen, skips, fetched, limited, taskVars, row, holder, restarts>>

CommitSkipped ==
    /\ poller = "skipCommit"
    /\ CommitInsert
    /\ skips' = skips + 1
    /\ Seek("watching")
    /\ UNCHANGED <<seen, outcomes, winner, scored, fetched, limited, taskVars, restarts>>

\* A database error in one of the poller's transactions is swallowed.
PollerFails ==
    /\ poller \in InTransaction
    /\ Seek(IF poller \in {"row", "insert", "commitRow", "outcomes"} THEN AfterOutcomes
            ELSE "watching")
    /\ holder' = IF holder = "poller" THEN "nobody" ELSE holder
    /\ UNCHANGED <<KeepPollerBut, fetched, limited, taskVars, row, restarts>>

\* The JSONL line; an I/O error ends the cycle the same way.
WriteLog ==
    /\ poller = "log"
    /\ Seek("watching")
    /\ UNCHANGED <<KeepPollerBut, fetched, limited, taskVars, row, holder, restarts>>

\* The seen set lives in memory.
PollerRestart ==
    /\ restarts < MaxRestarts
    /\ restarts' = restarts + 1
    /\ Seek("watching")
    /\ seen' = FALSE
    /\ holder' = IF holder = "poller" THEN "nobody" ELSE holder
    /\ UNCHANGED <<fetched, limited, outcomes, skips, winner, scored, taskVars, row>>

-----------------------------------------------------------------------------

TaskStep(t) == CheckRow(t) \/ InsertRow(t) \/ CommitAttempts(t)
PollerStep ==
    \/ FetchOrders \/ PostSolve \/ PollerCheckRow \/ PollerInsertRow
    \/ CommitRow \/ WriteOutcomes \/ CommitSkipped \/ WriteLog

Next ==
    \/ \E t \in Tasks : Schedule(t) \/ TaskStep(t) \/ Fail(t)
    \/ FetchCompetition \/ PollerStep \/ PollerFails
    \/ ApiRestart \/ PollerRestart

Spec == Init /\ [][Next]_vars

\* Postgres answers, a verdict is given up after ten seconds, HTTP calls have
\* timeouts, and a lock that is free is granted.
Fairness == WF_vars(PollerStep) /\ \A t \in Tasks : WF_vars(TaskStep(t))

FairSpec == Spec /\ Fairness

-----------------------------------------------------------------------------
(* Properties                                                              *)

\* Racing for the parent row costs no data: a persist task that lost its
\* rows met a database fault or a restart, never a duplicate key, and never
\* a missing parent.
RaceCostsNothing == \A t \in Tasks : task[t] = "lost" => t \in faulted

\* Token outcomes are appended without a key.  What keeps an auction from
\* being counted twice is the seen set alone: every further batch was paid
\* for by a restart of the poller.
DuplicatesNeedRestart == outcomes <= 1 + restarts /\ skips <= 1 + restarts

\* A score at the winner's prices belongs to a stored row of an auction
\* whose winner is stored.
ScoresHaveWinner == scored \subseteq stored /\ (scored # {} => winner)

\* Whatever is committed hangs off a committed auction row, and a row that
\* is not committed yet belongs to a transaction that is still open.
ChildrenHaveParent ==
    /\ stored # {} \/ winner \/ outcomes > 0 \/ skips > 0 => row # "none"
    /\ holder \in Tasks => task[holder] = "working" /\ row = "none"
    /\ holder = "poller" => poller \in {"commitRow", "skipCommit"} /\ row = "none"

\* No writer waits for ever for the other's transaction.
WritersFinish ==
    /\ \A t \in Tasks : task[t] = "scheduled" ~> task[t] \in {"done", "lost"}
    /\ poller # "watching" ~> poller = "watching"

\* What the model says of the column ("NULL until backfill /
\* winner-persistence has run"): when the poller's pass has scored rows of
\* the auction, and everybody is done, no stored row is left without a
\* score.  A task that commits after the pass is passed over.
SolvedRowsAreScored ==
    LET over == /\ poller = "watching"
                /\ \A t \in Tasks : task[t] \in {"idle", "done", "lost"}
    IN  over /\ scored # {} => stored \subseteq scored
=============================================================================
