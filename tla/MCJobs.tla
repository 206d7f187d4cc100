--------------------------------- MODULE MCJobs ---------------------------------
(* Instances of Archive, Competitions and Labels for TLC.  None of the three  *)
(* reads what another writes while it matters (refresh_ghost_set looks at     *)
(* auctions of the last 24 hours, the retention loop at older than 48), so a  *)
(* behaviour runs one of them.                                                *)
EXTENDS Archive, Competitions, Labels, TLC

VARIABLE job

Uid(key, upper) == [key |-> key, upper |-> upper]

\* Four rows, more than a page: one that cannot be parsed, two that tie, the
\* first of them without orders, and orders spelled otherwise than in the
\* trades.  A page may end between the two.
Rows == 1..4
Times == <<0, 1, 1, 2>>
Raws == << {}, {}, {Uid("a", FALSE), Uid("b", TRUE)},
           {Uid("a", TRUE), Uid("b", FALSE), Uid("c", FALSE)} >>
Fills == << {}, {Uid("a", FALSE)}, {Uid("b", FALSE)}, {Uid("a", FALSE), Uid("c", FALSE)} >>
Surplus == [k \in {"a", "b", "c"} |-> IF k = "a" THEN 3 ELSE IF k = "b" THEN 0 ELSE 2]

Entry(honeypot, openSource, tax, proxy) ==
    [honeypot |-> honeypot, cannotBuy |-> "none", openSource |-> openSource, tax |-> tax,
     proxy |-> proxy]
Answers == { Entry("0", "1", 4, "1"), Entry("1", "0", 101, "none") }

vars == <<archiveVars, competitionVars, labelVars, job>>

Init ==
    /\ job \in {"archive", "competitions", "labels"}
    /\ ArchiveInit /\ CompetitionsInit /\ LabelsInit
    /\ job # "labels" => features = <<>>

Next ==
    /\ UNCHANGED job
    /\ \/ job = "archive" /\ ArchiveNext /\ UNCHANGED <<competitionVars, labelVars>>
       \/ job = "competitions" /\ CompetitionsNext /\ UNCHANGED <<archiveVars, labelVars>>
       \/ job = "labels" /\ LabelsNext /\ UNCHANGED <<archiveVars, competitionVars>>

\* The loops, and cron, go on for ever.
Fairness ==
    /\ WF_archiveVars(job = "archive" /\ LoopStep)
    /\ WF_competitionVars(job = "competitions" /\ Refresh)
    /\ WF_competitionVars(job = "competitions" /\ SyncStep)

Spec == Init /\ [][Next]_vars /\ Fairness
=============================================================================
