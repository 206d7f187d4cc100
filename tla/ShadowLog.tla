------------------------------- MODULE ShadowLog -------------------------------
(***************************************************************************)
(* The shadow JSONL file: /solve and the poller append to it (logger.py,   *)
(* shadow_poller.py), the reconciler of a third process reads it, asks the *)
(* CoW API for the winners, and replaces it (reconcile.py).                *)
(*                                                                         *)
(* A line is known by the record it starts with.  A writer that dies in    *)
(* the middle leaves the last line without its newline, complete or not,   *)
(* and whatever is appended next is glued to it.                           *)
(***************************************************************************)
EXTENDS Naturals, Sequences

CONSTANTS
    Records,      \* records that are appended, one for each answer or poll
    MaxKills      \* bound: process deaths, of a writer or of the reconciler

ASSUME LogAssumption == MaxKills \in Nat

\* won: winner_solution is filled in; good: the line parses.
Line == [rec : Records, won : BOOLEAN, good : BOOLEAN]

VARIABLES
    file,         \* the lines of the file
    unfinished,   \* the last line has no newline
    writer,       \* where the append of a record stands
    cycle,        \* where the reconciler stands
    copy, at,     \* the records it read, and the one it looks at
    dirty,        \* it filled a winner in, or dropped a line
    tmp,          \* the .tmp file
    kills,        \* process deaths so far
    touched,      \* history: the file was written to since it was last read
    healthy,      \* history: the last cycle ended without an error
    raced,        \* history: records flushed while a cycle was running
    glued         \* history: records flushed onto an unfinished line

vars == <<file, unfinished, writer, cycle, copy, at, dirty, tmp, kills,
          touched, healthy, raced, glued>>
cycleVars == <<cycle, copy, at, dirty, tmp, healthy>>

TypeOK ==
    /\ file \in Seq(Line) /\ copy \in Seq(Line) /\ tmp \in Seq(Line)
    /\ writer \in [Records -> {"new", "open", "orphan", "logged", "torn"}]
    /\ cycle \in {"asleep", "fetching", "swapping"}
    /\ at \in 1..(Len(copy) + 1)
    /\ {unfinished, dirty, touched, healthy} \subseteq BOOLEAN
    /\ kills \in 0..MaxKills
    /\ raced \subseteq Records /\ glued \subseteq Records

Init ==
    /\ file = <<>> /\ unfinished = FALSE
    /\ writer = [r \in Records |-> "new"]
    /\ cycle = "asleep" /\ copy = <<>> /\ at = 1 /\ dirty = FALSE /\ tmp = <<>>
    /\ kills = 0
    /\ touched = FALSE /\ healthy = FALSE
    /\ raced = {} /\ glued = {}

-----------------------------------------------------------------------------
(* The writers                                                             *)

\* open("a") binds the writer to the file that has the name now.
Open(r) ==
    /\ writer[r] = "new"
    /\ writer' = [writer EXCEPT ![r] = "open"]
    /\ UNCHANGED <<file, unfinished, cycleVars, kills, touched, raced, glued>>

\* What bytes at the end of the file do to it: they spoil an unfinished
\* line, or make a line of their own.
Extended(line) ==
    IF unfinished
    THEN [file EXCEPT ![Len(file)] = [@ EXCEPT !.good = FALSE]]
    ELSE Append(file, line)

\* The buffered line is written when the file is closed.  A poller record
\* may know its winner already.
Flush(r) ==
    /\ writer[r] = "open"
    /\ \E won \in BOOLEAN : file' = Extended([rec |-> r, won |-> won, good |-> TRUE])
    /\ unfinished' = FALSE
    /\ writer' = [writer EXCEPT ![r] = "logged"]
    /\ touched' = TRUE
    /\ raced' = IF cycle # "asleep" THEN raced \cup {r} ELSE raced
    /\ glued' = IF unfinished THEN glued \cup {r} ELSE glued
    /\ UNCHANGED <<cycleVars, kills>>

\* The file was replaced since the writer opened it: the line goes to the
\* one without a name.
FlushOrphan(r) ==
    /\ writer[r] = "orphan"
    /\ writer' = [writer EXCEPT ![r] = "logged"]
    /\ raced' = raced \cup {r}
    /\ UNCHANGED <<file, unfinished, cycleVars, kills, touched, glued>>

\* A container kill or a full disk ends the write before the newline.
Tear(r) ==
    /\ kills < MaxKills /\ writer[r] = "open"
    /\ kills' = kills + 1
    /\ \E whole \in BOOLEAN : file' = Extended([rec |-> r, won |-> FALSE, good |-> whole])
    /\ unfinished' = TRUE
    /\ writer' = [writer EXCEPT ![r] = "torn"]
    /\ touched' = TRUE
    /\ UNCHANGED <<cycleVars, raced, glued>>

-----------------------------------------------------------------------------
(* The reconciler                                                          *)

\* What the first n lines give: a line that does not parse is skipped.
ParsedTo[n \in 0..Len(file)] ==
    IF n = 0 THEN <<>>
    ELSE IF file[n].good THEN Append(ParsedTo[n - 1], file[n]) ELSE ParsedTo[n - 1]

Parsed == ParsedTo[Len(file)]
HasBadLine == \E i \in DOMAIN file : ~file[i].good

\* Variant: dropped lines are no reason to rewrite.
ReadUncounted ==
    /\ cycle = "asleep" /\ file # <<>>
    /\ cycle' = "fetching"
    /\ copy' = Parsed /\ at' = 1 /\ dirty' = FALSE
    /\ touched' = FALSE
    /\ UNCHANGED <<file, unfinished, writer, tmp, healthy, kills, raced, glued>>

\* _parse_jsonl_resilient: everything that parses.
Read ==
    /\ cycle = "asleep" /\ file # <<>>
    /\ cycle' = "fetching"
    /\ copy' = Parsed /\ at' = 1 /\ dirty' = HasBadLine
    /\ touched' = FALSE
    /\ UNCHANGED <<file, unfinished, writer, tmp, healthy, kills, raced, glued>>

\* Variant: records are asked for again, and the answer may be none.
FetchAgain ==
    /\ cycle = "fetching" /\ at \in DOMAIN copy
    /\ at' = at + 1
    /\ \E won \in BOOLEAN : copy' = [copy EXCEPT ![at].won = won]
    /\ dirty' = TRUE
    /\ UNCHANGED <<file, unfinished, writer, cycle, tmp, healthy, kills, touched,
                   raced, glued>>

\* A record without a winner costs an API call, and the loop gives way.
FetchWinner ==
    /\ cycle = "fetching" /\ at \in DOMAIN copy
    /\ at' = at + 1
    /\ \/ ~copy[at].won /\ copy' = [copy EXCEPT ![at].won = TRUE] /\ dirty' = TRUE
       \/ UNCHANGED <<copy, dirty>>
    /\ UNCHANGED <<file, unfinished, writer, cycle, tmp, healthy, kills, touched,
                   raced, glued>>

\* The API call, or the disk, raises: the cycle ends with what it had found.
Abort ==
    /\ cycle = "fetching"
    /\ cycle' = "asleep" /\ healthy' = FALSE
    /\ UNCHANGED <<file, unfinished, writer, copy, at, dirty, tmp, kills, touched,
                   raced, glued>>

FinishClean ==
    /\ cycle = "fetching" /\ at > Len(copy) /\ ~dirty
    /\ cycle' = "asleep" /\ healthy' = TRUE
    /\ UNCHANGED <<file, unfinished, writer, copy, at, dirty, tmp, kills, touched,
                   raced, glued>>

\* Variants: the file itself is truncated for the rewrite; what a cycle that
\* died left in the .tmp file is kept.
RewriteInPlace ==
    /\ cycle = "fetching" /\ at > Len(copy) /\ dirty
    /\ cycle' = "swapping"
    /\ file' = <<>> /\ unfinished' = FALSE /\ tmp' = copy
    /\ UNCHANGED <<writer, copy, at, dirty, healthy, kills, touched, raced, glued>>
WriteTmpAppending ==
    /\ cycle = "fetching" /\ at > Len(copy) /\ dirty
    /\ cycle' = "swapping"
    /\ tmp' = tmp \o copy
    /\ UNCHANGED <<file, unfinished, writer, copy, at, dirty, healthy, kills, touched,
                   raced, glued>>

WriteTmp ==
    /\ cycle = "fetching" /\ at > Len(copy) /\ dirty
    /\ cycle' = "swapping"
    /\ tmp' = copy
    /\ UNCHANGED <<file, unfinished, writer, copy, at, dirty, healthy, kills, touched,
                   raced, glued>>

\* tmp.replace(log_path)
Swap ==
    /\ cycle = "swapping"
    /\ cycle' = "asleep" /\ healthy' = TRUE
    /\ file' = tmp /\ unfinished' = FALSE /\ tmp' = <<>>
    /\ writer' = [r \in Records |-> IF writer[r] = "open" THEN "orphan" ELSE writer[r]]
    /\ UNCHANGED <<copy, at, dirty, kills, touched, raced, glued>>

KillReconciler ==
    /\ kills < MaxKills /\ cycle # "asleep"
    /\ kills' = kills + 1
    /\ cycle' = "asleep" /\ healthy' = FALSE
    /\ UNCHANGED <<file, unfinished, writer, copy, at, dirty, tmp, touched, raced, glued>>

Reconcile == Read \/ FetchWinner \/ Abort \/ FinishClean \/ WriteTmp \/ Swap

Next ==
    \/ \E r \in Records : Open(r) \/ Flush(r) \/ FlushOrphan(r) \/ Tear(r)
    \/ Reconcile \/ KillReconciler

Spec == Init /\ [][Next]_vars

-----------------------------------------------------------------------------
(* Properties                                                              *)

Logged == {r \in Records : writer[r] = "logged"}
Readable == {file[i].rec : i \in {j \in DOMAIN file : file[j].good}}

\* Deaths of the reconciler, API errors and torn lines cost no neighbour: a
\* record that was logged and cannot be read any more was flushed during a
\* cycle, or right behind a torn line.
LossNeedsRace == Logged \ Readable \subseteq raced \cup glued

\* No answer is counted twice, whatever a dead cycle has left behind.
NothingTwice ==
    \A i, j \in DOMAIN file : file[i].rec = file[j].rec => i = j

\* A cycle that ends without an error leaves no line that does not parse,
\* except those written after it read the file.
CycleHeals == cycle = "asleep" /\ healthy /\ ~touched => ~HasBadLine

\* A winner that was filled in stays, and so does the order of the file.
KeptInOrder ==
    /\ \A i \in DOMAIN file, k \in DOMAIN file' :
         file[i].good /\ file[i].won /\ file'[k].rec = file[i].rec => file'[k].won
    /\ \A i, j \in DOMAIN file, k, l \in DOMAIN file' :
         (/\ i < j /\ file[i].good /\ file[j].good
          /\ file'[k].rec = file[i].rec /\ file'[l].rec = file[j].rec) => k < l
WinnersStick == [][KeptInOrder]_vars

\* What SolutionLogger says of its file ("Append-only JSONL log"): a record
\* that was logged stays.  The reconciler rewrites the file from what it had
\* read before its API calls.
AppendOnly == Logged \subseteq Readable \cup glued
=============================================================================
