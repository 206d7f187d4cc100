-------------------------------- MODULE Archive --------------------------------
(***************************************************************************)
(* The stored auctions as they age: the retention loop slims their orders  *)
(* to those a stored solution refers to (src/scripts/retention_loop.py),   *)
(* and two scripts fill in the scores that are still missing, from what    *)
(* the row then holds (src/scripts/backfill_scores.py and                  *)
(* backfill_winner_price_scores.py).                                       *)
(* A uid is a record [key, upper]: in JSON it may be spelled in either     *)
(* case; its key is its lower-case form.                                   *)
(***************************************************************************)
EXTENDS Integers, FiniteSets, FiniteSetsExt

CONSTANTS
    Auctions,       \* auction_id
    PolledAt,       \* polled_at of each row
    Stored,         \* raw_auction of each row: the spelled uids of its orders
    Malformed,      \* the rows whose raw_auction cannot be parsed
    Trades,         \* the spelled uids that our solution of the auction fills
    Worth,          \* the surplus of the trade of an order, by the key of its uid
    RetentionAge,   \* RETENTION_AGE_HOURS
    Batch,          \* batch: rows in a page, rows rewritten in a cycle
    MaxPages,       \* MAX_PAGES_PER_CYCLE
    BatchSize,      \* batch_size of the scripts
    Horizon,        \* bound: the time at which the clock stops
    MaxFaults       \* bound: failed cycles and restarts of the loop

ASSUME ArchiveAssumption ==
    /\ Batch \in Nat \ {0} /\ MaxPages \in Nat \ {0} /\ BatchSize \in Nat \ {0}
    /\ PolledAt \in [Auctions -> Nat]

Keys(uids) == {u.key : u \in uids}

\* A row that has orders has those of the auction our solution was computed
\* for, so that one that fills orders fills some of them.
ASSUME FillsAssumption ==
    \A a \in Auctions \ Malformed :
        Stored[a] # {} /\ Trades[a] # {} => Keys(Trades[a]) \cap Keys(Stored[a]) # {}

Columns == {"our_score_wei", "score_vs_winner_prices_wei"}
Null == -1
Never == -1

VARIABLES
    clock,
    raw,            \* raw_auction of each row, without its retained marker
    retained,       \* the rows that carry the marker
    score,          \* column -> auction of the solution -> score or Null
    watermark,      \* of the loop, Never before the first cycle
    cycle,          \* the cycle under way
    script,         \* the script under way: its column and what it has computed
    faults

archiveVars == <<clock, raw, retained, score, watermark, cycle, script, faults>>

Idle == [stage |-> "idle"]
NotRun == [column |-> "none", updates |-> {}]

ArchiveInit ==
    /\ clock = 0 /\ raw = Stored /\ retained = {}
    /\ score = [c \in Columns |-> [a \in Auctions |-> Null]]
    /\ watermark = Never /\ cycle = Idle /\ faults = 0
    /\ script = NotRun

-----------------------------------------------------------------------------
(* The retention loop.                                                     *)

ExtractReferencedUids(a) == Keys(Trades[a])

\* Variant: uids are compared as they are spelled.
RetainRowAsSpelled(orders, a) == orders \cap Trades[a]

\* Only the orders that a solution refers to stay.
RetainRow(orders, a) == {u \in orders : u.key \in ExtractReferencedUids(a)}

Tick ==
    /\ clock < Horizon /\ clock' = clock + 1
    /\ UNCHANGED <<raw, retained, score, watermark, cycle, script, faults>>

BeginCycle ==
    /\ cycle = Idle
    /\ cycle' = [stage |-> "paging", cutoff |-> clock - RetentionAge, mark |-> watermark,
                 pages |-> 0, processed |-> 0]
    /\ UNCHANGED <<clock, raw, retained, score, watermark, script, faults>>

\* The rows of the next page: the oldest ones above the watermark; the
\* database breaks ties as it likes.
NextPages ==
    LET rows == {a \in Auctions : PolledAt[a] < cycle.cutoff /\ PolledAt[a] > cycle.mark}
        size == IF Cardinality(rows) < Batch THEN Cardinality(rows) ELSE Batch
    IN  {page \in kSubset(size, rows) :
            \A a \in page, b \in rows \ page : PolledAt[a] <= PolledAt[b]}

MarkAfter(page) == IF page = {} THEN cycle.mark ELSE Max({PolledAt[a] : a \in page})

\* The rows are rewritten in one transaction; then the next page, or the end
\* of the cycle, which alone hands the watermark back to the loop.
CommitPage ==
    /\ cycle.stage = "paging"
    /\ \E page \in NextPages :
          LET todo == {a \in page : a \notin Malformed /\ a \notin retained}
              processed == cycle.processed + Cardinality(todo)
              last == \/ Cardinality(page) < Batch \/ processed >= Batch
                      \/ cycle.pages + 1 = MaxPages
          IN  /\ raw' = [a \in Auctions |-> IF a \in todo THEN RetainRow(raw[a], a) ELSE raw[a]]
              /\ retained' = retained \cup todo
              /\ watermark' = IF last THEN MarkAfter(page) ELSE watermark
              /\ cycle' = IF last THEN Idle
                          ELSE [cycle EXCEPT !.mark = MarkAfter(page), !.pages = @ + 1,
                                             !.processed = processed]
    /\ UNCHANGED <<clock, score, script, faults>>

\* Variant: the watermark moves with the rows read, committed or not.
FailCycleMarked ==
    /\ cycle.stage = "paging" /\ faults < MaxFaults /\ faults' = faults + 1
    /\ \E page \in NextPages : watermark' = MarkAfter(page)
    /\ cycle' = Idle
    /\ UNCHANGED <<clock, raw, retained, score, script>>

\* The database fails: the page is rolled back and the loop keeps the
\* watermark it had before the cycle.
FailCycle ==
    /\ cycle.stage = "paging" /\ faults < MaxFaults /\ faults' = faults + 1
    /\ cycle' = Idle
    /\ UNCHANGED <<clock, raw, retained, score, watermark, script>>

\* The watermark lives in memory.
RestartLoop ==
    /\ faults < MaxFaults /\ faults' = faults + 1
    /\ cycle' = Idle /\ watermark' = Never
    /\ UNCHANGED <<clock, raw, retained, score, script>>

-----------------------------------------------------------------------------
(* The scores.                                                             *)

\* compute_solution_score over the orders that are known; a trade of an
\* unknown order counts nothing, and a score of nothing is not stored.
SumOfWorth(keys) == MapThenSumSet(LAMBDA k : Worth[k], keys)
ScoreOver(keys, a) ==
    LET sum == SumOfWorth(Keys(Trades[a]) \cap keys)
    IN  IF sum > 0 THEN sum ELSE Null

\* Stored orders are keyed "uid" (persist.py) or there are none
\* (backfill_jsonl.py); no writer uses the "orderUid" the scorer reads as well.
OrdersInRow(a) == IF a \in Malformed THEN {} ELSE Keys(raw[a])

\* External: what the order API answers for the uids of the trades; an order
\* that is expired or could not be fetched is missing.
ApiAnswers(a) == SUBSET Keys(Trades[a])

\* The orders the score of a is computed over: those of the row, or of the
\* API when it has none.
Views(a) == IF OrdersInRow(a) = {} THEN ApiAnswers(a) ELSE {OrdersInRow(a)}

Unscored(c) == {a \in Auctions : score[c][a] = Null}

\* A script reads rows without a score, in no order, and computes; a row is
\* passed over when the API raises or the winner's prices are not known yet.
ScriptReads(c) ==
    /\ script = NotRun
    /\ LET open == Unscored(c)
           size == IF Cardinality(open) < BatchSize THEN Cardinality(open) ELSE BatchSize
       IN  \E picked \in kSubset(size, open) : \E found \in SUBSET picked :
           \E view \in [found -> SUBSET DOMAIN Worth] :
              /\ \A a \in found : view[a] \in Views(a)
              /\ \A a \in picked \ found : OrdersInRow(a) = {} \/ c # "our_score_wei"
              /\ script' = [column |-> c,
                             updates |-> {<<a, ScoreOver(view[a], a)>> : a \in found}]
    /\ UNCHANGED <<clock, raw, retained, score, watermark, cycle, faults>>

NewScore(a, old) ==
    IF \E u \in script.updates : u[1] = a
    THEN (CHOOSE u \in script.updates : u[1] = a)[2] ELSE old

\* One transaction; only the second script looks again whether the score is
\* still missing.
ScriptWrites(c) ==
    /\ script.column = c
    /\ score' = [score EXCEPT ![c] = [a \in Auctions |->
          IF c = "our_score_wei" \/ score[c][a] = Null
          THEN NewScore(a, score[c][a]) ELSE score[c][a]]]
    /\ script' = NotRun
    /\ UNCHANGED <<clock, raw, retained, watermark, cycle, faults>>

ScriptDies ==
    /\ script # NotRun
    /\ script' = NotRun
    /\ UNCHANGED <<clock, raw, retained, score, watermark, cycle, faults>>

-----------------------------------------------------------------------------
ArchiveNext ==
    \/ Tick \/ BeginCycle \/ CommitPage \/ FailCycle \/ RestartLoop
    \/ \E c \in Columns : ScriptReads(c) \/ ScriptWrites(c)
    \/ ScriptDies

\* The loop goes on with its cycle, or begins the next.
LoopStep == BeginCycle \/ CommitPage

-----------------------------------------------------------------------------
(* Properties.                                                             *)

\* A score filled in from the row is the score over the auction as it was
\* polled, whether the row was slimmed before, between the reading and the
\* writing of the script, or not yet: retain_row keeps what backfill needs.
ScoresSurviveSlimming ==
    \A c \in Columns, a \in Auctions :
        (a \notin Malformed /\ Stored[a] # {} /\ score[c][a] # Null)
            => score[c][a] = ScoreOver(Keys(Stored[a]), a)

\* The watermark passes over no moment: of the rows polled at one moment, at
\* least one is slimmed once they are old enough, or cannot be read, through
\* failed pages, full pages and restarts.  For a row that ties with no other it
\* is that row.  Of rows that tie across the end of a page the others may be
\* passed over for good: a restart may bring back the same pages.
Aged(a) == PolledAt[a] < clock - RetentionAge
PolledWith(a) == {b \in Auctions : PolledAt[b] = PolledAt[a]}

AgedRowsSlimmed ==
    \A a \in Auctions : Aged(a) ~> PolledWith(a) \cap (retained \cup Malformed) # {}
=============================================================================
