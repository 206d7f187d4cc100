------------------------------ MODULE Competitions ------------------------------
(***************************************************************************)
(* What becomes of the results of other solvers: sync_competitions fetches *)
(* them for each polled auction (src/scripts/sync_competitions.py), and    *)
(* refresh_ghost_set takes from them which orders never settle             *)
(* (src/scripts/refresh_ghost_set.py).  One auction is polled at each      *)
(* tick, so that the auction id is the time it was polled at.              *)
(***************************************************************************)
EXTENDS Integers, SequencesExt

CONSTANTS
    Uids, Solvers,
    Winner,         \* the solver that wins
    MinSeen,        \* MIN_AUCTIONS_SEEN
    Observation,    \* OBSERVATION_HOURS, in ticks, as are the next four
    Lookback,       \* SETTLEMENT_LOOKBACK_DAYS
    Recent,         \* two REFRESH_INTERVAL_SECONDS
    Stale,          \* STALE_AFTER_DAYS
    Since,          \* --days of the sync
    Limit,          \* --limit of the sync
    MaxAuctions,    \* bound: auctions polled
    MaxErrors       \* bound: fetches that fail by chance, and runs of the sync killed

ASSUME CompetitionsAssumption ==
    /\ Winner \in Solvers
    /\ MinSeen \in Nat \ {0} /\ Limit \in Nat \ {0}
    /\ Recent < Stale /\ Observation <= Lookback

VARIABLES
    auctions,       \* sequence of [orders, answer]: raw_auction and the competition API
    competitors,    \* auction -> the rows of shadow_competitors
    ghosts,         \* the rows of ghost_orders: [uid, detected, refreshed]
    queue,          \* the auctions the sync under way has still to fetch
    errors

competitionVars == <<auctions, competitors, ghosts, queue, errors>>

time == Len(auctions)
Polled == 1..Len(auctions)

CompetitionsInit ==
    auctions = <<>> /\ competitors = <<>> /\ ghosts = {} /\ queue = <<>> /\ errors = 0

Winners(rows) == {i \in DOMAIN rows : rows[i].winner}
SettledIn(a) ==
    UNION {auctions[a].answer.solutions[i].orders : i \in Winners(auctions[a].answer.solutions)}
Settled == UNION {SettledIn(a) : a \in Polled}

-----------------------------------------------------------------------------
(* External: the auctions, and what the API says about them.               *)

Bid(solver, winner, orders) == [solver |-> solver, winner |-> winner, orders |-> orders]

\* The winner settles some of the orders; another solver, or the winner
\* itself, may come first in the response; or the API has no competition
\* (404) or never answers for it.
AnswersFor(orders) ==
    {[status |-> "ok", solutions |-> <<Bid(Winner, TRUE, o)>>] : o \in SUBSET orders}
    \cup {[status |-> "ok", solutions |-> <<Bid(s, FALSE, {}), Bid(Winner, TRUE, o)>>] :
             s \in Solvers, o \in (SUBSET orders) \ {{}}}
    \cup {[status |-> x, solutions |-> <<>>] : x \in {"not_found", "failing"}}

\* An order is in every auction until it has settled, or is left out.
Poll ==
    /\ time < MaxAuctions
    /\ \E orders \in SUBSET (Uids \ Settled) : \E answer \in AnswersFor(orders) :
          auctions' = Append(auctions, [orders |-> orders, answer |-> answer])
    /\ competitors' = Append(competitors, <<>>)
    /\ UNCHANGED <<ghosts, queue, errors>>

-----------------------------------------------------------------------------
(* sync_competitions.                                                      *)

\* The newest auctions without rows, at most Limit of them.
FetchUnsynced ==
    LET unsynced == SelectSeq([i \in 1..time |-> time + 1 - i],
                              LAMBDA i : competitors[i] = <<>> /\ i >= time - Since)
    IN  SubSeq(unsynced, 1, IF Len(unsynced) < Limit THEN Len(unsynced) ELSE Limit)

StartSync ==
    /\ queue = <<>>
    /\ queue' = FetchUnsynced
    /\ UNCHANGED <<auctions, competitors, ghosts, errors>>

\* ON CONFLICT (auction_id, solver_address) DO NOTHING.
Conflicts(rows, r) == \E i \in DOMAIN rows : rows[i].solver = r.solver

InsertCompetitors(rows, solutions) ==
    FoldLeft(LAMBDA kept, r :
        IF Conflicts(kept, r) THEN kept
        ELSE Append(kept, [solver |-> r.solver, winner |-> r.winner, orders |-> r.orders,
                           polledAt |-> time]),
        rows, solutions)

\* The competition arrives, now or after one 429; without solutions nothing
\* is stored, and the auction comes up again.
Fetch ==
    /\ queue # <<>>
    /\ auctions[Head(queue)].answer.status = "ok"
    /\ competitors' = [competitors EXCEPT ![Head(queue)] =
          InsertCompetitors(@, auctions[Head(queue)].answer.solutions)]
    /\ queue' = Tail(queue)
    /\ UNCHANGED <<auctions, ghosts, errors>>

\* 404.
NotFound ==
    /\ queue # <<>>
    /\ auctions[Head(queue)].answer.status = "not_found"
    /\ queue' = Tail(queue)
    /\ UNCHANGED <<auctions, competitors, ghosts, errors>>

\* The API fails for this auction whenever it is asked, or by chance.
FetchFails ==
    /\ queue # <<>>
    /\ \/ auctions[Head(queue)].answer.status = "failing" /\ UNCHANGED errors
       \/ /\ auctions[Head(queue)].answer.status = "ok"
          /\ errors < MaxErrors /\ errors' = errors + 1

\* Variant: an error ends the run.
FetchErrorEndsRun ==
    /\ FetchFails
    /\ queue' = <<>>
    /\ UNCHANGED <<auctions, competitors, ghosts>>

\* Any other error: counted, and on with the next auction.
FetchError ==
    /\ FetchFails
    /\ queue' = Tail(queue)
    /\ UNCHANGED <<auctions, competitors, ghosts>>

\* The script is killed, or the insert fails: main_async swallows it.
SyncEnds ==
    /\ queue # <<>> /\ errors < MaxErrors
    /\ queue' = <<>> /\ errors' = errors + 1
    /\ UNCHANGED <<auctions, competitors, ghosts>>

-----------------------------------------------------------------------------
(* refresh_ghost_set.                                                      *)

SeenIn(u) == {a \in Polled : a >= time - Observation /\ u \in auctions[a].orders}
SettledLately(u) ==
    \E a \in Polled : \E i \in Winners(competitors[a]) :
        u \in competitors[a][i].orders /\ competitors[a][i].polledAt >= time - Lookback
Detected == {u \in Uids : Cardinality(SeenIn(u)) >= MinSeen /\ ~SettledLately(u)}

DetectedAt(u) ==
    IF \E g \in ghosts : g.uid = u THEN (CHOOSE g \in ghosts : g.uid = u).detected ELSE time

\* Rows of the last two intervals that are not detected any more go now.
SelfCorrect(g) == g.refreshed >= time - Recent

\* One transaction: the upsert, the self-correction, the stale cleanup.
Refresh ==
    /\ ghosts' = {g \in {[uid |-> u, detected |-> DetectedAt(u), refreshed |-> time] : u \in Detected}
                      \cup {g \in ghosts : g.uid \notin Detected /\ ~SelfCorrect(g)} :
                    g.refreshed >= time - Stale}
    /\ UNCHANGED <<auctions, competitors, queue, errors>>

-----------------------------------------------------------------------------
CompetitionsNext ==
    \/ Poll \/ StartSync \/ Fetch \/ NotFound \/ FetchError \/ SyncEnds \/ Refresh

\* cron starts the next sync, or the one under way goes on.
SyncStep == StartSync \/ Fetch \/ NotFound \/ FetchError

-----------------------------------------------------------------------------
(* Properties.                                                             *)

\* u settled in a, and the competition of a says so in the first solution of
\* the winner: a later one is lost to the unique key.
PublishedIn(u, a) ==
    /\ a \in Polled /\ auctions[a].answer.status = "ok"
    /\ \E i \in Winners(auctions[a].answer.solutions) :
          /\ u \in auctions[a].answer.solutions[i].orders
          /\ \A j \in 1..(i - 1) : auctions[a].answer.solutions[j].solver
                                       # auctions[a].answer.solutions[i].solver

\* Ways in which the settlement may never be known: its auction left the range
\* of the sync; the newest auctions fill each run and never yield rows.
OutOfReach(a) == a \in Polled /\ competitors[a] = <<>> /\ a < time - Since
Starved == Cardinality({a \in Polled : a >= time - Since /\ auctions[a].answer.status # "ok"}) >= Limit
SettlementLost(u, a) == ~PublishedIn(u, a) \/ OutOfReach(a) \/ Starved

\* After two intervals without a refresh the self-correction passes over the
\* order; the stale cleanup does not.
Overdue(u) == \E g \in ghosts : g.uid = u /\ g.refreshed \in (time - Stale)..(time - Recent - 1)

\* An order that settled does not stay on the list of ghosts, through fetch
\* errors, auctions the API never answers for, killed runs and late syncs: it
\* stays only until the stale cutoff if the refresh was late, and only while
\* auctions still show it if its settlement is not known, because it was in the
\* solution the unique key dropped, say.
SettledGhostsLeave ==
    \A u \in Uids, a \in 1..MaxAuctions :
        <>[](a \in Polled /\ u \in SettledIn(a) =>
                \/ \A g \in ghosts : g.uid # u
                \/ Overdue(u)
                \/ SettlementLost(u, a) /\ Cardinality(SeenIn(u)) >= MinSeen)
=============================================================================
