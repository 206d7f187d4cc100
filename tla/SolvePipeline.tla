----------------------------- MODULE SolvePipeline -----------------------------
(***************************************************************************)
(* POST /solve, from the arrival of an auction to the delivery of the      *)
(* answer: the handler of src/main.py and the strategy loop, composer,     *)
(* EBBO check and feasibility gate of src/solver/orchestrator.py.          *)
(*                                                                         *)
(* Requests interleave at the awaits of the one asyncio loop; a segment    *)
(* between two awaits is one action.  What a strategy, the composer or a   *)
(* validator computes is abstracted to its outcome: a solution is known    *)
(* by who built it (by) and whose trades it settles (parts).               *)
(***************************************************************************)
EXTENDS Naturals, Sequences

CONSTANTS
    Requests,        \* the auctions the driver and the poller send
    Chain,           \* strategy names, in the order they are tried
    SalvageOrder,    \* _SALVAGE_ORDER
    Naive,           \* name of the strategy that is never submitted
    Unparsable,      \* strategies whose dumped solution fails re-validation
    RunAll,          \* run_all_strategies
    ComposeEnabled,  \* compose
    EdgePresent,     \* edge.matching can be imported
    EbboEnabled,     \* ebbo_multicall is not None
    GateEnabled,     \* feasibility_gate is not None
    MaxCrashes       \* bound: process deaths explored in one behaviour

Strategies == {Chain[i] : i \in DOMAIN Chain}
Salvageable == {SalvageOrder[i] : i \in DOMAIN SalvageOrder}

\* Names under which the orchestrator files records that are no strategy's.
Composer == "composer"
EbboRejected == "ebbo-rejected"
GateRejected == "feasibility-rejected"

ASSUME ConfigAssumption ==
    /\ Chain \in Seq(STRING) /\ Chain # <<>>
    /\ \A i, j \in DOMAIN Chain : Chain[i] = Chain[j] => i = j
    /\ SalvageOrder \in Seq(STRING)
    /\ Naive \notin Salvageable
    /\ {Composer, EbboRejected, GateRejected} \cap (Strategies \cup Salvageable) = {}
    /\ {RunAll, ComposeEnabled, EdgePresent, EbboEnabled, GateEnabled} \subseteq BOOLEAN
    /\ MaxCrashes \in Nat

Solutions == [by : Strategies \cup {Composer}, parts : SUBSET Strategies]
NoSolution == [by |-> "none", parts |-> {}]
Own(n) == [by |-> n, parts |-> {n}]

AttemptRecord ==
    [strategy : Strategies \cup {Composer, EbboRejected, GateRejected},
     status   : {"solved", "no_solution", "error", "timeout", "rejected"},
     solution : Solutions \cup {NoSolution}]

Response ==
    [kind     : {"none", "solution", "empty", "http4xx", "http500"},
     via      : {"none", "early", "pipeline", "salvage", "error"},
     solution : Solutions \cup {NoSolution}]
NoResponse == [kind |-> "none", via |-> "none", solution |-> NoSolution]

VARIABLES
    pc,         \* where the handler of a request stands
    idx,        \* index in Chain of the strategy being awaited
    attempts,   \* the list main.py shares with the orchestrator
    winning,    \* strategies in winning_solutions (their order is Chain's)
    todo,       \* composable candidates the fallback loop has not tried
    current,    \* the solution under validation
    response,   \* what the handler returned
    bg,         \* the background persist task of the request
    jsonl,      \* requests with a line in the shadow JSONL log
    crashes,    \* number of process deaths so far
    proved      \* history: solutions the gate gave a True verdict

vars == <<pc, idx, attempts, winning, todo, current, response, bg, jsonl,
          crashes, proved>>

Phases == {"idle", "parsing", "strategy", "compose", "ebbo", "gate",
           "replying", "closed", "dead"}

TypeOK ==
    /\ pc \in [Requests -> Phases]
    /\ idx \in [Requests -> DOMAIN Chain]
    /\ attempts \in [Requests -> Seq(AttemptRecord)]
    /\ winning \in [Requests -> SUBSET Strategies]
    /\ todo \in [Requests -> SUBSET Strategies]
    /\ current \in [Requests -> Solutions \cup {NoSolution}]
    /\ response \in [Requests -> Response]
    /\ bg \in [Requests -> {"none", "pending", "done", "lost"}]
    /\ jsonl \subseteq Requests
    /\ crashes \in 0..MaxCrashes
    /\ proved \in [Requests -> SUBSET (Solutions \cup {NoSolution})]

Init ==
    /\ pc = [r \in Requests |-> "idle"]
    /\ idx = [r \in Requests |-> 1]
    /\ attempts = [r \in Requests |-> <<>>]
    /\ winning = [r \in Requests |-> {}]
    /\ todo = [r \in Requests |-> {}]
    /\ current = [r \in Requests |-> NoSolution]
    /\ response = [r \in Requests |-> NoResponse]
    /\ bg = [r \in Requests |-> "none"]
    /\ jsonl = {}
    /\ crashes = 0
    /\ proved = [r \in Requests |-> {}]

-----------------------------------------------------------------------------
(* Answering: schedule the persist task, write the JSONL line, return.     *)

Record(r, name, status, sol) ==
    attempts' = [attempts EXCEPT ![r] =
        Append(@, [strategy |-> name, status |-> status, solution |-> sol])]

Return(r, kind, via, sol) ==
    /\ response' = [response EXCEPT ![r] =
                      [kind |-> kind, via |-> via, solution |-> sol]]
    /\ pc' = [pc EXCEPT ![r] = "replying"]

\* An answer given before the orchestrator ran: no persist task, no line.
ReturnEarly(r, kind) ==
    /\ Return(r, kind, "early", NoSolution)
    /\ UNCHANGED <<bg, jsonl>>

\* An empty answer that is persisted but not logged to the JSONL file.
ReturnUnlogged(r, via) ==
    /\ Return(r, "empty", via, NoSolution)
    /\ bg' = [bg EXCEPT ![r] = "pending"]
    /\ UNCHANGED jsonl

\* Variant: a failing log write is swallowed.
ReturnUnguarded(r, kind, via, sol) ==
    /\ Return(r, kind, via, sol)
    /\ bg' = [bg EXCEPT ![r] = "pending"]
    /\ \/ jsonl' = jsonl \cup {r}
       \/ UNCHANGED jsonl

\* SolutionLogger.record raises on an I/O error; it is not guarded, so the
\* framework answers 500 and drops the background tasks with the response.
ReturnLogged(r, kind, via, sol) ==
    \/ /\ Return(r, kind, via, sol)
       /\ bg' = [bg EXCEPT ![r] = "pending"]
       /\ jsonl' = jsonl \cup {r}
    \/ /\ Return(r, "http500", via, NoSolution)
       /\ UNCHANGED <<bg, jsonl>>

-----------------------------------------------------------------------------
(* The head of the handler                                                 *)

Receive(r) ==
    /\ pc[r] = "idle"
    /\ pc' = [pc EXCEPT ![r] = "parsing"]
    /\ UNCHANGED <<idx, attempts, winning, todo, current, response, bg, jsonl,
                   crashes, proved>>

\* Invalid JSON (400) or an auction that fails its schema (422).
RejectBody(r) ==
    /\ pc[r] = "parsing"
    /\ ReturnEarly(r, "http4xx")
    /\ UNCHANGED <<idx, attempts, winning, todo, current, crashes, proved>>

\* A quote-only request (id is null), or a deadline that leaves no budget.
DeclineAuction(r) ==
    /\ pc[r] = "parsing"
    /\ ReturnEarly(r, "empty")
    /\ UNCHANGED <<idx, attempts, winning, todo, current, crashes, proved>>

StartSolve(r) ==
    /\ pc[r] = "parsing"
    /\ pc' = [pc EXCEPT ![r] = "strategy"]
    /\ UNCHANGED <<idx, attempts, winning, todo, current, response, bg, jsonl,
                   crashes, proved>>

-----------------------------------------------------------------------------
(* The strategy loop                                                       *)

\* Variant: the loop always stops at a winner.
LeavesAtAnyWinner(r, won) == idx[r] = Len(Chain) \/ won

\* Leave the loop after the last strategy, or at the first winner when
\* run_all_strategies is off.
LeavesLoop(r, won) == idx[r] = Len(Chain) \/ (won /\ ~RunAll)

FinishStrategy(r, status) ==
    LET name == Chain[idx[r]]
        won  == status = "solved"
    IN  /\ pc[r] = "strategy"
        /\ Record(r, name, status, IF won THEN Own(name) ELSE NoSolution)
        /\ winning' = [winning EXCEPT ![r] = IF won THEN @ \cup {name} ELSE @]
        /\ IF LeavesLoop(r, won)
           THEN pc' = [pc EXCEPT ![r] = "compose"] /\ UNCHANGED idx
           ELSE idx' = [idx EXCEPT ![r] = @ + 1] /\ UNCHANGED pc
        /\ UNCHANGED <<todo, current, response, bg, jsonl, crashes, proved>>

-----------------------------------------------------------------------------
(* Composition and the fallback chain                                      *)

\* Variant: naive is not excluded.
ComposableAll(r) == winning[r]

Composable(r) == winning[r] \ {Naive}

Position(n) == CHOOSE i \in DOMAIN Chain : Chain[i] = n
IsFirst(n, S) == n \in S /\ \A m \in S : Position(n) <= Position(m)

\* Put the next untried candidate under validation, or answer NoSolution
\* when none is left.
NextCandidate(r, candidates) ==
    \/ /\ candidates = {}
       /\ ReturnLogged(r, "empty", "pipeline", NoSolution)
       /\ todo' = [todo EXCEPT ![r] = {}]
       /\ current' = [current EXCEPT ![r] = NoSolution]
    \/ \E n \in candidates :
         /\ IsFirst(n, candidates)
         /\ todo' = [todo EXCEPT ![r] = candidates \ {n}]
         /\ current' = [current EXCEPT ![r] = Own(n)]
         /\ pc' = [pc EXCEPT ![r] = "ebbo"]
         /\ UNCHANGED <<response, bg, jsonl>>

Composes(r) ==
    /\ ComposeEnabled /\ EdgePresent
    /\ \E m, n \in Composable(r) : m # n

\* Composition is off, needs two candidates, has no edge module to call
\* (ImportError), or compose() returned None.
SkipCompose(r) ==
    /\ pc[r] = "compose"
    /\ NextCandidate(r, Composable(r))
    /\ UNCHANGED <<idx, attempts, winning, crashes, proved>>

\* compose() merged some of the candidates; they stay as the fallback chain.
ComposeMerged(r) ==
    /\ pc[r] = "compose"
    /\ Composes(r)
    /\ \E parts \in (SUBSET Composable(r)) \ {{}} :
         LET composed == [by |-> Composer, parts |-> parts]
         IN  /\ Record(r, Composer, "solved", composed)
             /\ current' = [current EXCEPT ![r] = composed]
    /\ todo' = [todo EXCEPT ![r] = Composable(r)]
    /\ pc' = [pc EXCEPT ![r] = "ebbo"]
    /\ UNCHANGED <<idx, winning, response, bg, jsonl, crashes, proved>>

\* Anything but an ImportError leaves solve() and is caught in main.py.
ComposeRaises(r) ==
    /\ pc[r] = "compose"
    /\ Composes(r)
    /\ ReturnUnlogged(r, "error")
    /\ UNCHANGED <<idx, attempts, winning, todo, current, crashes, proved>>

-----------------------------------------------------------------------------
(* Validation of a candidate: EBBO fails open, the gate fails closed.      *)

EbboVerdicts == IF EbboEnabled THEN {"passes", "violation", "error"} ELSE {"off"}
EbboLetsThrough(v) == v # "violation"

GateVerdicts ==
    IF GateEnabled THEN {"feasible", "phantom", "unknown", "timeout", "error"}
                   ELSE {"off"}

\* Variant: the gate stops proven phantoms only.
GateStopsPhantoms(v) == v # "phantom"

GateLetsThrough(v) == v \in {"feasible", "off"}

\* Variant: the first rejection ends the fallback chain.
RejectAndGiveUp(r, name) ==
    /\ Record(r, name, "rejected", current[r])
    /\ NextCandidate(r, {})

RejectCurrent(r, name) ==
    /\ Record(r, name, "rejected", current[r])
    /\ NextCandidate(r, todo[r])

EbboValidate(r, v) ==
    /\ pc[r] = "ebbo"
    /\ \/ /\ EbboLetsThrough(v)
          /\ pc' = [pc EXCEPT ![r] = "gate"]
          /\ UNCHANGED <<attempts, todo, current, response, bg, jsonl>>
       \/ /\ ~EbboLetsThrough(v)
          /\ RejectCurrent(r, EbboRejected)
    /\ UNCHANGED <<idx, winning, crashes, proved>>

FeasibilityValidate(r, v) ==
    /\ pc[r] = "gate"
    /\ proved' = [proved EXCEPT ![r] = IF v = "feasible" THEN @ \cup {current[r]} ELSE @]
    /\ \/ /\ GateLetsThrough(v)
          /\ ReturnLogged(r, "solution", "pipeline", current[r])
          /\ UNCHANGED <<attempts, todo, current>>
       \/ /\ ~GateLetsThrough(v)
          /\ RejectCurrent(r, GateRejected)
    /\ UNCHANGED <<idx, winning, crashes>>

-----------------------------------------------------------------------------
(* The outer wait_for: at any await of solve() the budget may run out.     *)

\* Variant: the timer covers the strategies only.
AwaitingStrategies(r) == pc[r] = "strategy"

\* Variant: the timer is still armed when the handler has returned.
AwaitingReply(r) == pc[r] \in {"strategy", "replying"}

Awaiting(r) ==
    \/ pc[r] = "strategy"
    \/ pc[r] = "ebbo" /\ EbboEnabled
    \/ pc[r] = "gate" /\ GateEnabled

HasSolved(r, n) ==
    \E i \in DOMAIN attempts[r] :
        attempts[r][i].strategy = n /\ attempts[r][i].status = "solved"

\* Variant: an unreadable record ends the search.
CompletedUntilUnreadable(r) ==
    {k \in DOMAIN SalvageOrder :
        /\ HasSolved(r, SalvageOrder[k])
        /\ \A j \in 1..k : SalvageOrder[j] \in Unparsable => ~HasSolved(r, SalvageOrder[j])}

\* Positions in SalvageOrder of the completed solutions that re-validate.
Completed(r) ==
    {k \in DOMAIN SalvageOrder :
        SalvageOrder[k] \notin Unparsable /\ HasSolved(r, SalvageOrder[k])}

SolveTimeout(r) ==
    /\ Awaiting(r)
    /\ \/ /\ Completed(r) = {}
          /\ ReturnUnlogged(r, "salvage")
       \/ \E k \in Completed(r) :
            /\ \A j \in Completed(r) : k <= j
            /\ ReturnLogged(r, "solution", "salvage", Own(SalvageOrder[k]))
    /\ UNCHANGED <<idx, attempts, winning, todo, current, crashes, proved>>

-----------------------------------------------------------------------------
(* After the handler: the answer leaves, then the background task runs.    *)

Deliver(r) ==
    /\ pc[r] = "replying"
    /\ pc' = [pc EXCEPT ![r] = "closed"]
    /\ UNCHANGED <<idx, attempts, winning, todo, current, response, bg, jsonl,
                   crashes, proved>>

\* persist_shadow_attempt_safe swallows its own failures.
Persist(r) ==
    /\ pc[r] = "closed" /\ bg[r] = "pending"
    /\ \E outcome \in {"done", "lost"} : bg' = [bg EXCEPT ![r] = outcome]
    /\ UNCHANGED <<pc, idx, attempts, winning, todo, current, response, jsonl,
                   crashes, proved>>

\* The process dies (os._exit of the watchdog, a container kill) and is
\* restarted: what was in flight, and every persist task, is gone.
Crash ==
    /\ crashes < MaxCrashes
    /\ crashes' = crashes + 1
    /\ pc' = [r \in Requests |-> IF pc[r] \in {"idle", "closed"} THEN pc[r] ELSE "dead"]
    /\ bg' = [r \in Requests |-> IF bg[r] = "pending" THEN "lost" ELSE bg[r]]
    /\ UNCHANGED <<idx, attempts, winning, todo, current, response, jsonl, proved>>

Handle(r) ==
    \/ Receive(r) \/ RejectBody(r) \/ DeclineAuction(r) \/ StartSolve(r)
    \/ \E s \in {"solved", "no_solution", "timeout", "error"} : FinishStrategy(r, s)
    \/ SkipCompose(r) \/ ComposeMerged(r) \/ ComposeRaises(r)
    \/ \E v \in EbboVerdicts : EbboValidate(r, v)
    \/ \E v \in GateVerdicts : FeasibilityValidate(r, v)
    \/ SolveTimeout(r)
    \/ Deliver(r) \/ Persist(r)

Next == Crash \/ \E r \in Requests : Handle(r)

Spec == Init /\ [][Next]_vars

-----------------------------------------------------------------------------
(* Fairness.  Only what the loop itself guarantees: the timer of wait_for  *)
(* fires, segments without an await run, and answers are written out.  A   *)
(* strategy, a validator or the database may hang for ever.                *)

LocalStep(r) ==
    \/ RejectBody(r) \/ DeclineAuction(r) \/ StartSolve(r)
    \/ SkipCompose(r) \/ ComposeMerged(r) \/ ComposeRaises(r)
    \/ ~EbboEnabled /\ \E v \in EbboVerdicts : EbboValidate(r, v)
    \/ ~GateEnabled /\ \E v \in GateVerdicts : FeasibilityValidate(r, v)
    \/ Deliver(r)

Fairness == \A r \in Requests : WF_vars(LocalStep(r)) /\ WF_vars(SolveTimeout(r))

FairSpec == Spec /\ Fairness

-----------------------------------------------------------------------------
(* Properties                                                              *)

Submitted(r) == response[r].kind = "solution"
RejectedSolutions(r) ==
    {attempts[r][i].solution :
        i \in {j \in DOMAIN attempts[r] : attempts[r][j].status = "rejected"}}
SolvedSolutions(r) ==
    {attempts[r][i].solution :
        i \in {j \in DOMAIN attempts[r] : attempts[r][j].status = "solved"}}

\* naive's trades reach the driver on no path: not through the fallback
\* chain, not merged into a composed solution, not through the salvage.
NaiveNeverSubmitted ==
    \A r \in Requests : Submitted(r) => Naive \notin response[r].solution.parts

\* With the gate wired, a solution that solve() returned had a True verdict:
\* no other outcome of the simulation, and no other path, lets one through.
GateFailsClosed ==
    \A r \in Requests :
        GateEnabled /\ Submitted(r) /\ response[r].via = "pipeline"
            => response[r].solution \in proved[r]

\* The fallback chain is complete: when solve() ships a candidate, composed
\* and every earlier candidate were each rejected on record; when it ships
\* none, all of them were.
NoCandidateSkipped ==
    \A r \in Requests :
        LET shipped   == response[r].solution
            composed  == {s \in SolvedSolutions(r) : s.by = Composer}
            fallback  == {Own(n) : n \in Composable(r)}
            earlier   == {Own(n) : n \in
                            {m \in Composable(r) : Position(m) < Position(shipped.by)}}
            due == IF response[r].kind = "empty" THEN composed \cup fallback
                   ELSE IF shipped.by = Composer THEN {}
                   ELSE composed \cup earlier
        IN  response[r].kind \in {"solution", "empty"} /\ response[r].via = "pipeline"
                => /\ due \subseteq RejectedSolutions(r)
                   /\ shipped \notin RejectedSolutions(r)

\* A timeout throws no finished work away: it answers empty only when no
\* strategy the salvage knows had won (and left a readable record).
SalvageLosesNothing ==
    \A r \in Requests :
        response[r].via = "salvage" /\ response[r].kind = "empty"
            => (winning[r] \cap Salvageable) \subseteq Unparsable

\* Shadow data never misses a submission: what was submitted has its JSONL
\* line, its persist task, and stands as solved in the attempts the task
\* will write.
SubmissionIsOnRecord ==
    \A r \in Requests :
        Submitted(r) => /\ r \in jsonl
                        /\ bg[r] # "none"
                        /\ response[r].solution \in SolvedSolutions(r)

\* Comparison data for shadow mode: when solve() ran to its end with
\* run_all_strategies, every strategy has exactly one record; without it,
\* the loop stopped at the only winner.
AttemptsComplete ==
    \A r \in Requests :
        LET records(n) == {i \in DOMAIN attempts[r] : attempts[r][i].strategy = n}
        IN  response[r].via = "pipeline"
                => IF RunAll
                   THEN \A n \in Strategies : \E i \in records(n) : records(n) = {i}
                   ELSE \A m, n \in winning[r] : m = n

AnswersKept ==
    \A r \in Requests : response[r] # NoResponse =>
        /\ response'[r] = response[r]
        /\ attempts'[r] = attempts[r]

\* Once the handler has returned, neither its answer nor the attempts the
\* persist task holds a reference to change any more, a late strategy or
\* verdict notwithstanding.
AnswerIsFinal == [][AnswersKept]_vars

\* Every request that arrives is answered (or dies with the process), even
\* when strategies and validators hang.
EveryRequestAnswered ==
    \A r \in Requests : pc[r] = "parsing" ~> pc[r] \in {"closed", "dead"}

-----------------------------------------------------------------------------
(* The pipeline implements the promise of the API.                         *)

Outside(phase) ==
    CASE phase \in {"idle", "replying", "closed"} -> phase
      [] phase = "dead" -> "dropped"
      [] OTHER -> "open"

Api == INSTANCE SolverApi WITH
    Competing <- Strategies \ {Naive},
    status    <- [r \in Requests |-> Outside(pc[r])],
    answer    <- [r \in Requests |-> IF Submitted(r) THEN response[r].solution.parts ELSE {}]

\* Every behaviour of the pipeline is one SolverApi allows.
ImplementsApi == Api!Spec
=============================================================================
