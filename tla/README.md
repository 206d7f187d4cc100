# Verification of the CoW solver skeleton

TLA+ models of the Python solver in `src/` and of the jobs in `scripts/` that
share its files and tables, checked with TLC and, where it says so, proved with
TLAPS. `PROJECT.json` lists the components, the runs, the mutants, the
definitions with the lines they model, the findings, the hazards and the
theorems.

## 1. The system

One FastAPI process answers `POST /solve` of a CoW driver. Around it run, in
containers of their own or from cron, a poller that replays past auctions
through it, a reconciler, a ghost-order job, a retention job, a competition sync
and scripts that fill in scores and labels. They share a Postgres database, a
JSONL file, Redis, and a JSON-RPC node.

| Component | State | Operations | Talks to | Hard behaviour | Correct when |
|---|---|---|---|---|---|
| `/solve` handler (`src/main.py`) | the shared `attempts` list, the answer, a background task for each request | parse, decline, solve under a timeout, salvage, log, answer | orchestrator, JSONL log, persist task | timeout against finished work, a log write that raises, a crash | every request is answered once, with the best finished work, and what is submitted is on record |
| Orchestrator (`solver/orchestrator.py`) | `attempts`, winners, candidates | wire and run the chain, compose, EBBO, feasibility gate, fall back | strategies, composer, validators | a strategy that raises or hangs, a rejection and what comes next | naive is never submitted; nothing unproven passes the gate; no candidate is passed over |
| Watchdog (`src/main.py`) | last request, last progress | poll, restart | the handlers' timestamps | silence, overlapping solves | a wedged process dies soon, a healthy one does not |
| RPC gate (`routing/rpc.py`) | a semaphore and its queue | call, retry, be cancelled | node | cancellation between grant and wakeup | no slot leaks, no wakeup is lost, the queue is fair |
| Multicall and quoters (`routing/`) | none | batch, split on a gas overrun, chunk, decode | RPC gate | one half, one chunk or one venue fails | every answer belongs to the call it answers |
| Router (`solver/router.py`) | clearing prices, trades, filled orders | rank, filter, quote, fill, encode, fall back to V2 | quoters, encoders, validity filter | orders that share tokens, rounding, fractions | one price for each token, fills within limits, plans that do what was quoted |
| Liquidity and encoders (`liquidity/`, `encoder/`) | none here; allowances on chain | quote, approve, swap | pools | a market that moves, left-over allowances | a late settlement costs the slippage at most |
| Joint clearing, naive, refiner (`solver/`) | none | group, quote, price, select | multicall | rounding, shared quotes | members can be settled at the common price |
| Order validity, EBBO, feasibility gate, scoring (`solver/`, `shadow/`) | none | read, simulate, compare | multicall, node | missing answers, a chain that moves | a verdict means what it says |
| Shadow store (`shadow/persist.py`, `scripts/shadow_poller.py`) | tables of auctions, solutions, winners, outcomes | persist an attempt, a winner, a skip | Postgres, CoW API | two processes create one row; restarts | nothing is lost to the race, duplicates need a restart, rows hang together |
| Shadow log (`shadow/logger.py`, `shadow/reconcile.py`) | a JSONL file and its `.tmp` | append, read, fill winners in, replace | CoW API | appends during a rewrite, torn lines | no line is lost, doubled or forgotten |
| Retention, score backfills (`scripts/`) | a watermark; stored orders and scores | page and slim; read, score, update | Postgres, CoW API | paging, failed pages, one slims what the other reads | old rows are slimmed, of each moment at least one; scores are those of the auction |
| Competition sync, ghost set (`scripts/`) | competitors, ghosts | fetch, insert; detect, upsert, delete | CoW API | failing auctions, killed runs, outages | an order that settled leaves the list |
| Token outcomes, label seeding (`shadow/token_outcomes.py`, `scripts/`) | outcomes, features | extract; ask, classify, upsert | GoPlus | rate limits, partial answers | what is known is not forgotten |

The `edge` package (bipartite and ring matchers, long-tail router, composer,
classifier) is a private submodule that is not in the tree. What the
orchestrator uses of it is modelled by the outcomes the orchestrator
distinguishes.

## 2. The modules

**The service.**

| Module | Models | State and actions, in terms of the code |
|---|---|---|
| `SolverApi` | what `POST /solve` promises | a request is open, replying, closed or dropped; an answer settles trades of competing strategies |
| `SolvePipeline` | handler and orchestrator | one `pc` for each request; an action is a segment between two awaits; `attempts` is the shared list, `winning`, `todo` and `current` are the locals of `solve`, `bg` the background task, `jsonl` the log |
| `Wiring` | `load_default_orchestrator` and what it calls | from a deployment (settings, and whether `edge` imports) to the chain, the validators and the salvage order; gives `SolvePipeline` its constants |
| `Watchdog` | `_liveness_watchdog` and what handlers do to its two timestamps | ages in place of `time.monotonic()`; `due` are the timers of the solves in flight; `Poll` is one round of the loop |
| `RpcGate` | `eth_call`, `eth_call_capture`, and the `asyncio.Semaphore` under them | `value` and `waiters` are the fields of the semaphore; a granted waiter runs one step later and may be cancelled before |

**From a quote to a swap.** Each module extends the one before.

| Module | Models | State and actions, in terms of the code |
|---|---|---|
| `SwapVenues` | the pools: the integer formulas of V2, external rates of V3, V4 and Curve | a market is the state of all pools |
| `SwapQuotes` | candidate paths of an order, the call for each, how an answer is read | packed paths forward and backward, currency order and the two-hop composition of V4, index pairs of Curve |
| `SwapPlans` | approvals, swaps and their bounds for a chosen quote; external: what tokens, routers and pools do with them | an interaction is a token, spender, amount, bound and deadline |
| `QuoteBatch` | `aggregate_resilient` and the loops that cut batches in chunks | a batch on its way: what is pending, what is answered, which chunks were given up |
| `SwapRound` | the round: request, quote on all venues at once, choose, encode, settle | `market`, `allow`, `phase`, `batch` by venue; the caller is the router or a `LiquidityAggregator` |
| `RouterBatch` | the order loop of `_solve_v3_batched` and the V2 fallback | one step for each order; `prices`, `trades` and `filled` are the locals of the same names; quotes are any the venues may give |

**From an auction to a settlement.** Each module extends the one before.

| Module | Models | State and actions, in terms of the code |
|---|---|---|
| `Auction` | orders, their ranking (a stable sort, as insertions), one- and two-hop quotes; external: pools | amounts are integers; a token may be spelled in more than one way |
| `OrderValidity` | `filter_valid_orders`; external: what the contract asks of an order | each reading of an order may be missing |
| `Scoring` | `compute_solution_score` | surplus, limits, reference prices, with every rounding |
| `Ebbo` | `ebbo.py` | both quotes of a trade, the tolerance, failing quotes |
| `Settlement` | `encode_settle` and the feasibility validator; external: `GPv2Settlement` | a `settle()` call as the gate makes it, and as the driver does |
| `Solvers` | joint clearing, the router's legacy path, naive and its refiner | operators from orders and quotes to a solution |
| `Clearing` | one auction after the other through all of these | an action for each filter, solver, check and for the settlement; `chain` may move between any two; `readAt`, `quotedAt`, `ebbo.at` and `gate.at` remember which chain a decision was made on |

**Files, tables and the jobs on them.**

| Module | Models | State and actions, in terms of the code |
|---|---|---|
| `ShadowStore` | the persist task and one auction of the poller | transactions in steps: check, insert, commit; `holder` is who has inserted the row and not committed |
| `ShadowLog` | appends, torn lines, reconcile cycle | the file as a sequence of lines; `copy` is what the cycle read, line by line (`ParsedTo`) |
| `Archive` | the retention loop and the two score backfills | `raw`, `retained`, `score` are columns; `cycle` is the page loop with its watermark; `script` what a backfill has read and not written |
| `Competitions` | the competition sync and the ghost set | `competitors` and `ghosts` are tables; `queue` is what a sync has still to fetch; a tick is a poll |
| `Labels` | token outcomes, `auto_seed_labels`, `seed_scam_labels` | `features` and `outcomes` are tables; `seeder` the run under way, with what it `found` |

`MC*` modules hold instances; `*Proofs` modules hold theorems.

How they compose: `Wiring` gives `SolvePipeline` the production chain.
`SolvePipeline` is shown to implement `SolverApi` under a refinement mapping
(`ImplementsApi`): a request is open from the first segment on, replying once the
handler returned, dropped when the process died; its answer settles the parts of
the submitted solution. `SolvePipeline` takes verdicts and solutions as choices;
`Clearing` computes both, for one strategy at a time. `RouterBatch` takes quotes as
choices; `SwapRound` computes them, for one order at a time. The composition stops
there: the product of integer amounts and interleavings is out of TLC's reach.
`MCJobs` runs one of the three job modules in a behaviour, because none reads what
another writes while it matters: the ghost set looks at the last 24 hours, the
retention loop at rows older than 48.

A definition whose comment begins with "Variant" is a bug the code does not have;
nothing in `Next` uses it. Each one is there for a property to catch (`mutants` in
`PROJECT.json`).

What is abstracted: a solution in `SolvePipeline` is who built it and whose trades
it settles; a database row is who wrote it, or the columns a job reads; a line of
the log is the record it holds and whether it parses; addresses are names, call
data is the record it encodes; errors and the endings of network calls are choices
of the environment. Amounts are small integers; `10 ** 18` and `10 000` basis points
are constants (`PriceScale`, `Unit`), so that roundings happen at small numbers.

## 3. The runs

Every bound is a CONSTANT set in the `.cfg`.

| Run | Instance | Shows | Why this is enough |
|---|---|---|---|
| `pipeline_full` | one auction; the chain of `Wiring` in a deployment with joint clearing and without the long-tail router (router, naive, bipartite, multi-party, joint clearing); composer, EBBO and gate on; anything may hang; the router's record unreadable; one crash | nothing unproven passes the gate; no candidate is skipped; the salvage loses nothing; what is submitted is on record; the pipeline implements the API; every request is answered, once | a strategy before naive, and competing ones after it, one of which the salvage order does not name; the salvage has to pass over a record. Requests share no state but the process, so that one shows them all |
| `watchdog` | two solves, budget 2, poll 2, traffic 3, stall 5 | a wedged process under traffic dies within a stall window; a false alarm takes a silence | the windows keep the order of the defaults (25, 30, 120 and 600 s); ages are told apart up to 10, more than all windows together |
| `rpc_gate` | three callers at two slots, three posts | no slot leaks, no wakeup is lost, first come first served, every call ends | both slots held, a granted waiter and one behind it; a retry that rejoins the queue |
| `shadow_store` | three persist tasks, a restart of each process | the race for the parent row costs nothing; duplicates need a restart; no deadlock between writers | the driver's solve and two replays: each may create the row, before or after the poller, and one writer may die while another waits for it |
| `shadow_log` | three records, two deaths | a loss needs an append during a rewrite; nothing doubles or is reordered; a cycle heals what a death tore; winners stick | a torn line with neighbours on both sides, and a second death while the first is being repaired |
| `router_batch` | four orders on three tokens, quotes up to 6 | one price for each token through both passes; fills within limits | sell and buy, partial and not; orders share tokens in chains and head-on; limits with and without remainder |
| `swap_round` | two rounds; a partial sell, a buy, a sell of WETH; all venues, two tiers, two hubs; chunks of five, gas cap of three calls and a call that weighs more alone; one failed chunk; two markets; a token that refuses to replace an allowance | an answer belongs to its path; a plan does what was quoted, and only the V3 router is left an allowance; a loss is within the slippage; a round ends | tiers differ in both directions, so that a path read backwards or by another tier pays differently; batches of more than one chunk; the second round meets what the first left |
| `clearing` | eleven orders in seven auctions; three chain states, two moves in an auction; any answer may be lost | a dropped order is dead; a revert needs a chain that moved or a check that could not be made; a phantom verdict means a revert; fills and groups pass EBBO and clear up to the rounding; the score never hides a broken limit | every scheme, balance source and kind; a pair of orders for a group, in two spellings; states that drain pools, balances, allowances and buffers; a move fits between any two steps |
| `jobs` | four stored rows in pages of two, two of which tie, one unreadable; three auctions in the competitions, one order, two solvers; two tokens and two verdicts; one or two faults of each kind | slimming does not change a score; old rows are slimmed, of those that tie at least one; settled orders leave the ghosts, at the latest when no auction shows them any more or at the stale cutoff; knowledge is kept | a page that ends in a tie, a page that fails, a restart between pages; a sync that is full, and one that is killed; a settlement in a second solution; a refresh that comes a tick too late, and one that comes at the cutoff; an answer after a rate limit, and one that says less than what is stored |

The other three runs (`shadow_store_scores`, `shadow_log_append`, `joint_limits`)
are expected to fail; each is a finding (section 5).

Deadlock is checked in the `rpc_gate`, `watchdog` and `clearing` runs, whose
processes go on for ever. It is off where the system really stops, or the bounds
of the instance let it: when all requests are answered, all records logged, the
solution built, or the bounded rounds, polls and restarts used up.

### Fairness

- `SolvePipeline`: the timer of `asyncio.wait_for` fires, and segments that do
  not await run to their end. Strategies, validators and the database may hang
  for ever.
- `RpcGate`: a waiter whose future is done runs; the post ends, because httpx
  has a timeout; the sleep before a retry ends. Cancellations are not fair.
- `ShadowStore`: each writer takes its next step when it can; an insert that
  waits for another transaction cannot. Restarts and faults are not fair.
- `SwapRound`: every `eth_call` of a batch ends (the client has a timeout, and
  the gate lets every caller in, which `rpc_gate` checks). Moves of the market,
  failures and the settlement are not fair.
- `Archive`, `Competitions`: the retention loop, which is a `while True` with a
  sleep, goes on; cron starts the sync and the refresh again and again. Failed
  pages, killed runs and failed fetches are bounded, and not fair. `Labels` has
  no fairness: it is run by hand.

## 4. The proofs

Proofs are in the `*Proofs` modules. They hold for every value of the constants
that satisfies the named assumption of the module.

| Module | Assumption | Inductive invariant, and why the properties alone are not enough |
|---|---|---|
| `SolvePipelineProofs` | `ConfigAssumption`: names in the chain differ, and the salvage order does not name naive | `IInv`: `TypeOK`, and for each request: winners have a solved record; a solved record of a strategy holds its own solution; the candidates left and the one under validation come from solved records of competitors; an answer keeps what the candidate had. Submission happens many steps after the record it is judged by, so each step in between must carry it |
| | the same | `CompleteInv`, for the loops over the chain and over the candidates: `LoopInv`, there is a record for each strategy behind the loop; `UntriedInv`, until the fallback loop starts nothing is rejected; `FallbackInv`, in it what is neither rejected nor under validation is still to come, in the order of the chain; `ShippedInv`, the same of the answer. `NoCandidateSkipped` and `AttemptsComplete` follow |
| | none | no state: `WiringIsSound` shows that every deployment, whatever is switched on or can be imported, meets `ConfigAssumption` and runs the router first, so that the theorems about `SolvePipeline` speak of every deployment; `SalvageBlindSpot` names the strategies whose finished work a timeout cannot salvage |
| `WatchdogProofs` | `WindowAssumption`: the stall window is longer than a solve budget | `WedgeInv`: the age of the last progress is bounded by the stall window plus the time since the last poll. `AlarmInv`: as long as no request failed, either the silence is as old as the progress, or the first request after it is in flight and its timer tells when it came |
| `SharedStateProofs`, the gate | `GateAssumption`: finitely many callers, at least one slot and one post | `Kept`: conservation, the queue holds exactly the callers that wait (each once), a free slot with waiters is about to be handed on, and posts made leave one to spare. Which of two wakers hands a slot on depends on all four |
| `SharedStateProofs`, the jobs | `ArchiveAssumption`, `FillsAssumption`: a row that has orders has those of the auction that its trades fill | `ArchiveInv`: a row gives up no order its trades fill, and what a script has read and not written is right already. `LabelsInv` types features, answers and the run under way; that an upsert forgets nothing needs no more |
| `ShadowStoreProofs` | `StoreAssumption` | `IInv`: a transaction past its insert has the row, committed or its own; a poller that left the start has seen the auction; passes begun count against restarts |
| `RouterBatchProofs` | `OrdersAssumption`: an order sells one token for another, in positive amounts | `IInv`: every trade is in `filled`, and in the first pass `filled` lies behind the order looked at. That a later fill never moves a price of an earlier one rests on `Fits`, for both tokens. `FillsAreQuoted` adds that a fill has the quote it was made from; the limits of whole and partial fills follow with the rounding of `_try_partial_fill`, for amounts of any size |
| `ShadowLogProofs` | `LogAssumption` | `IInv`: no record stands twice in the file, in the copy of the cycle or in its `.tmp`; a record that was not logged yet is in none of them (`Fresh`); a file that ends without a newline ends with the torn line of a writer that died (`LastIsTorn`); what is flushed, outside a race and not behind a torn line, can be read (`Safe`); replacing the file by what the cycle has read costs no such record, no winner and no order (`CycleInv`). `ParsedTo` is what makes reading a file a recursive function, about which induction is possible |
| `ClearingProofs` | `AuctionAssumption`, `EbboAssumption`, `SlippageAssumption`, `GroupAssumption`, `ClearingAssumption` (prices and scales are positive, tolerances are below one, spelling is idempotent, and the solutions of `edge` price what they trade) | `Typed`: a solution prices what it trades and executes no more than was signed. On it rest `AllDroppedDead`, that every dropped order is dead on the chain it was read from; `GateInv`, that the verdict is that of a simulation at `gate.at`; `FairInv`, that every fill has a quote of its own in the pools of `quotedAt`; `NaiveInv`, that naive's solution is the refined one; `JointInv`, that the swaps of a group bring its shares but for a unit each |
| `SwapRoundProofs` | `VenueAssumption`: fee tiers, hubs and the coins of Curve pools are configured lists, no pool is one of the router contracts, fee and slippage are below one. `RoundAssumption`: an order sells one token for another, in positive amounts, and whatever market is shown, its pools have rates and its pairs reserves, zero where there is none | `IInv`: while a round quotes, every batch is `InOrder`: the slices still to be asked follow what is answered without gap or overlap, and each answer so far is the one its path is due (zero if it was given up). A V2 quote belongs to its path. A plan is `PlanGood`: the swap it encodes realises, in the market of its quote, what was promised; its minimum or maximum is within the slippage; its approvals cover it. Once the market has moved, the true amounts are no longer asked for, the shapes and bounds are. `LossIsBounded` is part of it, as the outcome outlives the plan. Each conjunct carries a promise over steps that do not mention it: an answer is settled many steps after it was given What an allowance may be left for (`SpareIsRouters`) is an invariant relative to `IInv`: a grant for another venue is exactly what its swap pulls |

Two theorems have hypotheses on the configuration. `OwnQuotesPass` asks for
`MaxOrders <= MaxTrades`, because the EBBO check looks at the first 20 trades
(`src/solver/ebbo.py:66`) and the router takes 4 orders (`src/config.py:58`), and for
groups of at least two (`src/config.py:184`): an order alone in a group would be
priced by a pool the check does not read.

`Implementation` proves that the initial states and every step of `SolvePipeline`
map to `SolverApi`. Theorems whose property no run lists (type correctness, that
naive is never submitted, that scores have a winner, that children have a parent,
that prices belong to trades and that an order is filled once) say what the
properties of the runs rest on.

The proofs use two means beside invariants. Sums, walks through a file and searches
for a best quote are recursive functions; a lemma gives the equations of such a
function, and facts about it are proved by induction over its length, as a set of
numbers that contains zero and the successor of each member. Rounding lemmas
(`CeilDiv`, the share of a group, a partial limit) are proved once, with every
product of variables under a name of its own, and cited.

Only model-checked: the liveness properties (`EveryRequestAnswered`,
`EveryCallEnds`, `WritersFinish`, `RoundEnds`, `AgedRowsSlimmed`,
`SettledGhostsLeave`), which are about fairness and what is enabled, beyond these
provers. Every other property of a passing run is a theorem. The induction behind
`SwapRoundProofs` ranges over all amounts, so TLC cannot evaluate its `IInv`; the
run checks what follows from it (`QuotesAreTrue`, `LossIsBounded`,
`QuoteIsHonoured`).

## 5. What the checks found

With a run of their own:

1. Rows of a persist task that commits after the poller's recomputation keep no
   score at the winner's prices (`shadow_store_scores`).
2. A line appended between the read of a reconcile cycle and its rename is lost
   (`shadow_log_append`).
3. The limit check of joint clearing compares rounded-up shares, the contract
   unrounded ones: a group it accepts may hold an order that reverts the
   settlement (`joint_limits`). With the gate wired the solution is rejected
   there.

Seen while modelling:

*The service.* A timed-out solve submits what no validator has passed, or what the
gate has just rejected (`src/main.py:173`); its order names neither the long-tail
router nor joint clearing. The age of the last progress grows in silence: the first
request after ten quiet minutes may be killed with its healthy process
(`src/main.py:288`). Quotes, declined auctions and raised errors are traffic but
never progress, so a stall window of them restarts the process
(`src/main.py:112`). A gate that cannot be built is left out without an error
(`src/solver/orchestrator.py:565`).

*The router.* `best_per_order` takes quotes of fractions into account, so that a
complete fill may go through the path and at the rate of a fraction
(`src/solver/router.py:617`). A partial fill that just meets its rounded-down limit
is below the signed one (`src/solver/router.py:793`). The legacy path emits trades
without the interactions that would pay for them; the V2 fallback emits swaps
without an approval. The inline `approve` of an exact amount overwrites the maximal
allowance `setup_v3_allowances` has set, and what an exact output leaves over makes
the next `approve` of a USDT-like token revert. `QuoteIsHonoured` allows that for the
V3 router and the spenders set up for good only: approvals for V4 and Curve leave
nothing behind, through any rounds (`NoOtherSpare`).
`liquidity/base.py:113` speaks of a pre-flight check that is nowhere, and
`LiquidityAggregator` and `V3Source` are constructed nowhere in the repository.

*Clearing.* The rounded shares of a group may add up to one unit less than the
number of its orders more than the swap brings (`ShortfallIsRounding`); buffers pay.
A group is priced under lower-case tokens and a fallback order under the tokens as
spelled: the EBBO check looks prices up as spelled and passes over the group trade
of an order in mixed case, and the gate cannot encode a solution with both. Joint
clearing has neither the validity filter nor the funding gate of the router. The
filter drops a buy order whose owner cannot pay the limit, although the market
might charge less. The gate simulates without hooks and with ERC-20 balances, so
that a phantom verdict on an order with hooks or vault balances proves nothing (the
exceptions of `PhantomsRevert`). When the refiner drops every trade it returns the
solution unrefined. Of a pair that has a quote, what it keeps clears alone; trades
of a pair without one are kept too, whatever they execute at. That the quote for the
largest order of a pair bounds what a smaller one gets holds only up to the unit
the first of two hops may be short of (`RefinedTradesClear`, `ClearsAlone`).

*The jobs.* When `/solve` creates the auction row first, `raw_competition` stays
empty (`src/shadow/persist.py:388`). `backfill_scores` scores the orders a partial
answer of the API names, for ever; rows that score zero are picked again and,
without an ORDER BY, may starve the others. A sync is filled by the newest auctions
without rows: as many that fail for good as its limit starve all older ones. A
second solution of one solver in an auction is dropped by the unique key, the
winning one if it comes later. The self-correction of the ghost set reaches back
two intervals of a constant, not of `--interval`: after a longer outage a settled
order stays until it is stale. A row inserted late, below the watermark, is slimmed
after the next restart only. Of rows with the same `polled_at` on both sides of the
end of a page, those behind it may never be slimmed: the docstring says a tied row
is picked up after the next restart (`scripts/retention_loop.py:173`), but the query
does not leave out the rows already slimmed and orders by `polled_at` alone, so that
a restart may bring back the same pages. `AgedRowsSlimmed` therefore speaks of at
least one row of each moment. `scoring.py:260` also reads orders keyed `orderUid`,
which `retain_row` would drop; no writer of `raw_auction` uses that key.
`seed_scam_labels` takes a tax from 10.0 for a scam where the service answers
fractions, and its injected outcomes refer to auctions that Postgres does not have,
so that the transaction fails.

What holds in the same places: a persist task never loses rows to the race for
the parent row; no slot of the RPC gate leaks, whatever is cancelled when;
naive is submitted on no path; a partial fill misses its limit by less than
one unit of the bought token; through every bisection and failed chunk an answer
stays with its call; nothing the gate has passed reverts on a chain that has not moved since; slimming
a row changes no score.

## 6. Not modelled, and the plan

Of components that are modelled in part:

- JSON-RPC client: which error text counts as a rate limit or a gas overrun is a
  choice of the environment; the parsing of a response holds no state.
- Router: the bounds on V4 amounts from 2^128 on, which one test each reaches, and
  the comparison with native V4 pools, which only logs.
- Shadow store and poller: the contents of rows (one writer each, no reader but the
  jobs, which have their columns in `Archive` and `Competitions`), the HTTP batches
  of 128 uids and the poller's delay between polls. Its backoff multiplies
  `2 ** level` by a float before it takes the cap; after 1024 rate limits in a row
  that overflows (`scripts/shadow_poller.py:68`).
- Encoders: byte layouts; a model would repeat them, and the tests hold vectors.

Left out for good: the offline analysis and report scripts (they read the
database once and print), the probes and smoke scripts (run by hand against a node),
the one-off JSONL import, the migrations, the liveness file of the workers (one
timestamp), metrics, logging, notifications and configuration (nothing the solver
reads back), and the `edge` package (not in the tree).

Next, in this order:

1. The backoff and the batches of the poller, joined to `ShadowStore`.
2. That `Clearing` implements the solver that `SolvePipeline` takes as a choice,
   one step after the other.
