-------------------------------- MODULE SwapRound --------------------------------
(***************************************************************************)
(* One order after the other from quote to settlement: candidates asked    *)
(* about in batches, the best one encoded, and, external, the settlement   *)
(* executed later, when the market may have moved, on a settlement         *)
(* contract that keeps the allowances earlier rounds have left.            *)
(* The caller is RouterSolver (src/solver/router.py), or an owner of a     *)
(* LiquidityAggregator (src/liquidity/aggregator.py).                      *)
(***************************************************************************)
EXTENDS QuoteBatch

CONSTANTS
    Requests,     \* the orders
    Markets,      \* the markets there may be, in the order they follow each other
    Standing,     \* the spenders setup_v3_allowances is run for
    Heavy,        \* indices of the V3 calls that alone overrun the gas cap
    MaxRounds,    \* bound: orders in a behaviour
    MaxFailures   \* bound: chunks given up in a round

VARIABLES
    round,      \* orders so far
    caller,     \* "router" or "aggregator"
    order,      \* the current one
    phase,      \* "idle", "quoting", "fallback", "planned"
    market,
    moved,      \* the market has moved since the order came
    late,       \* the deadline of the plan has passed
    paths,      \* venue -> the candidate paths it is asked about
    batch,      \* venue -> how far it has been asked
    v2,         \* the V2 source: [asked, quote], asked while it has not answered
    plan,       \* the interactions
    promised,   \* what the plan is to sell and buy
    allow, permit,      \* the allowances of the settlement contract
    outcome     \* how the latest settlement went: [ok, paid, got], NoOutcome before

vars == <<round, caller, order, phase, market, moved, late, paths, batch, v2, plan, promised,
          allow, permit, outcome>>

\* What the venues read of an order.
SwapOrder ==
    [kind : {"sell", "buy"}, sellToken : Tokens, buyToken : Tokens,
     sellAmount : Nat \ {0}, buyAmount : Nat \ {0}, partial : BOOLEAN]

\* An order sells one token for another; every market the environment may show is one.
ASSUME RoundAssumption ==
    /\ Requests \subseteq SwapOrder /\ Requests # {}
    /\ \A o \in Requests : o.sellToken # o.buyToken
    /\ Len(Markets) \in Nat \ {0} /\ DOMAIN Markets = 1..Len(Markets)
    /\ \A n \in DOMAIN Markets : IsMarket(Markets[n])
    /\ ChunkSize \in Nat \ {0} /\ GasCap \in Nat \ {0} /\ MaxRounds \in Nat

Venues == {"v3", "v4", "curve"}
Spenders == {"swapRouter", "v2Router", "permit2"} \cup DOMAIN CurvePools
Plenty == 1000      \* stands for 2 ** 256 - 1
NoPaths == [v \in Venues |-> <<>>]
NoBatches == [v \in Venues |-> Begin(0)]
NoPromise == [sell |-> 0, buy |-> 0]
NoOutcome == [ok |-> TRUE, paid |-> 0, got |-> 0]

TypeOK ==
    /\ round \in 0..MaxRounds
    /\ caller \in {"router", "aggregator"}
    /\ order \in Requests
    /\ phase \in {"idle", "quoting", "fallback", "planned"}
    /\ market \in ToSet(Markets)
    /\ {moved, late} \subseteq BOOLEAN
    /\ DOMAIN batch = Venues
    /\ allow \in [Tokens \X Spenders -> Nat] /\ permit \in [Tokens -> Nat]
    /\ promised \in [sell : Nat, buy : Nat]

Init ==
    /\ round = 0
    /\ caller = "router"
    /\ order = CHOOSE o \in Requests : TRUE
    /\ phase = "idle"
    /\ market = Markets[1]
    /\ moved = FALSE /\ late = FALSE
    /\ paths = NoPaths /\ batch = NoBatches
    /\ v2 = [asked |-> FALSE, quote |-> NoQuote]
    /\ plan = <<>>
    /\ promised = NoPromise
    /\ allow = [k \in Tokens \X Spenders |-> 0]
    /\ permit = [t \in Tokens |-> 0]
    /\ outcome = NoOutcome

-----------------------------------------------------------------------------
(* Quoting.                                                                *)

\* RouterSolver._solve_v3_batched: all venues at once.
RouterCandidates(o) ==
    [v3 |-> RouterPaths(o), v4 |-> V4Paths(o) \o NativePaths(o), curve |-> CurvePaths(o)]

\* LiquidityAggregator.best_quote: the V3 source, and the V2 source beside it.
SourceCandidates(o) == [v3 |-> SourcePaths(o), v4 |-> <<>>, curve |-> <<>>]

\* The next order comes, to one caller or the other.
Request ==
    /\ phase = "idle" /\ round < MaxRounds
    /\ round' = round + 1
    /\ order' \in Requests
    /\ phase' = "quoting"
    /\ moved' = FALSE /\ late' = FALSE
    /\ caller' \in {"router", "aggregator"}
    /\ paths' = IF caller' = "router" THEN RouterCandidates(order') ELSE SourceCandidates(order')
    /\ batch' = [v \in Venues |-> Begin(Len(paths'[v]))]
    /\ v2' = [asked |-> caller' = "aggregator", quote |-> NoQuote]
    /\ plan' = <<>> /\ promised' = NoPromise /\ outcome' = NoOutcome
    /\ UNCHANGED <<market, allow, permit>>

quoting == <<round, caller, order, market, moved, late, paths, plan, promised, allow, permit,
             outcome>>

\* The gas of a venue's calls: only V3's vary here.
HeavyOf(v) == IF v = "v3" THEN Heavy ELSE {}

\* An eth_call of a batch ends: within the gas cap, beyond it, or not at all.
Ask(v) ==
    /\ phase = "quoting" /\ ~Answered(batch[v])
    /\ batch' = [batch EXCEPT ![v] = IF Overruns(@, HeavyOf(v)) THEN Bisect(@)
                                     ELSE Reply(@, Aggregate(market, paths[v], @))]
    /\ UNCHANGED <<quoting, phase, v2>>

AskFails(v) ==
    /\ phase = "quoting" /\ ~Answered(batch[v])
    /\ \A u \in Venues : Cardinality(batch[u].failed) < MaxFailures
    /\ batch' = [batch EXCEPT ![v] = DropChunk(@)]
    /\ UNCHANGED <<quoting, phase, v2>>

\* V2Source.quote: the reserves are read, or the read fails or times out.
AnswerV2 ==
    /\ v2.asked
    /\ \E q \in {QuoteV2(market, order), NoQuote} : v2' = [asked |-> FALSE, quote |-> q]
    /\ UNCHANGED <<quoting, phase, batch>>

\* V3Source.quote gives up after its timeout.
SourceTimeout ==
    /\ phase = "quoting" /\ caller = "aggregator" /\ ~Answered(batch["v3"])
    /\ batch' = [batch EXCEPT !["v3"] = Begin(0)]
    /\ UNCHANGED <<quoting, phase, v2>>

AllAnswered == ~v2.asked /\ \A v \in Venues : Answered(batch[v])

-----------------------------------------------------------------------------
(* Selection and encoding.                                                 *)

Quotes(v) == QuotesOf(batch[v], paths[v])

\* The quotes in their order of preference among equals.
AllQuotes == Quotes("v3") \o Quotes("v4") \o Quotes("curve")

\* Those that may win; the native probe takes no part.
Eligible(quotes) == {i \in DOMAIN quotes : quotes[i].path.venue = "v4" => ~quotes[i].path.native}

Fill(path, sell, buy) == [path |-> path, sell |-> sell, buy |-> buy]

\* What a quote makes of the order when it is filled completely.
Whole(o, q) == IF q.path.exactOut THEN Fill(q.path, q.amount, o.buyAmount)
                                  ELSE Fill(q.path, o.sellAmount, q.amount)

Meets(o, f) == IF o.kind = "buy" THEN f.sell <= o.sellAmount ELSE f.buy >= o.buyAmount

\* What the router makes of one order: the whole by the best quote, else the
\* larger fraction that meets its share of the limit by the best quote of
\* that fraction; one fill or none.
RouterFills(o, quotes) ==
    LET best == BestAmong(quotes, Eligible(quotes))
        whole == {f \in {Whole(o, q) : q \in {best} \ {NoQuote}} : Meets(o, f)}
        limit == << (3 * o.buyAmount) \div 4, o.buyAmount \div 2 >>
        part(k) == BestAmong(quotes, {i \in Eligible(quotes) :
                                        quotes[i].path.amount = Fractions(o)[k]})
        fraction(k) == {Fill(q.path, q.path.amount, q.amount) :
                          q \in {p \in {part(k)} : p.amount > 0 /\ p.amount >= limit[k]}}
    IN  IF whole # {} \/ o.kind = "buy" \/ ~o.partial THEN whole
        ELSE IF fraction(1) # {} THEN fraction(1) ELSE fraction(2)

\* The aggregator's best pair of quote and source, V3 first among equals.
SourceFills(o, quotes) ==
    LET best == SelectBest(<< SelectBest(quotes), v2.quote >>)
    IN  {Whole(o, q) : q \in {best} \ {NoQuote}}

Promise(f, interactions) ==
    /\ phase' = "planned"
    /\ plan' = interactions
    /\ promised' = [sell |-> f.sell, buy |-> f.buy]

\* The answers of all venues are there: the best is encoded. Without one the
\* router asks the V2 source, and the aggregator gives up.
Select ==
    /\ phase = "quoting" /\ AllAnswered
    /\ \E quotes \in {AllQuotes} :
        \E fills \in {IF caller = "router" THEN RouterFills(order, quotes)
                                           ELSE SourceFills(order, quotes)} :
            \/ /\ \E f \in fills :
                    Promise(f, IF caller = "router" THEN EncodePath(f.path, f.sell, f.buy)
                                                    ELSE EncodeSource(f.path, f.sell, f.buy))
               /\ UNCHANGED v2
            \/ /\ fills = {}
               /\ phase' = IF caller = "router" THEN "fallback" ELSE "idle"
               /\ v2' = [v2 EXCEPT !.asked = caller = "router"]
               /\ UNCHANGED <<plan, promised>>
    /\ paths' = NoPaths /\ batch' = NoBatches
    /\ UNCHANGED <<round, caller, order, market, moved, late, allow, permit, outcome>>

\* _fill_v2_fallback, with its own look at the limit.
FallBack ==
    /\ phase = "fallback" /\ ~v2.asked
    /\ IF v2.quote # NoQuote /\ Meets(order, Whole(order, v2.quote))
       THEN LET f == Whole(order, v2.quote) IN Promise(f, EncodeSource(f.path, f.sell, f.buy))
       ELSE phase' = "idle" /\ UNCHANGED <<plan, promised>>
    /\ UNCHANGED <<round, caller, order, market, moved, late, paths, batch, v2, allow, permit, outcome>>

-----------------------------------------------------------------------------
(* External: time, the market, the settlement.                             *)

settling == <<round, caller, order, paths, batch, v2, plan, promised>>

MarketMoves ==
    /\ phase # "idle" /\ ~moved
    /\ \E i \in 1..(Len(Markets) - 1) : market = Markets[i] /\ market' = Markets[i + 1]
    /\ moved' = TRUE
    /\ UNCHANGED <<settling, phase, late, allow, permit, outcome>>

DeadlinePasses ==
    /\ phase = "planned" /\ ~late
    /\ late' = TRUE
    /\ UNCHANGED <<settling, phase, market, moved, allow, permit, outcome>>

\* The driver settles the plan, or it lapses.
Settle ==
    /\ phase = "planned"
    /\ phase' = "idle"
    /\ LET s == Settlement(market, late, plan, allow, permit)
       IN  /\ outcome' = [ok |-> s.ok, paid |-> s.paid, got |-> s.got]
           /\ IF s.ok THEN allow' = s.allow /\ permit' = s.permit
                      ELSE UNCHANGED <<allow, permit>>
    /\ UNCHANGED <<settling, market, moved, late>>

Lapse ==
    /\ phase = "planned"
    /\ phase' = "idle"
    /\ UNCHANGED <<settling, market, moved, late, allow, permit, outcome>>

\* setup_v3_allowances, and whoever sends what it prints: every token whose
\* allowance is not ample is approved for good, after a reset if need be.
SetUp ==
    /\ phase = "idle" /\ round < MaxRounds
    /\ \E s \in Standing :
        /\ \E t \in Tokens : allow[<<t, s>>] < Plenty
        /\ allow' = [k \in DOMAIN allow |-> IF k[2] = s THEN Plenty ELSE allow[k]]
    /\ UNCHANGED <<settling, phase, market, moved, late, permit, outcome>>

Next ==
    \/ Request \/ SetUp \/ AnswerV2 \/ SourceTimeout \/ Select \/ FallBack
    \/ \E v \in Venues : Ask(v) \/ AskFails(v)
    \/ MarketMoves \/ DeadlinePasses \/ Settle \/ Lapse

\* Every eth_call ends, with an answer or a timeout; the event loop then runs
\* what awaited it.
Fairness ==
    /\ \A v \in Venues : WF_vars(Ask(v))
    /\ WF_vars(AnswerV2) /\ WF_vars(Select) /\ WF_vars(FallBack)

Spec == Init /\ [][Next]_vars /\ Fairness

-----------------------------------------------------------------------------
(* Properties.                                                             *)

\* Chunks given up: the indices whose answers they cost.
GivenUp(b) == UNION {first..(first + ChunkSize - 1) : first \in b.failed}

\* Positional alignment of results and calls (multicall.py, "Results stay
\* positionally aligned"), through any bisection, chunk failure and
\* interleaving of the venues: while the market stands still each answer is
\* the one its own path is meant to get, and an answer is lost only by a call
\* that alone overruns the gas cap or in a chunk that was given up.
QuotesAreTrue ==
    ~moved /\ phase = "quoting" =>
        \A v \in Venues : \A i \in DOMAIN batch[v].done :
            LET lost == i \in HeavyOf(v) \cup GivenUp(batch[v])
            IN  batch[v].done[i] = IF lost THEN 0 ELSE Meant(market, paths[v][i])

\* Why a plan may fail that was quoted in the market it is settled in: its
\* swap came after the deadline, a source's swap needs an allowance that
\* nobody has set up or that earlier rounds have used, or the token refuses
\* to replace an allowance of the V3 router or of a standing spender: the
\* approvals of the other venues never leave one behind ("no larger than the
\* swap requires", erc20.py).
LacksAllowance ==
    LET swap == SwapOf(plan)
    IN  Len(plan) = 1 /\ allow[<<swap.token, swap.spender>>] < promised.sell
LeftOver == Refused(plan, allow) /\ SwapOf(plan).spender \in {"swapRouter"} \cup Standing

\* The plan for a quote holds what the quote promised, on every venue and
\* after any rounds before it: settled in an unmoved market it pays what was
\* promised, and fails for one of those reasons only.
QuoteIsHonoured ==
    [][ Settle /\ ~moved =>
          \/ outcome'.ok /\ outcome'.paid <= promised.sell /\ outcome'.got >= promised.buy
          \/ ~outcome'.ok /\ ((SwapOf(plan).deadline /\ late) \/ LacksAllowance \/ LeftOver) ]_vars

\* The clearing prices pay the trader what was promised, whatever the swap
\* brings: a settlement that succeeds in a moved market costs the buffers of
\* the settlement contract no more than the slippage of the promise.
LossIsBounded ==
    outcome.ok /\ outcome # NoOutcome =>
        /\ Unit * (promised.buy - outcome.got) <= SlippageBps * promised.buy + Unit
        /\ Unit * (outcome.paid - promised.sell) <= SlippageBps * promised.sell + Unit

\* A round of quotes ends, whatever overruns and fails.
RoundEnds == phase = "quoting" ~> phase # "quoting"
=============================================================================
