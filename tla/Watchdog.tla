------------------------------- MODULE Watchdog -------------------------------
(***************************************************************************)
(* The liveness watchdog of src/main.py: when it restarts the process, and *)
(* on what evidence.  Time is discrete; the unit is one tick of the clock  *)
(* the handlers and the watchdog read (time.monotonic).  What a solve does *)
(* is abstracted to how it ends: with a result, by raising, or because the *)
(* wait_for of the handler ran out.                                        *)
(***************************************************************************)
EXTENDS Naturals

CONSTANTS
    Jobs,            \* solves that can be in flight at once
    Budget,          \* longest timeout a handler gives a solve
    PollEvery,       \* watchdog_poll_seconds
    TrafficWindow,   \* watchdog_traffic_window_seconds
    StallWindow,     \* watchdog_stall_seconds
    Horizon          \* bound: ages above it are not told apart

ASSUME WindowAssumption ==
    /\ Budget \in Nat /\ Budget > 0
    /\ PollEvery \in Nat /\ PollEvery > 0
    /\ TrafficWindow \in Nat
    /\ StallWindow \in Nat /\ StallWindow > Budget
    /\ Horizon \in Nat
    /\ Horizon >= StallWindow + PollEvery + TrafficWindow

\* Value of due for a slot without a solve.
Free == Budget + 1
NoRestart == [happened |-> FALSE, timedOut |-> FALSE, fruitless |-> FALSE, quiet |-> 0]

VARIABLES
    watching,        \* the watchdog task was started
    sinceRequest,    \* age of app.state.last_request_ts
    sinceProgress,   \* age of app.state.last_progress_ts
    pollIn,          \* ticks until the watchdog wakes up
    due,             \* ticks until the wait_for of a solve runs out, or Free
    wedged,          \* the process has decayed: its solves never finish
    timedOut,        \* history: a solve timed out since the last progress
    fruitless,       \* history: a request ended otherwise without progress
    quiet,           \* history: longest silence since the last progress
    steady,          \* history: for how long traffic has been in the window
    restart          \* history: the evidence of the last restart

vars == <<watching, sinceRequest, sinceProgress, pollIn, due, wedged, timedOut,
          fruitless, quiet, steady, restart>>

Ages == 0..Horizon

Capped(n) == IF n > Horizon THEN Horizon ELSE n
Larger(m, n) == IF m > n THEN m ELSE n

TypeOK ==
    /\ watching \in BOOLEAN /\ wedged \in BOOLEAN
    /\ timedOut \in BOOLEAN /\ fruitless \in BOOLEAN
    /\ sinceRequest \in Ages /\ sinceProgress \in Ages
    /\ quiet \in Ages /\ steady \in Ages
    /\ pollIn \in 0..PollEvery
    /\ due \in [Jobs -> 0..Free]
    /\ restart \in [happened : BOOLEAN, timedOut : BOOLEAN, fruitless : BOOLEAN,
                    quiet : Ages]

\* A fresh process.  Its timestamps exist from the first request on.
Fresh ==
    [watching |-> FALSE, sinceRequest |-> Horizon, sinceProgress |-> 0,
     pollIn |-> PollEvery, due |-> [j \in Jobs |-> Free]]

Init ==
    /\ watching = Fresh.watching
    /\ sinceRequest = Fresh.sinceRequest
    /\ sinceProgress = Fresh.sinceProgress
    /\ pollIn = Fresh.pollIn
    /\ due = Fresh.due
    /\ wedged = FALSE
    /\ timedOut = FALSE /\ fruitless = FALSE
    /\ quiet = 0 /\ steady = 0
    /\ restart = NoRestart

-----------------------------------------------------------------------------
(* The handlers                                                            *)

\* Every request sets last_request_ts; the first one starts the watchdog,
\* which seeds both timestamps.
Arrive ==
    /\ sinceRequest' = 0
    /\ watching' = TRUE
    /\ sinceProgress' = IF watching THEN sinceProgress ELSE 0
    /\ pollIn' = IF watching THEN pollIn ELSE PollEvery
    /\ steady' = IF sinceRequest > TrafficWindow THEN 0 ELSE steady

\* A request that ends before the orchestrator runs: a body that is no
\* auction, a quote, a deadline that is too close.
EndEarly ==
    /\ Arrive
    /\ fruitless' = TRUE
    /\ UNCHANGED <<due, wedged, timedOut, quiet, restart>>

BeginSolve(j) ==
    /\ due[j] = Free
    /\ Arrive
    /\ \E timeout \in 1..Budget : due' = [due EXCEPT ![j] = timeout]
    /\ UNCHANGED <<wedged, timedOut, fruitless, quiet, restart>>

\* Variant: a solve that returns is not noted as progress.
CompleteUnnoted(j) ==
    /\ due[j] # Free /\ ~wedged
    /\ due' = [due EXCEPT ![j] = Free]
    /\ timedOut' = FALSE /\ fruitless' = FALSE
    /\ quiet' = 0
    /\ UNCHANGED <<watching, sinceRequest, sinceProgress, pollIn, wedged, steady,
                   restart>>

\* The orchestrator returned, with a solution or without: progress.
Complete(j) ==
    /\ due[j] # Free /\ ~wedged
    /\ due' = [due EXCEPT ![j] = Free]
    /\ sinceProgress' = 0
    /\ timedOut' = FALSE /\ fruitless' = FALSE
    /\ quiet' = 0
    /\ UNCHANGED <<watching, sinceRequest, pollIn, wedged, steady, restart>>

Raise(j) ==
    /\ due[j] # Free /\ ~wedged
    /\ due' = [due EXCEPT ![j] = Free]
    /\ fruitless' = TRUE
    /\ UNCHANGED <<watching, sinceRequest, sinceProgress, pollIn, wedged,
                   timedOut, quiet, steady, restart>>

TimeOut(j) ==
    /\ due[j] = 0
    /\ due' = [due EXCEPT ![j] = Free]
    /\ timedOut' = TRUE
    /\ UNCHANGED <<watching, sinceRequest, sinceProgress, pollIn, wedged,
                   fruitless, quiet, steady, restart>>

-----------------------------------------------------------------------------
(* The watchdog                                                            *)

ReceivingTraffic == sinceRequest <= TrafficWindow

\* Variant: the stall window itself does not count as stalled.
StalledStrictly == sinceProgress > StallWindow

Stalled == sinceProgress >= StallWindow

\* os._exit(1), and the container brings a fresh process up.
Restart ==
    /\ restart' = [happened |-> TRUE, timedOut |-> timedOut,
                   fruitless |-> fruitless, quiet |-> quiet]
    /\ watching' = Fresh.watching
    /\ sinceRequest' = Fresh.sinceRequest
    /\ sinceProgress' = Fresh.sinceProgress
    /\ pollIn' = Fresh.pollIn
    /\ due' = Fresh.due
    /\ wedged' = FALSE
    /\ timedOut' = FALSE /\ fruitless' = FALSE
    /\ quiet' = 0 /\ steady' = 0

Poll ==
    /\ watching /\ pollIn = 0
    /\ \/ ReceivingTraffic /\ Stalled /\ Restart
       \/ /\ ~(ReceivingTraffic /\ Stalled)
          /\ pollIn' = PollEvery
          /\ UNCHANGED <<watching, sinceRequest, sinceProgress, due, wedged,
                         timedOut, fruitless, quiet, steady, restart>>

-----------------------------------------------------------------------------
(* The environment                                                         *)

\* The silent degradation: from now on every solve hangs.
Decay ==
    /\ ~wedged
    /\ wedged' = TRUE
    /\ UNCHANGED <<watching, sinceRequest, sinceProgress, pollIn, due, timedOut,
                   fruitless, quiet, steady, restart>>

\* Time passes once every timer that is due has fired.
Tick ==
    /\ \A j \in Jobs : due[j] # 0
    /\ watching => pollIn > 0
    /\ sinceRequest' = Capped(sinceRequest + 1)
    /\ sinceProgress' = IF watching THEN Capped(sinceProgress + 1) ELSE 0
    /\ pollIn' = IF watching THEN pollIn - 1 ELSE pollIn
    /\ due' = [j \in Jobs |-> IF due[j] = Free THEN Free ELSE due[j] - 1]
    /\ quiet' = IF watching THEN Larger(quiet, Capped(sinceRequest + 1)) ELSE 0
    /\ steady' = IF sinceRequest + 1 <= TrafficWindow THEN Capped(steady + 1) ELSE 0
    /\ UNCHANGED <<watching, wedged, timedOut, fruitless, restart>>

Next ==
    \/ EndEarly
    \/ \E j \in Jobs : BeginSolve(j) \/ Complete(j) \/ Raise(j) \/ TimeOut(j)
    \/ Poll \/ Decay \/ Tick

Spec == Init /\ [][Next]_vars

-----------------------------------------------------------------------------
(* Properties                                                              *)

\* A wedged process under traffic does not live long: when requests have
\* kept coming since the poll before last, the last progress is younger than
\* the stall window plus one poll.
WedgeIsBounded ==
    steady > PollEvery => sinceProgress < StallWindow + PollEvery

\* The watchdog shoots a process whose every request was a success only
\* after a silence nearly as long as the stall window: concurrent solves,
\* slow solves and bursts alone never add up to a false alarm.
FalseAlarmNeedsSilence ==
    restart.happened /\ ~restart.timedOut /\ ~restart.fruitless
        => restart.quiet >= StallWindow - Budget
=============================================================================
