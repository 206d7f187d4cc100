----------------------------- MODULE WatchdogProofs -----------------------------
(***************************************************************************)
(* For every setting of the windows: how long a wedged process can live,   *)
(* and how long a silence a false alarm takes.                             *)
(***************************************************************************)
EXTENDS Watchdog, TLAPS

USE WindowAssumption DEF Free, Ages, Capped, Larger

\* The values a fresh process, and a process that never restarted, start from.
LEMMA FreshType ==
    /\ Fresh.watching = FALSE
    /\ Fresh.sinceRequest = Horizon /\ Fresh.sinceProgress = 0
    /\ Fresh.pollIn = PollEvery
    /\ Fresh.due = [j \in Jobs |-> Free]
  BY DEF Fresh

\* A process that has just started is of its type.
LEMMA TypeInit == Init => TypeOK
  <1> SUFFICES ASSUME Init PROVE TypeOK
    OBVIOUS
  <1>1. watching \in BOOLEAN /\ wedged \in BOOLEAN
        /\ timedOut \in BOOLEAN /\ fruitless \in BOOLEAN
    BY FreshType DEF Init
  <1>2. /\ sinceRequest \in Ages /\ sinceProgress \in Ages
        /\ quiet \in Ages /\ steady \in Ages /\ pollIn \in 0..PollEvery
        /\ due \in [Jobs -> 0..Free]
    BY FreshType DEF Init
  <1>3. restart \in [happened : BOOLEAN, timedOut : BOOLEAN, fruitless : BOOLEAN,
                     quiet : Ages]
    BY DEF Init, NoRestart
  <1>4. QED
    BY <1>1, <1>2, <1>3 DEF TypeOK

\* Every step keeps the type.
LEMMA TypeStep == TypeOK /\ [Next]_vars => TypeOK'
  <1> SUFFICES ASSUME TypeOK, [Next]_vars PROVE TypeOK'
    OBVIOUS
  <1> USE DEF TypeOK
  <1>1. CASE EndEarly
    BY <1>1 DEF EndEarly, Arrive
  <1>2. ASSUME NEW j \in Jobs, BeginSolve(j) PROVE TypeOK'
    BY <1>2 DEF BeginSolve, Arrive
  <1>3. ASSUME NEW j \in Jobs, Complete(j) PROVE TypeOK'
    <2>1. timedOut' \in BOOLEAN /\ fruitless' \in BOOLEAN
      BY <1>3 DEF Complete
    <2>2. /\ due' \in [Jobs -> 0..Free] /\ sinceProgress' \in Ages /\ quiet' \in Ages
      BY <1>3 DEF Complete
    <2>3. UNCHANGED <<watching, sinceRequest, pollIn, wedged, steady, restart>>
      BY <1>3 DEF Complete
    <2>4. QED
      BY <2>1, <2>2, <2>3
  <1>4. ASSUME NEW j \in Jobs, Raise(j) PROVE TypeOK'
    BY <1>4 DEF Raise
  <1>5. ASSUME NEW j \in Jobs, TimeOut(j) PROVE TypeOK'
    BY <1>5 DEF TimeOut
  <1>6. CASE Poll
    <2>1. CASE Restart
      <3>1. /\ watching' \in BOOLEAN /\ wedged' \in BOOLEAN
            /\ timedOut' \in BOOLEAN /\ fruitless' \in BOOLEAN
        BY <2>1, FreshType DEF Restart
      <3>2. /\ sinceRequest' \in Ages /\ sinceProgress' \in Ages
            /\ quiet' \in Ages /\ steady' \in Ages /\ pollIn' \in 0..PollEvery
            /\ due' \in [Jobs -> 0..Free]
        BY <2>1, FreshType DEF Restart
      <3>3. restart' \in [happened : BOOLEAN, timedOut : BOOLEAN, fruitless : BOOLEAN,
                          quiet : Ages]
        BY <2>1 DEF Restart
      <3>4. QED
        BY <3>1, <3>2, <3>3
    <2>2. CASE /\ pollIn' = PollEvery
               /\ UNCHANGED <<watching, sinceRequest, sinceProgress, due, wedged,
                              timedOut, fruitless, quiet, steady, restart>>
      BY <2>2
    <2>3. QED
      BY <1>6, <2>1, <2>2 DEF Poll
  <1>7. CASE Decay
    BY <1>7 DEF Decay
  <1>8. CASE Tick
    BY <1>8 DEF Tick
  <1>9. CASE UNCHANGED vars
    BY <1>9 DEF vars
  <1>10. QED
    BY <1>1, <1>2, <1>3, <1>4, <1>5, <1>6, <1>7, <1>8, <1>9 DEF Next

\* Every reachable state of the watchdog is well typed.
THEOREM TypeCorrect == Spec => []TypeOK
  BY TypeInit, TypeStep, PTL DEF Spec

-----------------------------------------------------------------------------
(* How long a wedged process lives.  Since the last poll, PollEvery -      *)
(* pollIn ticks have passed.  If traffic has been in the window for longer *)
(* than that, it was at the poll, so the poll did not find a stall.        *)

SincePoll == PollEvery - pollIn

PollInv ==
    watching /\ steady > SincePoll => sinceProgress < StallWindow + SincePoll

\* Until the first request there is nothing to watch.
AsleepInv == ~watching => sinceProgress = 0

SteadyInv == sinceRequest > TrafficWindow => steady = 0

WedgeInv == TypeOK /\ PollInv /\ AsleepInv /\ SteadyInv

\* Between two polls the age of the last progress grows by the time since the poll.
LEMMA WedgeStep == WedgeInv /\ [Next]_vars => WedgeInv'
  <1> SUFFICES ASSUME WedgeInv, [Next]_vars PROVE WedgeInv'
    OBVIOUS
  <1> USE DEF WedgeInv, TypeOK, PollInv, AsleepInv, SteadyInv, SincePoll
  <1>0. TypeOK'
    BY TypeStep
  <1>1. CASE EndEarly
    BY <1>0, <1>1 DEF EndEarly, Arrive
  <1>2. ASSUME NEW j \in Jobs, BeginSolve(j) PROVE WedgeInv'
    BY <1>0, <1>2 DEF BeginSolve, Arrive
  <1>3. ASSUME NEW j \in Jobs, Complete(j) PROVE WedgeInv'
    BY <1>0, <1>3 DEF Complete
  <1>4. ASSUME NEW j \in Jobs, Raise(j) PROVE WedgeInv'
    BY <1>0, <1>4 DEF Raise
  <1>5. ASSUME NEW j \in Jobs, TimeOut(j) PROVE WedgeInv'
    BY <1>0, <1>5 DEF TimeOut
  <1>6. CASE Poll
    <2>1. CASE Restart
      <3>1. watching' = FALSE /\ sinceProgress' = 0 /\ steady' = 0
        BY <2>1, FreshType DEF Restart
      <3>2. QED
        BY <1>0, <3>1
    <2>2. CASE /\ ~(ReceivingTraffic /\ Stalled)
               /\ pollIn' = PollEvery
               /\ UNCHANGED <<watching, sinceRequest, sinceProgress, due, wedged,
                              timedOut, fruitless, quiet, steady, restart>>
      BY <1>0, <2>2 DEF ReceivingTraffic, Stalled
    <2>3. QED
      BY <1>6, <2>1, <2>2 DEF Poll
  <1>7. CASE Decay
    BY <1>0, <1>7 DEF Decay
  <1>8. CASE Tick
    BY <1>0, <1>8 DEF Tick
  <1>9. CASE UNCHANGED vars
    BY <1>9 DEF vars
  <1>10. QED
    BY <1>1, <1>2, <1>3, <1>4, <1>5, <1>6, <1>7, <1>8, <1>9 DEF Next

\* A process that has just started made progress just now.
LEMMA WedgeInit == Init => WedgeInv
  <1> SUFFICES ASSUME Init PROVE WedgeInv
    OBVIOUS
  <1>1. sinceProgress = 0 /\ steady = 0 /\ pollIn = PollEvery
    BY FreshType DEF Init
  <1>2. QED
    BY <1>1, TypeInit DEF WedgeInv, PollInv, AsleepInv, SteadyInv, SincePoll

\* For every setting: a process under steady traffic is never further from
\* its last progress than the stall window and one poll.
THEOREM WedgesAreBounded == Spec => []WedgeIsBounded
  <1>1. WedgeInv => WedgeIsBounded
    BY DEF WedgeInv, PollInv, AsleepInv, SincePoll, TypeOK, WedgeIsBounded
  <1>2. QED
    BY <1>1, WedgeInit, WedgeStep, PTL DEF Spec

-----------------------------------------------------------------------------
(* How long a silence a false alarm takes.  As long as no request failed   *)
(* since the last progress, either none arrived, and the silence is as old *)
(* as the progress, or the first one is still in flight, and its timer     *)
(* tells how recently it arrived.                                          *)

FirstInFlight ==
    \E j \in Jobs : due[j] # Free /\ quiet + Budget >= sinceProgress + due[j]

SilenceInv ==
    timedOut \/ fruitless \/ FirstInFlight
      \/ (sinceRequest >= sinceProgress /\ quiet >= sinceProgress)

AlarmInv == TypeOK /\ AsleepInv /\ SilenceInv /\ FalseAlarmNeedsSilence

\* No restart has happened yet, so there is no evidence to explain.
LEMMA AlarmInit == Init => AlarmInv
  <1> SUFFICES ASSUME Init PROVE AlarmInv
    OBVIOUS
  <1>1. sinceProgress = 0 /\ sinceRequest = Horizon /\ quiet = 0
    BY FreshType DEF Init
  <1>2. restart.happened = FALSE
    BY DEF Init, NoRestart
  <1>3. QED
    BY <1>1, <1>2, TypeInit DEF AlarmInv, AsleepInv, SilenceInv, FalseAlarmNeedsSilence

\* Nothing but a restart rewrites the evidence of a restart.
LEMMA EvidenceKept ==
    FalseAlarmNeedsSilence /\ restart' = restart => FalseAlarmNeedsSilence'
  BY DEF FalseAlarmNeedsSilence

\* What silence or failure explains the age of the progress survives every step.
LEMMA AlarmStep == AlarmInv /\ [Next]_vars => AlarmInv'
  <1> SUFFICES ASSUME AlarmInv, [Next]_vars PROVE AlarmInv'
    OBVIOUS
  <1> USE DEF AsleepInv, SilenceInv, FirstInFlight, TypeOK
  <1>0. TypeOK' /\ TypeOK
    BY TypeStep DEF AlarmInv
  <1>00. SilenceInv /\ AsleepInv /\ FalseAlarmNeedsSilence
    BY DEF AlarmInv
  <1>1. CASE EndEarly
    <2>1. fruitless' /\ restart' = restart /\ watching'
      BY <1>1 DEF EndEarly, Arrive
    <2>2. QED
      BY <1>0, <1>00, <2>1, EvidenceKept DEF AlarmInv
  <1>2. ASSUME NEW j \in Jobs, BeginSolve(j) PROVE AlarmInv'
    <2>1. PICK timeout \in 1..Budget : due' = [due EXCEPT ![j] = timeout]
      BY <1>2 DEF BeginSolve
    <2>2. /\ due[j] = Free /\ watching' /\ restart' = restart /\ sinceRequest' = 0
          /\ UNCHANGED <<timedOut, fruitless, quiet>>
          /\ sinceProgress' = sinceProgress
      BY <1>2, <1>00 DEF BeginSolve, Arrive
    <2>3. SilenceInv'
      <3>1. CASE timedOut \/ fruitless
        BY <2>2, <3>1
      <3>2. ASSUME NEW k \in Jobs, due[k] # Free,
                   quiet + Budget >= sinceProgress + due[k]
            PROVE  FirstInFlight'
        <4>1. due'[k] = due[k]
          BY <1>0, <2>1, <2>2, <3>2
        <4>2. QED
          BY <2>2, <3>2, <4>1
      <3>3. CASE quiet >= sinceProgress
        <4>1. due'[j] = timeout /\ due'[j] # Free
          BY <1>0, <2>1
        <4>2. quiet + Budget >= sinceProgress + timeout
          BY <1>0, <3>3
        <4>3. QED
          BY <2>2, <4>1, <4>2
      <3>4. QED
        BY <1>00, <3>1, <3>2, <3>3
    <2>4. QED
      BY <1>0, <1>00, <2>2, <2>3, EvidenceKept DEF AlarmInv
  <1>3. ASSUME NEW j \in Jobs, Complete(j) PROVE AlarmInv'
    <2>1. /\ sinceProgress' = 0 /\ quiet' = 0 /\ restart' = restart
          /\ sinceRequest' = sinceRequest
      BY <1>3 DEF Complete
    <2>2. QED
      BY <1>0, <1>00, <2>1, EvidenceKept DEF AlarmInv
  <1>4. ASSUME NEW j \in Jobs, Raise(j) PROVE AlarmInv'
    <2>1. fruitless' /\ restart' = restart /\ UNCHANGED <<watching, sinceProgress>>
      BY <1>4 DEF Raise
    <2>2. QED
      BY <1>0, <1>00, <2>1, EvidenceKept DEF AlarmInv
  <1>5. ASSUME NEW j \in Jobs, TimeOut(j) PROVE AlarmInv'
    <2>1. timedOut' /\ restart' = restart /\ UNCHANGED <<watching, sinceProgress>>
      BY <1>5 DEF TimeOut
    <2>2. QED
      BY <1>0, <1>00, <2>1, EvidenceKept DEF AlarmInv
  <1>6. CASE Poll
    <2>1. CASE Restart /\ ReceivingTraffic /\ Stalled
      <3>1. /\ sinceProgress' = 0 /\ sinceRequest' = Horizon /\ quiet' = 0
            /\ restart' = [happened |-> TRUE, timedOut |-> timedOut,
                           fruitless |-> fruitless, quiet |-> quiet]
        BY <2>1, FreshType DEF Restart
      <3>2. AsleepInv' /\ SilenceInv'
        BY <3>1
      <3>3. timedOut \/ fruitless \/ quiet >= StallWindow - Budget
        BY <1>0, <1>00, <2>1 DEF Stalled
      <3>4. restart'.timedOut = timedOut /\ restart'.fruitless = fruitless
            /\ restart'.quiet = quiet
        BY <3>1
      <3>5. FalseAlarmNeedsSilence'
        BY <3>3, <3>4 DEF FalseAlarmNeedsSilence
      <3>6. QED
        BY <1>0, <3>2, <3>5 DEF AlarmInv
    <2>2. CASE UNCHANGED <<watching, sinceRequest, sinceProgress, due, wedged,
                           timedOut, fruitless, quiet, steady, restart>>
      BY <1>0, <1>00, <2>2, EvidenceKept DEF AlarmInv
    <2>3. QED
      BY <1>6, <2>1, <2>2 DEF Poll
  <1>7. CASE Decay \/ UNCHANGED vars
    <2>1. UNCHANGED <<watching, sinceRequest, sinceProgress, due, timedOut,
                      fruitless, quiet, restart>>
      BY <1>7 DEF Decay, vars
    <2>2. QED
      BY <1>0, <1>00, <2>1, EvidenceKept DEF AlarmInv
  <1>8. CASE Tick
    <2>1. /\ watching' = watching /\ restart' = restart
          /\ UNCHANGED <<timedOut, fruitless>>
          /\ sinceRequest' = Capped(sinceRequest + 1)
          /\ due' = [j \in Jobs |-> IF due[j] = Free THEN Free ELSE due[j] - 1]
          /\ \A j \in Jobs : due[j] # 0
      BY <1>8 DEF Tick
    <2>2. AsleepInv'
      BY <1>8 DEF Tick
    <2>3. SilenceInv'
      <3>1. CASE timedOut \/ fruitless
        BY <2>1, <3>1
      <3>2. CASE ~watching
        <4>1. sinceProgress' = 0 /\ quiet' \in Nat /\ sinceRequest' \in Nat
          BY <1>0, <1>8, <3>2 DEF Tick
        <4>2. QED
          BY <4>1
      <3>3. ASSUME watching, NEW k \in Jobs, due[k] # Free,
                   quiet + Budget >= sinceProgress + due[k]
            PROVE  FirstInFlight'
        <4>1. due'[k] = due[k] - 1 /\ due[k] \in 1..Budget
          BY <1>0, <2>1, <3>3
        <4>2. quiet' >= quiet /\ sinceProgress' <= sinceProgress + 1
          BY <1>0, <1>8, <3>3 DEF Tick
        <4>3. quiet' + Budget >= sinceProgress' + due'[k] /\ due'[k] # Free
          BY <1>0, <3>3, <4>1, <4>2
        <4>4. QED
          BY <4>3
      <3>4. CASE watching /\ sinceRequest >= sinceProgress /\ quiet >= sinceProgress
        BY <1>0, <1>8, <3>4 DEF Tick
      <3>5. QED
        BY <1>00, <3>1, <3>2, <3>3, <3>4
    <2>4. QED
      BY <1>0, <1>00, <2>1, <2>2, <2>3, EvidenceKept DEF AlarmInv
  <1>9. QED
    BY <1>1, <1>2, <1>3, <1>4, <1>5, <1>6, <1>7, <1>8 DEF Next

\* For every setting: a process none of whose requests failed is restarted
\* only after a silence of the stall window less one solve budget.
THEOREM FalseAlarmsNeedSilence == Spec => []FalseAlarmNeedsSilence
  <1>1. AlarmInv => FalseAlarmNeedsSilence
    BY DEF AlarmInv
  <1>2. QED
    BY <1>1, AlarmInit, AlarmStep, PTL DEF Spec
=============================================================================
