\* Two overlapping solves; the windows keep the order of the defaults
\* (solve 25 s, poll 30 s, traffic 120 s, stall 600 s).
CONSTANTS
    Jobs = {j1, j2}
    Budget = 2
    PollEvery = 2
    TrafficWindow = 3
    StallWindow = 5
    Horizon = 10
SPECIFICATION Spec
INVARIANTS
    WedgeIsBounded
    FalseAlarmNeedsSilence
SYMMETRY Symmetry
