\* Three answers, two deaths.
CONSTANTS
    Records = {a1, a2, a3}
    MaxKills = 2
SPECIFICATION Spec
INVARIANTS
    LossNeedsRace
    NothingTwice
    CycleHeals
PROPERTIES
    WinnersStick
SYMMETRY Symmetry
CHECK_DEADLOCK FALSE
