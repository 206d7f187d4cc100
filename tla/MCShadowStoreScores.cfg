\* Does the recomputation reach every solved row?
CONSTANTS
    Tasks = {t1, t2}
    MaxRestarts = 0
SPECIFICATION Spec
INVARIANTS
    SolvedRowsAreScored
CHECK_DEADLOCK FALSE
