\* Does a logged record stay in the file?
CONSTANTS
    Records = {a1, a2}
    MaxKills = 0
SPECIFICATION Spec
INVARIANTS
    AppendOnly
CHECK_DEADLOCK FALSE
