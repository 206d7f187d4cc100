\* Three solves of one auction (driver, poller, poller again), one restart of
\* each process.
CONSTANTS
    Tasks = {t1, t2, t3}
    MaxRestarts = 1
SPECIFICATION FairSpec
INVARIANTS
    RaceCostsNothing
    DuplicatesNeedRestart
PROPERTIES
    WritersFinish
CHECK_DEADLOCK FALSE
