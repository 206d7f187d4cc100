\* Three callers at two slots; every interleaving of their cancellations.
CONSTANTS
    Callers = {c1, c2, c3}
    Slots = 2
    Attempts = 3
SPECIFICATION FairSpec
INVARIANTS
    SlotsConserved
    FreeSlotIsHandedOn
    QueueIsFair
PROPERTIES
    EveryCallEnds
