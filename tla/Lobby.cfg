SPECIFICATION FairSpec
CONSTANTS
    a = a
    b = b
    Players = {a, b}
    Strangers <- MCStrangers
    Cap = 3
    MostSlots = 4
    MaxJoins = 3
    MaxBots = 1
    MaxBreaks = 1
INVARIANTS SlotsHaveOnePlayer RosterIsCurrent NobodyChangesUntold
PROPERTY NobodyWaitsBehind
CHECK_DEADLOCK FALSE
