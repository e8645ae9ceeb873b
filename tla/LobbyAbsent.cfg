SPECIFICATION Spec
CONSTANTS
    a = a
    b = b
    Players = {a, b}
    Strangers <- MCStrangers
    Cap = 3
    MostSlots = 4
    MaxJoins = 2
    MaxBots = 1
    MaxBreaks = 0
INVARIANT AbsenceIsHeard
CHECK_DEADLOCK FALSE
