SPECIFICATION Spec
CONSTANTS
    Players = {p1}
    Strangers = {x}
    Nil = Nil
    Input = {Nil, a}
    Depth = 3
    Ahead = 1
    MaxTick = 5
    MaxStale = 1
    Start <- MCStart
    Step <- MCStep
    Digest <- MCDigest
INVARIANTS TypeOK RingIsRecent DirtyIsRestorable HistoryIsChained DigestsAreOfTheLastRun ArrivedIsPlayed PredictionsStand
PROPERTIES SettledIsFinal JournalIsTrimmed ImplementsSettledHistory
CHECK_DEADLOCK FALSE
