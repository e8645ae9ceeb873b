SPECIFICATION Spec
CONSTANTS
    h = h
    g = g
    k = k
    a = a
    Players = {h, g}
    Host = h
    Nil = Nil
    Input = {Nil, a}
    Plays <- MCPlays
    Depth = 4
    Ahead = 5
    Window = 4
    Lag = 1
    Slack = 1
    MaxTick = 5
    MaxFlight = 1
    MaxLost = 1
    Start <- MCStart
    Step <- MCStep
    Digest <- MCDigest
INVARIANTS PublishedIsFinal NoFalseAlarm SettledIsPublished
PROPERTIES ClaimsAreCompared
CHECK_DEADLOCK FALSE
