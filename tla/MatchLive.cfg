SPECIFICATION MatchFairSpec
CONSTANTS
    h = h
    g = g
    k = k
    a = a
    Players = {h, g, k}
    Host = h
    Nil = Nil
    Input = {Nil, a}
    Plays <- MCPlays
    Depth = 3
    Ahead = 3
    Window = 2
    Lag = 5
    Slack = 1
    MaxTick = 3
    MaxFlight = 1
    MaxLost = 0
    Start <- MCStart
    Step <- MCStep
    Digest <- MCDigest
    LastInputs = 2
    MaxGone = 1
PROPERTIES TheRestFinish
CHECK_DEADLOCK FALSE
