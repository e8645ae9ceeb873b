SPECIFICATION MatchSpec
CONSTANTS
    h = h
    g = g
    k = k
    a = a
    Players = {h, g}
    Host = h
    Nil = Nil
    Input = {Nil, a}
    Plays <- MCPlays
    Depth = 3
    Ahead = 4
    Window = 2
    Lag = 5
    Slack = 1
    MaxTick = 5
    MaxFlight = 1
    MaxLost = 0
    Start <- MCStart
    Step <- MCStep
    Digest <- MCDigest
    LastInputs = 4
    MaxGone = 1
INVARIANTS NoticesAreTrue
CHECK_DEADLOCK FALSE
