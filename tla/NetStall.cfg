SPECIFICATION Spec
CONSTANTS
    h = h
    g = g
    k = k
    a = a
    Players = {h, g}
    Host = h
    Nil = Nil
    Input = {Nil, a}
    Plays <- MCPlays
    Depth = 3
    Ahead = 4
    Window = 2
    Lag = 5
    Slack = 1
    MaxTick = 4
    MaxFlight = 4
    MaxLost = 2
    Start <- MCStart
    Step <- MCStep
    Digest <- MCDigest
INVARIANTS NeverStalled
CHECK_DEADLOCK FALSE
