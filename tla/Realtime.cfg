SPECIFICATION FairSpec
CONSTANTS
    room = room
    me = me
    Topics = {room}
    User = me
    Tries = 2
    MaxRequests = 2
    MaxEnds = 1
    Patient = TRUE
    Orders = {"close", "interrupt"}
    Calls <- MCCalls
INVARIANTS AnsweredOnce RepliesAreTheirOwn HeardInOrder MineIsRejoined LeftStaysLeft
PROPERTIES EveryCallIsAnswered ClosingEnds
CHECK_DEADLOCK FALSE
