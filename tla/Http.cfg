SPECIFICATION Spec
CONSTANTS
    main = main
    t1 = t1
    t2 = t2
    Jobs = {1, 2}
    NoJob = 0
    Threads = {t1, t2}
    Callers = {main}
    Main = main
    Limit = 2
    MaxFailures = 1
    Downloads = {1}
    MaxFrames = 4
    MaxRecorded = 1
INVARIANTS NobodyIsStranded AnsweredOnce ReplayTellsTheSame
PROPERTIES EveryRequestIsAnswered
CHECK_DEADLOCK FALSE
