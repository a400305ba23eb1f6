CONSTANTS
    a1 = a1
    a2 = a2
    l1 = l1
    l2 = l2
    l3 = l3
    l4 = l4
    l5 = l5
    Loggers = {main}
    Appenders = {a1, a2}
    Lines <- MCLines
    Program <- MCProgram
    Stops = TRUE
    NoBuffer = null
    Room = 1
    MaxBacklog = 3
    Kept = 2
    FlushEveryN = 3
    TooLong = {l4}
    MaxFailures = 1
\* a log that is stopped comes to rest
CHECK_DEADLOCK FALSE
SPECIFICATION FairSpec
INVARIANTS
    SpareBuffersReturn
    LogIntact
PROPERTIES
    EveryLineWritten
    StopReturns
