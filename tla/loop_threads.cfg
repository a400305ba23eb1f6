CONSTANTS
    l1 = l1
    l2 = l2
    p = p
    a = a
    b = b
    c = c
    d = d
    Base = base
    Threads <- MCThreads
    Pool <- MCPool
    Plain = {p}
    Tasks <- MCTasks
    Program <- MCProgram
    Child <- MCChild
\* loops without work sleep, and the owner may wait for ever
CHECK_DEADLOCK FALSE
SPECIFICATION FairSpec
INVARIANTS
    PointersLive
    LoopsBalanced
PROPERTIES
    StartReturns
    FunctorsRun
