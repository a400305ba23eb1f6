CONSTANTS
    p1 = p1
    p2 = p2
    a = a
    b = b
    c = c
    d = d
    e = e
    Workers = {w1, w2}
    Producers <- MCProducers
    Tasks <- MCTasks
    MaxQueueSize = 1
    Program <- MCProgram
    Children <- MCChildren
\* a pool that nobody stops, and one that is stopped, come to rest
CHECK_DEADLOCK FALSE
SPECIFICATION FairSpec
INVARIANTS
    FirstInFirstOut
    NoTaskTwice
    NoTaskWithoutWorker
    NoRoomWithoutProducer
PROPERTIES
    StopReturns
    QueuedTaskBegins
