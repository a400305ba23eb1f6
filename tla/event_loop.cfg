CONSTANTS
    Fds = {efd, s1, s2}
    EventFd = efd
    Channels = {wake, c1, c2}
    WakeupChannel = wake
    Functors = {f1, f2}
    MaxEvents = 2
    MaxPending = 3
\* a loop with nothing to do sleeps in epoll_wait for good
CHECK_DEADLOCK FALSE
SPECIFICATION Spec
CONSTRAINT Bound
INVARIANTS
    NoLostWakeup
PROPERTY FunctorsInOrder
