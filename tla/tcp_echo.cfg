CONSTANTS
    Peers = {p1, p2}
    NoPeer = none
    SockFds <- MCSockFds
    MaxFd = 8
    SndBuf = 1
    MaxBytes <- MCMaxBytes
    Talkers = {p1, p2}
    Talk = 2
    MaxEvents = 4
    RecvChunk = 2
    Relay = FALSE
    WriteCompleteSet = FALSE
\* an idle or aborted server really stops
CHECK_DEADLOCK FALSE
SPECIFICATION FairSpec
INVARIANTS
    EchoIntact
    EveryConnectionWatched
    NoStaleEvent
    NoDanglingChannel
PROPERTIES
    ImplementsLoop
    EveryoneAccepted
    EveryEndCloses
