CONSTANTS
    Peers = {p1}
    NoPeer = none
    SockFds <- MCSockFds
    MaxFd = 7
    SndBuf = 1
    MaxBytes <- MCMaxBytes
    Talkers = {p1}
    Talk = 3
    MaxEvents = 4
    RecvChunk = 2
    Relay = FALSE
    WriteCompleteSet = FALSE
\* an idle or aborted server really stops
CHECK_DEADLOCK FALSE
SPECIFICATION FairSpec
PROPERTY OutputFlushed
