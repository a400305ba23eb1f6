CONSTANTS
    Peers = {p1, p2, p3}
    NoPeer = none
    SockFds <- MCSockFds
    MaxFd = 8
    SndBuf = 1
    MaxBytes <- MCMaxBytes
    Talkers = {p3}
    Talk = 3
    MaxEvents = 4
    RecvChunk = 2
    Relay = TRUE
    WriteCompleteSet = TRUE
\* an idle or aborted server really stops
CHECK_DEADLOCK FALSE
SYMMETRY Symmetry
SPECIFICATION Spec
INVARIANTS
    NoByteTwice
    WritingIffOutput
