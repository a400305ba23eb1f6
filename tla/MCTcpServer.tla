----------------------------- MODULE MCTcpServer -----------------------------
(* Small instances of TcpServer for TLC.  The descriptors that accept() can  *)
(* return are 7 .. MaxFd.                                                    *)
EXTENDS TcpServer

CONSTANTS
    MaxFd,     \* the highest descriptor RLIMIT_NOFILE allows
    Talkers,   \* the peers that send anything
    Talk       \* how many bytes each of them sends

MCSockFds == 7 .. MaxFd
MCMaxBytes == [p \in Peers |-> IF p \in Talkers THEN Talk ELSE 0]

\* Peers that send the same number of bytes are interchangeable in the safety
\* runs.
Symmetry == Permutations(Talkers) \cup Permutations(Peers \ Talkers)
=============================================================================
