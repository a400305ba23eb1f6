------------------------------- MODULE Sockets -------------------------------
(***************************************************************************)
(* What the server sees of the kernel's TCP sockets and of the peers at    *)
(* the other end: the listen queue, the descriptor table, and for each     *)
(* peer that ever connects its one connection.  This is not code of the    *)
(* repository; it is what accept, read, write and close of TcpConnection,  *)
(* Acceptor and Epoller are called on.                                     *)
(***************************************************************************)
EXTENDS Integers, FiniteSets, Sequences

CONSTANTS
    Peers,      \* the remote ends; each connects at most once
    NoPeer,     \* marks a free descriptor
    SockFds,    \* the descriptors accept() can return (RLIMIT_NOFILE)
    SndBuf,     \* bytes the send buffer of a socket holds
    MaxBytes    \* bound: bytes that each peer sends

ASSUME NoPeerAssumption   == NoPeer \notin Peers
ASSUME SockFdsAssumption  == SockFds \subseteq Nat /\ IsFiniteSet(SockFds)
ASSUME SndBufAssumption   == SndBuf \in Nat \ {0}
ASSUME MaxBytesAssumption == MaxBytes \in [Peers -> Nat]

VARIABLES
    backlog,   \* connections that wait for accept()
    fdTable,   \* descriptor -> the peer its socket is connected to
    peer,      \* "idle", "connected", "finished" (sent FIN) or "reset"
    sent,      \* number of bytes the peer has sent
    got,       \* the bytes the peer has received
    rcvq,      \* the server socket's receive queue
    sndq,      \* the server socket's send queue
    soError    \* an error (ECONNRESET) waits to be reported on the socket

sockVars == <<backlog, fdTable, peer, sent, got, rcvq, sndq, soError>>

\* The n-th byte that a peer sends.
Byte == [from : Peers, n : Nat]

Bytes(p, k) == [i \in 1 .. k |-> [from |-> p, n |-> i]]

SocketsInit ==
    /\ backlog = <<>>
    /\ fdTable = [f \in SockFds |-> NoPeer]
    /\ peer = [p \in Peers |-> "idle"]
    /\ sent = [p \in Peers |-> 0]
    /\ got = [p \in Peers |-> <<>>]
    /\ rcvq = [p \in Peers |-> <<>>]
    /\ sndq = [p \in Peers |-> <<>>]
    /\ soError = [p \in Peers |-> FALSE]

------------------------------------------------------------------------------
(* The peers.  The listening socket accepts connections into its queue from   *)
(* the moment the Acceptor exists, and data for a connection in the queue.    *)

Connect(p) ==
    /\ peer[p] = "idle"
    /\ peer' = [peer EXCEPT ![p] = "connected"]
    /\ backlog' = Append(backlog, p)
    /\ UNCHANGED <<fdTable, sent, got, rcvq, sndq, soError>>

SendByte(p) ==
    /\ peer[p] = "connected"
    /\ sent[p] < MaxBytes[p]
    /\ sent' = [sent EXCEPT ![p] = @ + 1]
    /\ rcvq' = [rcvq EXCEPT ![p] = Append(@, [from |-> p, n |-> sent[p] + 1])]
    /\ UNCHANGED <<backlog, fdTable, peer, got, sndq, soError>>

\* The peer receives the next byte.
Receive(p) ==
    /\ peer[p] \in {"connected", "finished"}
    /\ sndq[p] # <<>>
    /\ got' = [got EXCEPT ![p] = Append(@, Head(sndq[p]))]
    /\ sndq' = [sndq EXCEPT ![p] = Tail(@)]
    /\ UNCHANGED <<backlog, fdTable, peer, sent, rcvq, soError>>

\* The peer shuts down its sending side; it still reads.
Finish(p) ==
    /\ peer[p] = "connected"
    /\ peer' = [peer EXCEPT ![p] = "finished"]
    /\ UNCHANGED <<backlog, fdTable, sent, got, rcvq, sndq, soError>>

\* The peer resets the connection: what it has not received is gone.
Reset(p) ==
    /\ peer[p] \in {"connected", "finished"}
    /\ peer' = [peer EXCEPT ![p] = "reset"]
    /\ sndq' = [sndq EXCEPT ![p] = <<>>]
    /\ soError' = [soError EXCEPT ![p] = TRUE]
    /\ UNCHANGED <<backlog, fdTable, sent, got, rcvq>>

PeerNext == \E p \in Peers :
    Connect(p) \/ SendByte(p) \/ Receive(p) \/ Finish(p) \/ Reset(p)

------------------------------------------------------------------------------
(* The system calls, as seen on a descriptor.                                *)

Owner(fd) == IF fd \in SockFds THEN fdTable[fd] ELSE NoPeer
IsOpen(fd) == Owner(fd) # NoPeer

FreeFds == {f \in SockFds : fdTable[f] = NoPeer}

\* Level-triggered readiness of the socket of peer p.  End of file and a reset
\* make it readable; a reset makes it writable too.
SocketEvents(p) ==
    (IF rcvq[p] # <<>> \/ peer[p] \in {"finished", "reset"} THEN {"in"} ELSE {})
    \cup
    (IF Len(sndq[p]) < SndBuf \/ peer[p] = "reset" THEN {"out"} ELSE {})

\* How many of len bytes write(fd, ...) accepts; -1 when it fails: EBADF,
\* ECONNRESET, EPIPE, or EAGAIN when the send buffer is full.
WriteResult(fd, len) ==
    IF \/ ~IsOpen(fd)
       \/ peer[Owner(fd)] = "reset"
       \/ Len(sndq[Owner(fd)]) >= SndBuf
    THEN -1
    ELSE LET room == SndBuf - Len(sndq[Owner(fd)])
         IN  IF len <= room THEN len ELSE room

\* A write to a connection whose reset has been reported already also raises
\* SIGPIPE.
RaisesSigpipe(fd) == IsOpen(fd) /\ peer[Owner(fd)] = "reset" /\ ~soError[Owner(fd)]

\* write(fd, data) when it accepts n > 0 bytes.
Transmit(fd, data, n) ==
    sndq' = [sndq EXCEPT ![Owner(fd)] = @ \o SubSeq(data, 1, n)]

\* How many bytes read(fd, buf, size) returns; 0 at end of file, -1 on an error.
ReadResult(fd, size) ==
    IF ~IsOpen(fd) THEN -1
    ELSE LET p == Owner(fd)
         IN  CASE rcvq[p] # <<>>          -> IF Len(rcvq[p]) <= size THEN Len(rcvq[p]) ELSE size
               [] rcvq[p] = <<>> /\ soError[p]  -> -1
               [] rcvq[p] = <<>> /\ ~soError[p] ->
                    IF peer[p] \in {"finished", "reset"} THEN 0 ELSE -1
=============================================================================
