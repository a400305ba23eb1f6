------------------------------ MODULE TcpServer ------------------------------
(***************************************************************************)
(* net::TcpServer with its Acceptor and its TcpConnections, on the event   *)
(* loop that drives them.  The application is the echo server of           *)
(* examples/echoserver: its message callback sends back what it has read.  *)
(* With Relay it is any application that keeps the TcpConnectionPtr it is  *)
(* given in the connection callback and sends what it reads to one of      *)
(* them.                                                                   *)
(*                                                                         *)
(* A TcpConnection is made for each accepted connection, so the peer names *)
(* the object as well.  A handler is one step: the loop is the only        *)
(* thread, and system calls are the only point where it meets the kernel.  *)
(***************************************************************************)
EXTENDS Sockets, SequencesExt, Functions, FiniteSetsExt

CONSTANTS
    MaxEvents,       \* MAXEVENTS of Epoller.h
    RecvChunk,       \* size of the buffer in TcpConnection::handleRead
    Relay,           \* the application keeps connections and sends to any of them
    WriteCompleteSet \* the application sets a write-complete callback

ASSUME MaxEventsAssumption == MaxEvents \in Nat \ {0}
ASSUME RecvChunkAssumption == RecvChunk \in Nat \ {0}
ASSUME AppAssumption == Relay \in BOOLEAN /\ WriteCompleteSet \in BOOLEAN

\* Descriptors 0-3 are the standard streams and epfd_; 5 is the timerfd of
\* a loop without timers, which never becomes readable.
EventFd  == 4
ListenFd == 6
ASSUME DescriptorAssumption == SockFds \cap 0 .. ListenFd = {}

Fds == {EventFd, ListenFd} \cup SockFds

WakeupChannel   == "wakeup"
AcceptorChannel == "acceptor"
Channels == {WakeupChannel, AcceptorChannel} \cup Peers
ASSUME ChannelAssumption == {WakeupChannel, AcceptorChannel} \cap Peers = {}

Functors == [op : {"connectEstablished", "writeComplete"}, conn : Peers]

VARIABLES
    phase, registered, active, pendingFunctors, functors, eventfd, \* EventLoop
    connections,   \* TcpServer::connections_
    fdOf,          \* TcpConnection::fd_
    events,        \* events_ of the connection's Channel
    outputBuf,     \* TcpConnection::outputBuf_
    held,          \* connections the application has kept a pointer to
    crashed        \* "no", or what made the process abort

Loop == INSTANCE EventLoop

loopVars == <<phase, registered, active, pendingFunctors, functors, eventfd>>
connVars == <<connections, fdOf, events, outputBuf, held>>
vars == <<sockVars, loopVars, connVars, crashed>>

Init ==
    /\ SocketsInit
    /\ Loop!Init
    /\ connections = [f \in SockFds |-> NoPeer]
    /\ fdOf = [p \in Peers |-> 0]
    /\ events = [p \in Peers |-> {}]
    /\ outputBuf = [p \in Peers |-> <<>>]
    /\ held = {}
    /\ crashed = "no"

\* The process ends by abort(), an uncaught exception or a signal.
Crash(why) ==
    /\ crashed' = why
    /\ UNCHANGED <<sockVars, loopVars, connVars>>

------------------------------------------------------------------------------
(* Channel and TcpConnection operations.                                   *)

\* Channel::enableReading(true) / enableWriting(true), then Epoller::update.
Enable(p, event) ==
    /\ events' = [events EXCEPT ![p] = @ \cup {event}]
    /\ Loop!EpollUpdate(fdOf[p], p, events[p] \cup {event})

\* Variant of DisableWriting: does nothing.
DisableWritingForgotten(p) == UNCHANGED <<events, registered>>

\* Channel::enableWriting(false).
DisableWriting(p) ==
    /\ events' = [events EXCEPT ![p] = @ \ {"out"}]
    /\ Loop!EpollUpdate(fdOf[p], p, events[p] \ {"out"})

\* Variant of KeepRest: appends the message, not what is left of it.
KeepAll(q, msg, nwrite) == outputBuf' = [outputBuf EXCEPT ![q] = @ \o msg]

\* outputBuf_.append(msg.substr(nwrite)).
KeepRest(q, msg, nwrite) ==
    outputBuf' = [outputBuf EXCEPT ![q] = @ \o SubSeq(msg, nwrite + 1, Len(msg))]

\* TcpConnection::send for a message that is not empty.  A write that fails
\* leaves nwrite = -1, and msg.substr(-1) throws out_of_range.
Send(q, msg) ==
    LET direct == outputBuf[q] = <<>>
        nwrite == IF direct THEN WriteResult(fdOf[q], Len(msg)) ELSE 0
    IN
    IF nwrite = -1
    THEN /\ crashed' = IF RaisesSigpipe(fdOf[q]) THEN "sigpipe" ELSE "send"
         /\ UNCHANGED <<sndq, outputBuf, events, registered, pendingFunctors, eventfd>>
    ELSE
    /\ IF direct THEN Transmit(fdOf[q], msg, nwrite) ELSE UNCHANGED sndq
    /\ IF direct /\ nwrite = Len(msg) /\ WriteCompleteSet
       THEN Loop!QueueInLoop([op |-> "writeComplete", conn |-> q])
       ELSE Loop!QueueNothing
    /\ KeepRest(q, msg, nwrite)
    /\ IF nwrite < Len(msg) /\ "out" \notin events[q]
       THEN Enable(q, "out")
       ELSE UNCHANGED <<events, registered>>
    /\ UNCHANGED crashed

------------------------------------------------------------------------------
(* main(): TcpServer::start(), then loop().                                *)

\* Variant of Start: asks for EPOLLOUT on the listening socket.
StartDeaf ==
    /\ phase = "start"
    /\ Loop!EpollUpdate(ListenFd, AcceptorChannel, {"out"})
    /\ UNCHANGED <<sockVars, connVars, crashed>>
    /\ UNCHANGED <<phase, active, pendingFunctors, functors, eventfd>>

Start ==
    /\ phase = "start"
    /\ Loop!EpollUpdate(ListenFd, AcceptorChannel, {"in"})
    /\ UNCHANGED <<sockVars, connVars, crashed>>
    /\ UNCHANGED <<phase, active, pendingFunctors, functors, eventfd>>

EnterLoop ==
    /\ \E r \in registered : r.ch = AcceptorChannel
    /\ Loop!EnterLoop
    /\ UNCHANGED <<sockVars, connVars, crashed>>

------------------------------------------------------------------------------
(* The loop: epoll_wait and the handlers.                                  *)

Readiness == [f \in Fds |->
    CASE f = EventFd  -> IF eventfd > 0 THEN {"in", "out"} ELSE {"out"}
      [] f = ListenFd -> IF backlog # <<>> THEN {"in"} ELSE {}
      [] OTHER        -> IF IsOpen(f) THEN SocketEvents(fdTable[f]) ELSE {}]

Poll ==
    /\ Loop!Poll(Readiness)
    /\ UNCHANGED <<sockVars, connVars, crashed>>

HandleWakeup ==
    /\ Loop!HandleWakeup
    /\ UNCHANGED <<sockVars, connVars, crashed>>

\* The callback of channel ch for event k is next.
May(ch, k) == \E a \in active : a.ch = ch /\ Loop!MayHandle(a, k)

\* handleEvent() of channel ch runs the callback for event k.
Callback(ch, k) ==
    /\ \E a \in active : a.ch = ch /\ Loop!MayHandle(a, k) /\ Loop!Handled(a, k)
    /\ UNCHANGED <<phase, functors>>

\* Variants of NewConnection: does not queue connectEstablished, does not store
\* the connection, does not wake the loop.
NewConnectionUnqueued(p, sockfd) ==
    /\ connections' = [connections EXCEPT ![sockfd] = p]
    /\ fdOf' = [fdOf EXCEPT ![p] = sockfd]
    /\ Loop!QueueNothing

NewConnectionUnstored(p, sockfd) ==
    /\ UNCHANGED connections
    /\ fdOf' = [fdOf EXCEPT ![p] = sockfd]
    /\ Loop!QueueInLoop([op |-> "connectEstablished", conn |-> p])

NewConnectionUnwoken(p, sockfd) ==
    /\ connections' = [connections EXCEPT ![sockfd] = p]
    /\ fdOf' = [fdOf EXCEPT ![p] = sockfd]
    /\ pendingFunctors' = Append(pendingFunctors, [op |-> "connectEstablished", conn |-> p])
    /\ UNCHANGED eventfd

\* TcpServer::newConnection.
NewConnection(p, sockfd) ==
    /\ connections' = [connections EXCEPT ![sockfd] = p]
    /\ fdOf' = [fdOf EXCEPT ![p] = sockfd]
    /\ Loop!QueueInLoop([op |-> "connectEstablished", conn |-> p])

\* Acceptor::handleRead.
HandleAccept ==
    /\ Callback(AcceptorChannel, "in")
    /\ FreeFds # {} /\ backlog # <<>>
    /\ LET sockfd == Min(FreeFds)
           p == Head(backlog)
       IN  fdTable' = [fdTable EXCEPT ![sockfd] = p] /\ NewConnection(p, sockfd)
    /\ backlog' = Tail(backlog)
    /\ UNCHANGED <<peer, sent, got, rcvq, sndq, soError>>
    /\ UNCHANGED <<registered, events, outputBuf, held, crashed>>

\* accept() finds no free descriptor: assert(sockfd != -1) fails.
AcceptFails ==
    /\ May(AcceptorChannel, "in")
    /\ FreeFds = {}
    /\ Crash("accept")

\* The application's message callback sends what was read, to its own
\* connection or to one that it has kept.
OnMessage(p, msg) == \E q \in IF Relay THEN held ELSE {p} : Send(q, msg)

\* TcpConnection::handleRead with data, which the message callback takes out of
\* inputBuf_ at once.
HandleReadData(p) ==
    LET nread == ReadResult(fdOf[p], RecvChunk)
        owner == Owner(fdOf[p])
    IN
    /\ Callback(p, "in")
    /\ nread > 0
    /\ rcvq' = [rcvq EXCEPT ![owner] = SubSeq(@, nread + 1, Len(@))]
    /\ OnMessage(p, SubSeq(rcvq[owner], 1, nread))
    /\ UNCHANGED <<backlog, fdTable, peer, sent, got, soError>>
    /\ UNCHANGED <<connections, fdOf, held>>

\* Variants of Close: leaves the descriptor open, leaves it on the interest list.
CloseForgotten(p) == UNCHANGED <<fdTable, registered>>

CloseStillWatched(p) ==
    /\ fdTable' = [fdTable EXCEPT ![fdOf[p]] = NoPeer]
    /\ UNCHANGED registered

\* close(fd_).
Close(p) ==
    /\ fdTable' = [fdTable EXCEPT ![fdOf[p]] = NoPeer]
    /\ Loop!EpollForget(fdOf[p])

\* read() returns 0: the descriptor is closed.  The connection stays in
\* connections_, and the close callback is not called.
HandleReadEof(p) ==
    /\ Callback(p, "in")
    /\ ReadResult(fdOf[p], RecvChunk) = 0
    /\ Close(p)
    /\ UNCHANGED <<backlog, peer, sent, got, rcvq, sndq, soError>>
    /\ UNCHANGED <<pendingFunctors, eventfd, connVars, crashed>>

\* read() returns -1: the error is printed, and reported no more.
HandleReadError(p) ==
    /\ Callback(p, "in")
    /\ ReadResult(fdOf[p], RecvChunk) = -1
    /\ soError' = IF IsOpen(fdOf[p]) THEN [soError EXCEPT ![Owner(fdOf[p])] = FALSE]
                                     ELSE soError
    /\ UNCHANGED <<backlog, fdTable, peer, sent, got, rcvq, sndq>>
    /\ UNCHANGED <<registered, pendingFunctors, eventfd, connVars, crashed>>

\* Variant of TakeOutput: what was written stays in the buffer.
TakeOutputForgotten(p, n) == UNCHANGED outputBuf

\* outputBuf_ loses its first n bytes.
TakeOutput(p, n) == outputBuf' = [outputBuf EXCEPT ![p] = SubSeq(@, n + 1, Len(@))]

\* TcpConnection::handleWrite when write() accepts n > 0 bytes.  The
\* write-complete callback is queued whether it is set or not.
HandleWriteSome(p) ==
    LET nwrite == WriteResult(fdOf[p], Len(outputBuf[p])) IN
    /\ Callback(p, "out")
    /\ "out" \in events[p]
    /\ nwrite > 0
    /\ Transmit(fdOf[p], outputBuf[p], nwrite)
    /\ TakeOutput(p, nwrite)
    /\ IF nwrite = Len(outputBuf[p])
       THEN /\ DisableWriting(p)
            /\ Loop!QueueInLoop([op |-> "writeComplete", conn |-> p])
       ELSE UNCHANGED <<events, registered, pendingFunctors, eventfd>>
    /\ UNCHANGED <<backlog, fdTable, peer, sent, got, rcvq, soError>>
    /\ UNCHANGED <<connections, fdOf, held, crashed>>

\* handleWrite when it has nothing to do, or write() fails.
HandleWriteNone(p) ==
    LET nwrite == WriteResult(fdOf[p], Len(outputBuf[p])) IN
    /\ Callback(p, "out")
    /\ "out" \in events[p] => nwrite <= 0
    /\ crashed' = IF "out" \in events[p] /\ RaisesSigpipe(fdOf[p]) THEN "sigpipe" ELSE "no"
    /\ soError' = IF "out" \in events[p] /\ IsOpen(fdOf[p])
                  THEN [soError EXCEPT ![Owner(fdOf[p])] = FALSE]
                  ELSE soError
    /\ UNCHANGED <<backlog, fdTable, peer, sent, got, rcvq, sndq>>
    /\ UNCHANGED <<registered, pendingFunctors, eventfd, connVars>>

------------------------------------------------------------------------------
(* The functors.                                                           *)

DoPendingFunctors ==
    /\ Loop!DoPendingFunctors
    /\ UNCHANGED <<sockVars, connVars, crashed>>

\* The application's connection callback.
OnConnection(p) == held' = IF Relay THEN held \cup {p} ELSE held

\* TcpConnection::connectEstablished, with the connection callback.
ConnectEstablished(p) ==
    /\ Loop!RunFunctor([op |-> "connectEstablished", conn |-> p])
    /\ Enable(p, "in")
    /\ OnConnection(p)
    /\ UNCHANGED <<sockVars, phase, active, pendingFunctors, eventfd>>
    /\ UNCHANGED <<connections, fdOf, outputBuf, crashed>>

\* A write-complete functor calls the callback; an empty one throws
\* bad_function_call.
WriteComplete(p) ==
    /\ Loop!RunFunctor([op |-> "writeComplete", conn |-> p])
    /\ crashed' = IF WriteCompleteSet THEN "no" ELSE "callback"
    /\ UNCHANGED <<sockVars, connVars>>
    /\ UNCHANGED <<phase, registered, active, pendingFunctors, eventfd>>

EndFunctors ==
    /\ Loop!EndFunctors
    /\ UNCHANGED <<sockVars, connVars, crashed>>

------------------------------------------------------------------------------
Handlers(p) ==
    \/ HandleReadData(p)
    \/ HandleReadEof(p)
    \/ HandleReadError(p)
    \/ HandleWriteSome(p)
    \/ HandleWriteNone(p)
    \/ ConnectEstablished(p)
    \/ WriteComplete(p)

\* The server's thread.
ServerNext ==
    /\ crashed = "no"
    /\ \/ Start
       \/ EnterLoop
       \/ Poll
       \/ HandleWakeup
       \/ HandleAccept
       \/ AcceptFails
       \/ \E p \in Peers : Handlers(p)
       \/ DoPendingFunctors
       \/ EndFunctors

\* The peers; what they do to a process that is gone is of no interest.
EnvNext ==
    /\ crashed = "no"
    /\ PeerNext
    /\ UNCHANGED <<loopVars, connVars, crashed>>

Next == ServerNext \/ EnvNext

\* The thread keeps running, and a peer that reads at all goes on reading.
Fairness ==
    /\ WF_vars(ServerNext)
    /\ \A p \in Peers : WF_vars(crashed = "no" /\ Receive(p) /\ UNCHANGED <<loopVars, connVars, crashed>>)

Spec == Init /\ [][Next]_vars
FairSpec == Spec /\ Fairness

------------------------------------------------------------------------------
(* Properties.                                                             *)

\* The variables have the types of the members and of the kernel's tables.
TypeOK ==
    /\ Loop!TypeOK
    /\ backlog \in Seq(Peers)
    /\ fdTable \in [SockFds -> Peers \cup {NoPeer}]
    /\ peer \in [Peers -> {"idle", "connected", "finished", "reset"}]
    /\ sent \in [Peers -> Nat]
    /\ got \in [Peers -> Seq(Byte)]
    /\ rcvq \in [Peers -> Seq(Byte)]
    /\ sndq \in [Peers -> Seq(Byte)]
    /\ soError \in [Peers -> BOOLEAN]
    /\ connections \in [SockFds -> Peers \cup {NoPeer}]
    /\ fdOf \in [Peers -> SockFds \cup {0}]
    /\ events \in [Peers -> SUBSET {"in", "out"}]
    /\ outputBuf \in [Peers -> Seq(Byte)]
    /\ held \subseteq Peers
    /\ crashed \in {"no", "accept", "send", "sigpipe", "callback"}

\* The server's thread is the event loop of EventLoop.tla: each handler and
\* functor is user code of the loop, the rest are its own steps
\* (EventLoop.cc:54-113).  NoLostWakeup and FunctorsInOrder follow.
ImplementsLoop == Loop!Spec

\* The echo server sends back what it read and nothing else, in order, on the
\* connection it came from: at any moment what a peer has received, what is on
\* its way and what is not yet read make up exactly what it has sent.  A
\* partial write, a reused descriptor or a stale event must not mix, drop or
\* repeat a byte (TcpConnection.cc:34-95, TcpServer.cc:26-36).
EchoIntact ==
    crashed = "no" => \A p \in Peers :
        IF peer[p] = "reset"
        THEN IsPrefix(got[p], Bytes(p, sent[p]))
        ELSE got[p] \o sndq[p] \o outputBuf[p] \o rcvq[p] = Bytes(p, sent[p])

\* Whoever the bytes are sent to, no byte is in two places: none is sent twice
\* after a partial write and none stays in a buffer that it has left
\* (TcpConnection.cc:56-95).
Places == {"got", "sndq", "outputBuf", "rcvq"} \X Peers
Stored == [x \in Places |->
    CASE x[1] = "got"       -> got[x[2]]
      [] x[1] = "sndq"      -> sndq[x[2]]
      [] x[1] = "outputBuf" -> outputBuf[x[2]]
      [] x[1] = "rcvq"      -> rcvq[x[2]]]
OncePlaced(s) ==
    \A x, y \in DOMAIN s : \A i \in 1 .. Len(s[x]), j \in 1 .. Len(s[y]) :
        s[x][i] = s[y][j] => x = y /\ i = j
NoByteTwice == crashed = "no" => OncePlaced(Stored)

\* A connection asks for EPOLLOUT exactly while it has output to flush
\* (TcpConnection.cc:56-71, 87-94).
WritingIffOutput ==
    crashed = "no" => \A p \in Peers : "out" \in events[p] <=> outputBuf[p] # <<>>

InFlight(p) ==
    \E i \in 1 .. Len(functors \o pendingFunctors) :
        (functors \o pendingFunctors)[i] = [op |-> "connectEstablished", conn |-> p]

\* Every accepted connection is looked after: its descriptor maps to its own
\* object, and that object either waits for connectEstablished or is watched for
\* reading, never neither and never by another object's channel
\* (TcpServer.cc:26-36, TcpConnection.cc:97-102, Epoller.cc:32-39).
EveryConnectionWatched ==
    /\ TypeOK
    /\ \A f \in SockFds : IsOpen(f) =>
           /\ connections[f] = fdTable[f]
           /\ fdOf[fdTable[f]] = f
           /\ InFlight(fdTable[f]) <=>
                 ~\E r \in registered : r.fd = f /\ r.ch = fdTable[f] /\ "in" \in r.ev
           /\ \A r \in registered : r.fd = f => r.ch = fdTable[f]

\* An event that poll() returned is handled on the socket it was returned for:
\* no handler earlier in the batch closes the descriptor, or closes it and lets
\* accept() reuse it, under a channel later in the batch
\* (EventLoop.cc:61-65, TcpConnection.cc:40, Acceptor.cc:63).
NoStaleEvent ==
    \A a \in active : a.ch \in Peers /\ ~a.started => Owner(fdOf[a.ch]) = a.ch

\* epoll and the batch hold plain pointers to channels.  The echo server keeps no
\* TcpConnectionPtr, so a connection whose channel is in either must be owned by
\* connections_ or by a functor, or it is deleted: also after its descriptor was
\* closed, given to the next connection and with it its place in connections_
\* (Epoller.cc:25-27, TcpServer.cc:26-36, TcpConnection.cc:38-42).
NoDanglingChannel ==
    \A p \in Peers :
        (\E r \in registered \cup active : r.ch = p) =>
            p \in Range(connections) \cup {f.conn : f \in Range(functors) \cup Range(pendingFunctors)}

\* A connection does not wait in the listen queue for ever (Acceptor.cc:59-71).
EveryoneAccepted ==
    \A p \in Peers : p \in Range(backlog) ~> (p \notin Range(backlog) \/ crashed # "no")

\* A connection that the peer has ended gives its descriptor back, also when
\* the read that notices it comes after an error (TcpConnection.cc:38-49).
EveryEndCloses ==
    \A p \in Peers :
        peer[p] \in {"finished", "reset"} ~>
            (crashed # "no" \/ (p \notin Range(backlog) /\ p \notin Range(fdTable)))

\* Output that could not be written at once is written when the peer makes
\* room for it: the ChangeLog calls the reactor complete, and the echo server
\* relies on send() (ChangeLog:4, EchoServer.cc:38, TcpConnection.cc:87-94).
OutputFlushed ==
    \A p \in Peers :
        outputBuf[p] # <<>> ~>
            (outputBuf[p] = <<>> \/ peer[p] \in {"finished", "reset"} \/ crashed # "no")
=============================================================================
