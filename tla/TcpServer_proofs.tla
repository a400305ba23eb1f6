--------------------------- MODULE TcpServer_proofs ---------------------------
(***************************************************************************)
(* Proofs about TcpServer, for any peers, descriptors, sizes of the        *)
(* kernel's and the server's buffers, and for both applications where      *)
(* nothing else is said.                                                   *)
(***************************************************************************)
EXTENDS TcpServer, SequenceLemmas, FiniteSetTheorems

------------------------------------------------------------------------------
(* Sequences of bytes that are taken from the front of one place and added   *)
(* to the end of another.                                                    *)

\* The first n elements of s and the rest.
LEMMA Parts ==
    ASSUME NEW S, NEW s \in Seq(S), NEW n \in 0 .. Len(s)
    PROVE  /\ SubSeq(s, 1, n) \in Seq(S)
           /\ Len(SubSeq(s, 1, n)) = n
           /\ \A i \in 1 .. n : SubSeq(s, 1, n)[i] = s[i]
           /\ SubSeq(s, n + 1, Len(s)) \in Seq(S)
           /\ Len(SubSeq(s, n + 1, Len(s))) = Len(s) - n
           /\ \A i \in 1 .. Len(s) - n : SubSeq(s, n + 1, Len(s))[i] = s[n + i]
  <1>1. Len(s) \in Nat /\ \A i \in 1 .. Len(s) : s[i] \in S
    BY LenProperties, ElementOfSeq
  <1>2. \A i \in 1 .. n : s[i] \in S
    BY <1>1
  <1>3. /\ SubSeq(s, 1, n) \in Seq(S)
        /\ Len(SubSeq(s, 1, n)) = IF 1 <= n THEN n - 1 + 1 ELSE 0
        /\ \A i \in 1 .. n - 1 + 1 : SubSeq(s, 1, n)[i] = s[1 + i - 1]
    BY <1>2, SubSeqProperties
  <1>4. \A i \in n + 1 .. Len(s) : s[i] \in S
    BY <1>1
  <1>5. n + 1 \in Int /\ Len(s) \in Int
    BY <1>1
  <1>6. /\ SubSeq(s, n + 1, Len(s)) \in Seq(S)
        /\ Len(SubSeq(s, n + 1, Len(s))) = IF n + 1 <= Len(s) THEN Len(s) - (n + 1) + 1 ELSE 0
        /\ \A i \in 1 .. Len(s) - (n + 1) + 1 : SubSeq(s, n + 1, Len(s))[i] = s[n + 1 + i - 1]
    BY <1>4, <1>5, SubSeqProperties
  <1>7. Len(SubSeq(s, 1, n)) = n /\ \A i \in 1 .. n : SubSeq(s, 1, n)[i] = s[i]
    BY <1>3
  <1>8. /\ Len(SubSeq(s, n + 1, Len(s))) = Len(s) - n
        /\ \A i \in 1 .. Len(s) - n : SubSeq(s, n + 1, Len(s))[i] = s[n + i]
    BY <1>1, <1>6
  <1> QED
    BY <1>3, <1>6, <1>7, <1>8

\* No element is in two places, and all of them are in B.
Once(s, B) ==
    /\ OncePlaced(s)
    /\ \A x \in DOMAIN s : \A i \in 1 .. Len(s[x]) : s[x][i] \in B

Moved(s, x, y, n) ==
    [s EXCEPT ![x] = SubSeq(s[x], n + 1, Len(s[x])), ![y] = s[y] \o SubSeq(s[x], 1, n)]

\* Where the i-th element of z was before n elements at x went behind the m at y.
Origin(x, y, m, n, z, i) ==
    IF z = x THEN <<x, n + i>> ELSE IF z = y /\ i > m THEN <<x, i - m>> ELSE <<z, i>>

\* The first n elements at x go to the end of y.
LEMMA MoveKeepsOnce ==
    ASSUME NEW S, NEW P, NEW s \in [P -> Seq(S)], NEW B, Once(s, B),
           NEW x \in P, NEW y \in P, x # y, NEW n \in 0 .. Len(s[x])
    PROVE  Moved(s, x, y, n) \in [P -> Seq(S)] /\ Once(Moved(s, x, y, n), B)
  <1> DEFINE t == Moved(s, x, y, n)
             front == SubSeq(s[x], 1, n)
             rest == SubSeq(s[x], n + 1, Len(s[x]))
             new == s[y] \o front
  <1>1. /\ front \in Seq(S) /\ Len(front) = n
        /\ \A i \in 1 .. n : front[i] = s[x][i]
        /\ rest \in Seq(S) /\ Len(rest) = Len(s[x]) - n
        /\ \A i \in 1 .. Len(s[x]) - n : rest[i] = s[x][n + i]
    BY Parts
  <1>2. \A z \in P : s[z] \in Seq(S) /\ Len(s[z]) \in Nat
    BY LenProperties
  <1>3. /\ new \in Seq(S) /\ Len(new) = Len(s[y]) + n
        /\ \A i \in 1 .. Len(s[y]) + n :
              new[i] = IF i <= Len(s[y]) THEN s[y][i] ELSE front[i - Len(s[y])]
    <2> HIDE DEF front
    <2>1. s[y] \in Seq(S) /\ front \in Seq(S) /\ Len(front) = n
      BY <1>1, <1>2
    <2> QED
      BY <2>1, ConcatProperties
  <1> HIDE DEF front, rest, new
  <1>4. /\ t = [z \in P |-> IF z = x THEN rest ELSE IF z = y THEN new ELSE s[z]]
        /\ DOMAIN s = P
    BY DEF t, front, rest, new, Moved
  <1> HIDE DEF t
  <1>5. /\ t \in [P -> Seq(S)] /\ DOMAIN t = P
        /\ t[x] = rest /\ t[y] = new
        /\ \A z \in P \ {x, y} : t[z] = s[z]
    BY <1>1, <1>2, <1>3, <1>4
  <1>6. ASSUME NEW z \in P, NEW i \in 1 .. Len(t[z])
        PROVE  \E o \in P : \E k \in 1 .. Len(s[o]) :
                  Origin(x, y, Len(s[y]), n, z, i) = <<o, k>> /\ t[z][i] = s[o][k]
    <2>1. CASE z = x
      <3>1. t[z] = rest /\ n + i \in 1 .. Len(s[x])
        BY <1>1, <1>2, <1>5, <2>1
      <3>2. t[z][i] = s[x][n + i]
        BY <1>1, <1>2, <3>1
      <3>3. Origin(x, y, Len(s[y]), n, z, i) = <<x, n + i>>
        BY <2>1 DEF Origin
      <3> QED
        BY <3>1, <3>2, <3>3
    <2>2. CASE z = y /\ i > Len(s[y])
      <3>1. t[z] = new /\ i - Len(s[y]) \in 1 .. n /\ i - Len(s[y]) \in 1 .. Len(s[x])
        BY <1>2, <1>3, <1>5, <2>2
      <3>2. t[z][i] = s[x][i - Len(s[y])]
        BY <1>1, <1>2, <1>3, <2>2, <3>1
      <3>3. Origin(x, y, Len(s[y]), n, z, i) = <<x, i - Len(s[y])>>
        BY <2>2 DEF Origin
      <3> QED
        BY <3>1, <3>2, <3>3
    <2>3. CASE z # x /\ ~(z = y /\ i > Len(s[y]))
      <3>1. i \in 1 .. Len(s[z]) /\ t[z][i] = s[z][i]
        <4>1. CASE z = y
          BY <1>2, <1>3, <1>5, <2>3, <4>1
        <4>2. CASE z # y
          BY <1>5, <2>3, <4>2
        <4> QED
          BY <4>1, <4>2
      <3>2. Origin(x, y, Len(s[y]), n, z, i) = <<z, i>>
        BY <2>3 DEF Origin
      <3> QED
        BY <3>1, <3>2
    <2> QED
      BY <2>1, <2>2, <2>3
  <1>7. OncePlaced(t)
    <2> SUFFICES ASSUME NEW z \in P, NEW w \in P,
                        NEW i \in 1 .. Len(t[z]), NEW j \in 1 .. Len(t[w]), t[z][i] = t[w][j]
                 PROVE  z = w /\ i = j
      BY <1>5 DEF OncePlaced
    <2>1. PICK o \in P : \E k \in 1 .. Len(s[o]) :
             Origin(x, y, Len(s[y]), n, z, i) = <<o, k>> /\ t[z][i] = s[o][k]
      BY <1>6
    <2>2. PICK k \in 1 .. Len(s[o]) :
             Origin(x, y, Len(s[y]), n, z, i) = <<o, k>> /\ t[z][i] = s[o][k]
      BY <2>1
    <2>3. PICK u \in P : \E l \in 1 .. Len(s[u]) :
             Origin(x, y, Len(s[y]), n, w, j) = <<u, l>> /\ t[w][j] = s[u][l]
      BY <1>6
    <2>4. PICK l \in 1 .. Len(s[u]) :
             Origin(x, y, Len(s[y]), n, w, j) = <<u, l>> /\ t[w][j] = s[u][l]
      BY <2>3
    <2>5. s[o][k] = s[u][l]
      BY <2>2, <2>4
    <2>6. o = u /\ k = l
      BY <1>4, <2>5 DEF Once, OncePlaced
    <2>7. Origin(x, y, Len(s[y]), n, z, i) = Origin(x, y, Len(s[y]), n, w, j)
      BY <2>2, <2>4, <2>6
    <2>8. Len(t[z]) \in Nat /\ Len(t[w]) \in Nat
      BY <1>5, LenProperties
    <2>9. i \in Nat /\ j \in Nat /\ i >= 1 /\ j >= 1 /\ i <= Len(t[z]) /\ j <= Len(t[w])
      BY <2>8
    <2>10. Len(s[y]) \in Nat /\ Len(s[x]) \in Nat
          /\ (z = x => i <= Len(s[x]) - n) /\ (w = x => j <= Len(s[x]) - n)
          /\ (z = y => i <= Len(s[y]) + n) /\ (w = y => j <= Len(s[y]) + n)
      BY <1>1, <1>2, <1>3, <1>5, <2>9
    <2> QED
      BY <2>7, <2>9, <2>10, SMTT(20) DEF Origin
  <1>8. ASSUME NEW z \in P, NEW i \in 1 .. Len(t[z]) PROVE t[z][i] \in B
    <2>1. PICK o \in P : \E k \in 1 .. Len(s[o]) : t[z][i] = s[o][k]
      BY <1>6
    <2> QED
      BY <1>4, <2>1 DEF Once
  <1> QED
    BY <1>5, <1>7, <1>8 DEF Once, t

\* The first n elements at x are gone.
LEMMA DropKeepsOnce ==
    ASSUME NEW S, NEW P, NEW s \in [P -> Seq(S)], NEW B, Once(s, B),
           NEW x \in P, NEW n \in 0 .. Len(s[x]),
           NEW t, t = [s EXCEPT ![x] = SubSeq(s[x], n + 1, Len(s[x]))]
    PROVE  Once(t, B)
  <1> DEFINE rest == SubSeq(s[x], n + 1, Len(s[x]))
  <1>1. /\ Len(rest) = Len(s[x]) - n
        /\ \A i \in 1 .. Len(s[x]) - n : rest[i] = s[x][n + i]
    BY Parts
  <1>2. Len(s[x]) \in Nat
    BY LenProperties
  <1>3. DOMAIN s = P /\ DOMAIN t = P /\ t[x] = rest /\ \A z \in P \ {x} : t[z] = s[z]
    OBVIOUS
  <1> HIDE DEF rest
  <1> DEFINE Off(z) == IF z = x THEN n ELSE 0
  <1>4. ASSUME NEW z \in P, NEW i \in 1 .. Len(t[z])
        PROVE  i + Off(z) \in 1 .. Len(s[z]) /\ t[z][i] = s[z][i + Off(z)]
    BY <1>1, <1>2, <1>3
  <1>5. \A z \in P : Off(z) \in Nat
    BY DEF Off
  <1> HIDE DEF Off
  <1>6. OncePlaced(t)
    <2> SUFFICES ASSUME NEW z \in P, NEW w \in P,
                        NEW i \in 1 .. Len(t[z]), NEW j \in 1 .. Len(t[w]), t[z][i] = t[w][j]
                 PROVE  z = w /\ i = j
      BY <1>3 DEF OncePlaced
    <2>0. /\ i + Off(z) \in 1 .. Len(s[z]) /\ j + Off(w) \in 1 .. Len(s[w])
          /\ s[z][i + Off(z)] = s[w][j + Off(w)]
      BY <1>4
    <2>1. z = w /\ i + Off(z) = j + Off(w)
      BY <1>3, <2>0, SMTT(20) DEF Once, OncePlaced
    <2> QED
      BY <1>5, <2>1
  <1>7. \A z \in P : \A i \in 1 .. Len(t[z]) : t[z][i] \in B
    BY <1>3, <1>4 DEF Once
  <1> QED
    BY <1>3, <1>6, <1>7 DEF Once

\* A new element comes to the end of x.
LEMMA FreshKeepsOnce ==
    ASSUME NEW S, NEW P, NEW s \in [P -> Seq(S)], NEW B, Once(s, B),
           NEW x \in P, NEW e \in S, e \notin B,
           NEW t, t = [s EXCEPT ![x] = Append(s[x], e)]
    PROVE  Once(t, B \cup {e})
  <1> DEFINE new == Append(s[x], e)
  <1>1. /\ Len(s[x]) \in Nat /\ Len(new) = Len(s[x]) + 1
        /\ \A i \in 1 .. Len(s[x]) : new[i] = s[x][i]
        /\ new[Len(s[x]) + 1] = e
    BY AppendProperties, LenProperties
  <1>2. DOMAIN s = P /\ DOMAIN t = P /\ t[x] = new /\ \A z \in P \ {x} : t[z] = s[z]
    OBVIOUS
  <1> HIDE DEF new
  <1>3. ASSUME NEW z \in P, NEW i \in 1 .. Len(t[z])
        PROVE  \/ i \in 1 .. Len(s[z]) /\ t[z][i] = s[z][i] /\ t[z][i] \in B
               \/ z = x /\ i = Len(s[x]) + 1 /\ t[z][i] = e
    BY <1>1, <1>2 DEF Once
  <1>4. OncePlaced(t)
    <2> SUFFICES ASSUME NEW z \in P, NEW w \in P,
                        NEW i \in 1 .. Len(t[z]), NEW j \in 1 .. Len(t[w]), t[z][i] = t[w][j]
                 PROVE  z = w /\ i = j
      BY <1>2 DEF OncePlaced
    <2>1. CASE t[z][i] = e
      BY <1>3, <2>1
    <2>2. CASE t[z][i] # e
      <3>1. /\ i \in 1 .. Len(s[z]) /\ t[z][i] = s[z][i]
            /\ j \in 1 .. Len(s[w]) /\ t[w][j] = s[w][j]
        BY <1>3, <2>2
      <3> QED
        BY <1>2, <3>1 DEF Once, OncePlaced
    <2> QED
      BY <2>1, <2>2
  <1>5. \A z \in P : \A i \in 1 .. Len(t[z]) : t[z][i] \in B \cup {e}
    BY <1>3
  <1> QED
    BY <1>2, <1>4, <1>5 DEF Once

------------------------------------------------------------------------------
(* The names.                                                                *)

LEMMA DescriptorNames ==
    /\ EventFd \in Fds /\ ListenFd \in Fds /\ SockFds \subseteq Fds
    /\ EventFd # ListenFd
    /\ \A f \in SockFds : f # EventFd /\ f # ListenFd /\ f # 0
  BY DescriptorAssumption DEF Fds, EventFd, ListenFd

LEMMA ChannelNames ==
    /\ WakeupChannel \in Channels /\ AcceptorChannel \in Channels /\ Peers \subseteq Channels
    /\ WakeupChannel # AcceptorChannel
    /\ \A p \in Peers : p # WakeupChannel /\ p # AcceptorChannel
  BY ChannelAssumption DEF Channels, WakeupChannel, AcceptorChannel

WakeupRegistration   == [fd |-> EventFd, ch |-> WakeupChannel, ev |-> {"in"}]
AcceptorRegistration == [fd |-> ListenFd, ch |-> AcceptorChannel, ev |-> {"in"}]

Established(p) == [op |-> "connectEstablished", conn |-> p]
Completed(p)   == [op |-> "writeComplete", conn |-> p]

LEMMA FunctorNames ==
    /\ \A p \in Peers : Established(p) \in Functors /\ Completed(p) \in Functors
    /\ \A p : Established(p).conn = p /\ Completed(p).conn = p
    /\ \A p : Established(p).op = "connectEstablished" /\ Completed(p).op = "writeComplete"
  BY DEF Established, Completed, Functors

------------------------------------------------------------------------------
(* The loop below the server is the one of EventLoop_proofs.                 *)

LoopProofs == INSTANCE EventLoop_proofs

LEMMA SameNext == Loop!Next <=> LoopProofs!Next
  <1>1. Loop!UserCode <=> LoopProofs!UserCode
    BY Zenon DEF Loop!UserCode, LoopProofs!UserCode, Loop!QueueNothing,
       LoopProofs!QueueNothing, Loop!QueueInLoop, LoopProofs!QueueInLoop,
       Loop!EpollForget, LoopProofs!EpollForget, Loop!EpollUpdate,
       LoopProofs!EpollUpdate, Loop!Events, LoopProofs!Events
  <1>2. ASSUME NEW a, NEW k
        PROVE  /\ Loop!MayHandle(a, k) <=> LoopProofs!MayHandle(a, k)
               /\ Loop!Running(a) <=> LoopProofs!Running(a)
               /\ Loop!Handled(a, k) <=> LoopProofs!Handled(a, k)
    BY Zenon DEF Loop!MayHandle, LoopProofs!MayHandle, Loop!Running,
       LoopProofs!Running, Loop!Handled, LoopProofs!Handled
  <1>3. ASSUME NEW r PROVE Loop!Poll(r) <=> LoopProofs!Poll(r)
    <2>1. Loop!Ready(r) = LoopProofs!Ready(r)
      BY Zenon DEF Loop!Ready, LoopProofs!Ready
    <2>2. ASSUME NEW hits PROVE Loop!Cardinality(hits) = LoopProofs!Cardinality(hits)
      BY Zenon DEF Loop!Cardinality, LoopProofs!Cardinality
    <2> QED
      BY <2>1, <2>2, Zenon DEF Loop!Poll, LoopProofs!Poll
  <1>4. Loop!Readiness = LoopProofs!Readiness
    BY Zenon DEF Loop!Readiness, LoopProofs!Readiness, Loop!Events,
       LoopProofs!Events
  <1>5. Loop!BeforeLoop <=> LoopProofs!BeforeLoop
    BY <1>1, Zenon DEF Loop!BeforeLoop, LoopProofs!BeforeLoop
  <1>6. /\ Loop!EnterLoop <=> LoopProofs!EnterLoop
        /\ Loop!DoPendingFunctors <=> LoopProofs!DoPendingFunctors
        /\ Loop!EndFunctors <=> LoopProofs!EndFunctors
    BY Zenon DEF Loop!EnterLoop, LoopProofs!EnterLoop, Loop!DoPendingFunctors,
       LoopProofs!DoPendingFunctors, Loop!EndFunctors, LoopProofs!EndFunctors
  <1>7. Loop!HandleWakeup <=> LoopProofs!HandleWakeup
    BY <1>2, Zenon DEF Loop!HandleWakeup, LoopProofs!HandleWakeup
  <1>8. Loop!HandleEvent <=> LoopProofs!HandleEvent
    BY <1>1, <1>2, Zenon DEF Loop!HandleEvent, LoopProofs!HandleEvent,
       Loop!Events, LoopProofs!Events
  <1>9. Loop!CallFunctor <=> LoopProofs!CallFunctor
    BY <1>1, Zenon DEF Loop!CallFunctor, LoopProofs!CallFunctor,
       Loop!RunFunctor, LoopProofs!RunFunctor
  <1> QED
    BY <1>3, <1>4, <1>5, <1>6, <1>7, <1>8, <1>9, Zenon DEF Loop!Next, LoopProofs!Next

\* What EventLoop_proofs shows of the loop.
LoopInv == LoopProofs!IInv

LEMMA LoopInvTypes ==
    LoopInv =>
        /\ Loop!TypeOK
        /\ phase # "functors" => functors = <<>>
        /\ WakeupRegistration \in registered
  BY DEF Loop!TypeOK, LoopProofs!TypeOK, Loop!Registration,
     LoopProofs!Registration, Loop!Activation, LoopProofs!Activation,
     Loop!Events, LoopProofs!Events,
     LoopInv, LoopProofs!IInv, LoopProofs!WakeupRegistered, WakeupRegistration

LEMMA InitLoopInv == Init => LoopInv
  <1>1. Init => LoopProofs!Init
    BY Zenon DEF Init, Loop!Init, LoopProofs!Init
  <1> QED
    BY <1>1, DescriptorNames, ChannelNames, MaxEventsAssumption, LoopProofs!InitIInv DEF LoopInv

LEMMA NextLoopInv == LoopInv /\ [Loop!Next]_(Loop!vars) => LoopInv'
  <1>1. LoopProofs!IInv /\ [LoopProofs!Next]_(LoopProofs!vars) => LoopProofs!IInv'
    BY DescriptorNames, ChannelNames, MaxEventsAssumption, LoopProofs!NextIInv
  <1>2. [Loop!Next]_(Loop!vars) => [LoopProofs!Next]_(LoopProofs!vars)
    BY SameNext DEF Loop!vars, LoopProofs!vars
  <1> QED
    BY <1>1, <1>2 DEF LoopInv

------------------------------------------------------------------------------
(* The queue of functors, the descriptors and the system calls.              *)

Queue == functors \o pendingFunctors

LEMMA QueueSteps ==
    ASSUME LoopInv
    PROVE  /\ Queue \in Seq(Functors)
           /\ Loop!QueueNothing /\ UNCHANGED functors => Queue' = Queue
           /\ \A f \in Functors :
                 Loop!QueueInLoop(f) /\ UNCHANGED functors => Queue' = Append(Queue, f)
           /\ \A f : Loop!RunFunctor(f) /\ UNCHANGED pendingFunctors =>
                 Queue # <<>> /\ f = Head(Queue) /\ Queue' = Tail(Queue)
           /\ Loop!DoPendingFunctors => Queue' = Queue
  <1>1. functors \in Seq(Functors) /\ pendingFunctors \in Seq(Functors)
    BY LoopInvTypes DEF Loop!TypeOK
  <1>2. Queue \in Seq(Functors)
    BY <1>1, ConcatProperties DEF Queue
  <1>3. Loop!QueueNothing /\ UNCHANGED functors => Queue' = Queue
    BY DEF Loop!QueueNothing, Queue
  <1>4. ASSUME NEW f \in Functors, Loop!QueueInLoop(f), UNCHANGED functors
        PROVE  Queue' = Append(Queue, f)
    <2>1. functors \o Append(pendingFunctors, f) = Append(functors \o pendingFunctors, f)
      BY <1>1, AppendConcat
    <2> QED
      BY <1>4, <2>1 DEF Loop!QueueInLoop, Queue
  <1>5. ASSUME NEW f, Loop!RunFunctor(f), UNCHANGED pendingFunctors
        PROVE  Queue # <<>> /\ f = Head(Queue) /\ Queue' = Tail(Queue)
    <2>1. functors # <<>> /\ f = Head(functors) /\ functors' = Tail(functors)
      BY <1>5 DEF Loop!RunFunctor
    <2>2. Queue # <<>> /\ Tail(functors) \o pendingFunctors = Tail(Queue)
      BY <1>1, <2>1, TailConcat DEF Queue
    <2>3. Len(functors) \in Nat \ {0} /\ Len(pendingFunctors) \in Nat
      BY <1>1, <2>1, EmptySeq, LenProperties
    <2>4. Queue[1] = functors[1]
      BY <1>1, <2>3, ConcatProperties DEF Queue
    <2> QED
      BY <1>1, <1>2, <1>5, <2>1, <2>2, <2>4 DEF Queue
  <1>6. Loop!DoPendingFunctors => Queue' = Queue
    <2> SUFFICES ASSUME Loop!DoPendingFunctors PROVE Queue' = Queue
      OBVIOUS
    <2>1. functors = <<>> /\ functors' = pendingFunctors /\ pendingFunctors' = <<>>
      BY LoopInvTypes DEF Loop!DoPendingFunctors
    <2>2. <<>> \o pendingFunctors = pendingFunctors /\ pendingFunctors \o <<>> = pendingFunctors
      BY <1>1, ConcatEmptySeq
    <2> QED
      BY <2>1, <2>2 DEF Queue
  <1> QED
    BY <1>2, <1>3, <1>4, <1>5, <1>6

\* accept() returns a free descriptor.
LEMMA LowestFree ==
    ASSUME FreeFds # {}
    PROVE  Min(FreeFds) \in SockFds /\ fdTable[Min(FreeFds)] = NoPeer
  <1>1. FreeFds \in SUBSET Nat
    BY SockFdsAssumption DEF FreeFds
  <1>2. \E m \in FreeFds : \A n \in FreeFds : m <= n
    BY <1>1, LeastNatural
  <1>3. Min(FreeFds) \in FreeFds
    BY <1>2 DEF Min
  <1> QED
    BY <1>3 DEF FreeFds

SockTypes ==
    /\ backlog \in Seq(Peers)
    /\ fdTable \in [SockFds -> Peers \cup {NoPeer}]
    /\ peer \in [Peers -> {"idle", "connected", "finished", "reset"}]
    /\ sent \in [Peers -> Nat]
    /\ got \in [Peers -> Seq(Byte)]
    /\ rcvq \in [Peers -> Seq(Byte)]
    /\ sndq \in [Peers -> Seq(Byte)]
    /\ soError \in [Peers -> BOOLEAN]

ConnTypes ==
    /\ connections \in [SockFds -> Peers \cup {NoPeer}]
    /\ fdOf \in [Peers -> SockFds \cup {0}]
    /\ events \in [Peers -> SUBSET {"in", "out"}]
    /\ outputBuf \in [Peers -> Seq(Byte)]
    /\ held \subseteq Peers
    /\ crashed \in {"no", "accept", "send", "sigpipe", "callback"}

LEMMA OpenIs ==
    ASSUME SockTypes, NEW fd, IsOpen(fd)
    PROVE  fd \in SockFds /\ Owner(fd) = fdTable[fd] /\ Owner(fd) \in Peers
  BY DEF SockTypes, IsOpen, Owner

\* write() that does not fail takes at least one byte, and no more than there are.
LEMMA WriteTakes ==
    ASSUME SockTypes, NEW fd, NEW len \in Nat \ {0}, WriteResult(fd, len) # -1
    PROVE  /\ fd \in SockFds /\ Owner(fd) = fdTable[fd] /\ Owner(fd) \in Peers
           /\ peer[Owner(fd)] # "reset"
           /\ WriteResult(fd, len) \in 1 .. len
  <1>1. /\ IsOpen(fd) /\ peer[Owner(fd)] # "reset" /\ ~(Len(sndq[Owner(fd)]) >= SndBuf)
        /\ WriteResult(fd, len) = LET room == SndBuf - Len(sndq[Owner(fd)])
                                  IN  IF len <= room THEN len ELSE room
    BY DEF WriteResult
  <1>2. fd \in SockFds /\ Owner(fd) = fdTable[fd] /\ Owner(fd) \in Peers
    BY <1>1, OpenIs
  <1>3. Len(sndq[Owner(fd)]) \in Nat
    BY <1>2 DEF SockTypes
  <1> QED
    BY <1>1, <1>2, <1>3, SndBufAssumption

\* read() that returns data takes it from the front of the receive queue.
LEMMA ReadTakes ==
    ASSUME SockTypes, NEW fd, ReadResult(fd, RecvChunk) > 0
    PROVE  /\ fd \in SockFds /\ Owner(fd) = fdTable[fd] /\ Owner(fd) \in Peers
           /\ ReadResult(fd, RecvChunk) \in 1 .. Len(rcvq[Owner(fd)])
  <1>1. IsOpen(fd)
    BY DEF ReadResult
  <1>2. fd \in SockFds /\ Owner(fd) = fdTable[fd] /\ Owner(fd) \in Peers
    BY <1>1, OpenIs
  <1> DEFINE q == rcvq[Owner(fd)]
  <1>3. q \in Seq(Byte) /\ Len(q) \in Nat
    BY <1>2 DEF SockTypes
  <1>4. soError[Owner(fd)] \in BOOLEAN
    BY <1>2 DEF SockTypes
  <1>5. CASE q # <<>>
    <2>1. ReadResult(fd, RecvChunk) = IF Len(q) <= RecvChunk THEN Len(q) ELSE RecvChunk
      BY <1>1, <1>5 DEF ReadResult
    <2>2. Len(q) > 0
      BY <1>3, <1>5, EmptySeq
    <2> QED
      BY <1>2, <1>3, <2>1, <2>2, RecvChunkAssumption
  <1>6. CASE q = <<>>
    <2>1. ReadResult(fd, RecvChunk) \in {-1, 0}
      BY <1>1, <1>4, <1>6 DEF ReadResult
    <2> QED
      BY <2>1
  <1> QED
    BY <1>5, <1>6

\* What send() does when its write, if there is one, takes n bytes.
Sends(q, msg, n) ==
    /\ IF n > 0
       THEN /\ outputBuf[q] = <<>>
            /\ fdOf[q] \in SockFds /\ Owner(fdOf[q]) = fdTable[fdOf[q]] /\ Owner(fdOf[q]) \in Peers
            /\ peer[Owner(fdOf[q])] # "reset"
            /\ Transmit(fdOf[q], msg, n)
       ELSE outputBuf[q] # <<>> /\ UNCHANGED sndq
    /\ Loop!QueueNothing \/ Loop!QueueInLoop(Completed(q))
    /\ KeepRest(q, msg, n)
    /\ IF n < Len(msg) /\ "out" \notin events[q]
       THEN Enable(q, "out")
       ELSE UNCHANGED <<events, registered>>
    /\ UNCHANGED crashed

SendFails ==
    /\ crashed' \in {"sigpipe", "send"}
    /\ UNCHANGED <<sndq, outputBuf, events, registered, pendingFunctors, eventfd>>

LEMMA SendCases ==
    ASSUME SockTypes, ConnTypes, NEW q \in Peers, NEW msg \in Seq(Byte), msg # <<>>, Send(q, msg)
    PROVE  SendFails \/ \E n \in 0 .. Len(msg) : Sends(q, msg, n)
  <1> DEFINE direct == outputBuf[q] = <<>>
             nwrite == IF direct THEN WriteResult(fdOf[q], Len(msg)) ELSE 0
  <1>1. Len(msg) \in Nat \ {0}
    BY EmptySeq
  <1>2. CASE nwrite = -1
    BY <1>2 DEF Send, SendFails
  <1>3. CASE nwrite # -1
    <2>1. /\ IF direct THEN Transmit(fdOf[q], msg, nwrite) ELSE UNCHANGED sndq
          /\ IF direct /\ nwrite = Len(msg) /\ WriteCompleteSet
             THEN Loop!QueueInLoop([op |-> "writeComplete", conn |-> q])
             ELSE Loop!QueueNothing
          /\ KeepRest(q, msg, nwrite)
          /\ IF nwrite < Len(msg) /\ "out" \notin events[q]
             THEN Enable(q, "out")
             ELSE UNCHANGED <<events, registered>>
          /\ UNCHANGED crashed
      BY <1>3, Zenon DEF Send
    <2>2. CASE direct
      <3>1. /\ fdOf[q] \in SockFds /\ Owner(fdOf[q]) = fdTable[fdOf[q]] /\ Owner(fdOf[q]) \in Peers
            /\ peer[Owner(fdOf[q])] # "reset"
            /\ nwrite \in 1 .. Len(msg)
        BY <1>1, <1>3, <2>2, WriteTakes
      <3> HIDE DEF nwrite
      <3>2. nwrite > 0 /\ nwrite \in 0 .. Len(msg)
        BY <1>1, <3>1
      <3>3. Sends(q, msg, nwrite)
        BY <2>1, <2>2, <3>1, <3>2 DEF Sends, Completed
      <3> QED
        BY <3>2, <3>3
    <2>3. CASE ~direct
      <3>1. nwrite = 0 /\ ~(0 > 0) /\ 0 \in 0 .. Len(msg)
        BY <1>1, <2>3
      <3> HIDE DEF nwrite
      <3>2. Sends(q, msg, 0)
        BY <2>1, <2>3, <3>1 DEF Sends
      <3> QED
        BY <3>1, <3>2
    <2> QED
      BY <2>2, <2>3
  <1> QED
    BY <1>2, <1>3

------------------------------------------------------------------------------
(* The handlers.                                                             *)

Accepted == {p \in Peers : fdOf[p] \in SockFds}

\* The connections whose members a handler may be in.
Callable == {p \in Accepted : Relay => p \in held}

\* A connection is in the listen queue once, and before it has a descriptor.
BacklogInv ==
    /\ Distinct(backlog)
    /\ \A p \in Elements(backlog) : fdOf[p] = 0 /\ peer[p] # "idle"
    /\ \A p \in Peers : peer[p] = "idle" => fdOf[p] = 0

\* The connection of an open descriptor is stored under it and uses it.
TableInv ==
    \A f \in SockFds : fdTable[f] # NoPeer =>
        connections[f] = fdTable[f] /\ fdOf[fdTable[f]] = f

\* Whatever may be called belongs to a connection that was given a descriptor.
\* Its channel is never known to epoll under another number.
CallInv ==
    /\ held \subseteq Accepted
    /\ \A f \in Elements(Queue) : f.conn \in Accepted
    /\ \A a \in active : a.ch \in Peers => a.ch \in Callable
    /\ \A r \in registered :
          \/ r \in {WakeupRegistration, AcceptorRegistration}
          \/ r.ch \in Callable /\ r.fd = fdOf[r.ch]

ConnInv == LoopInv /\ SockTypes /\ ConnTypes /\ BacklogInv /\ TableInv /\ CallInv

LEMMA CallbackIs ==
    ASSUME LoopInv, NEW ch, NEW k, Callback(ch, k)
    PROVE  \E a \in active : /\ a.ch = ch /\ k \in a.ev
                             /\ k = "out" => "in" \notin a.ev
                             /\ a.started \/ \A b \in active : ~b.started
                             /\ phase = "events"
                             /\ a.ev = {k} => active' = active \ {a}
                             /\ \A b \in active' : b \in active \/ b.ch = ch
  <1>1. PICK a \in active : a.ch = ch /\ Loop!MayHandle(a, k) /\ Loop!Handled(a, k)
    BY Zenon DEF Callback
  <1>2. a \in [ch : Channels, ev : SUBSET Loop!Events, started : BOOLEAN]
    BY LoopInvTypes DEF Loop!TypeOK, Loop!Activation
  <1>3. [a EXCEPT !.ev = a.ev \ {k}, !.started = TRUE].ch = ch
    BY <1>1, <1>2
  <1>4. a.ev = {k} => active' = active \ {a}
    BY <1>1 DEF Loop!Handled
  <1>5. \A b \in active' : b \in active \/ b.ch = ch
    BY <1>1, <1>3 DEF Loop!Handled
  <1>6. /\ k \in a.ev /\ phase = "events"
        /\ k = "out" => "in" \notin a.ev
        /\ a.started \/ \A b \in active : ~b.started
    BY <1>1 DEF Loop!MayHandle
  <1> QED
    BY <1>1, <1>4, <1>5, <1>6

\* handleRead() takes k bytes out of the receive queue.
Reads(p, k) ==
    /\ fdOf[p] \in SockFds /\ Owner(fdOf[p]) = fdTable[fdOf[p]] /\ Owner(fdOf[p]) \in Peers
    /\ k \in 1 .. Len(rcvq[Owner(fdOf[p])])
    /\ rcvq' = [rcvq EXCEPT ![Owner(fdOf[p])] = SubSeq(@, k + 1, Len(@))]

Message(p, k) == SubSeq(rcvq[Owner(fdOf[p])], 1, k)

LEMMA ReadCases ==
    ASSUME SockTypes, ConnTypes, NEW p \in Peers, HandleReadData(p)
    PROVE  \E k \in Nat : \E q \in Peers :
              /\ Reads(p, k)
              /\ q \in IF Relay THEN held ELSE {p}
              /\ Message(p, k) \in Seq(Byte) /\ Len(Message(p, k)) = k
              /\ SendFails \/ \E n \in 0 .. k : Sends(q, Message(p, k), n)
  <1> DEFINE k == ReadResult(fdOf[p], RecvChunk)
             o == Owner(fdOf[p])
  <1>1. /\ k > 0
        /\ rcvq' = [rcvq EXCEPT ![o] = SubSeq(@, k + 1, Len(@))]
        /\ OnMessage(p, SubSeq(rcvq[o], 1, k))
    BY Zenon DEF HandleReadData
  <1>2. fdOf[p] \in SockFds /\ o = fdTable[fdOf[p]] /\ o \in Peers /\ k \in 1 .. Len(rcvq[o])
    BY <1>1, ReadTakes
  <1>3. rcvq[o] \in Seq(Byte) /\ Len(rcvq[o]) \in Nat
    BY <1>2, LenProperties DEF SockTypes
  <1> HIDE DEF k, o
  <1>4. k \in Nat /\ k \in 0 .. Len(rcvq[o]) /\ k > 0
    BY <1>2, <1>3
  <1> DEFINE msg == SubSeq(rcvq[o], 1, k)
  <1>5. msg \in Seq(Byte) /\ Len(msg) = k
    BY <1>3, <1>4, Parts
  <1>6. msg # <<>>
    BY <1>4, <1>5
  <1>7. PICK q \in IF Relay THEN held ELSE {p} : Send(q, msg)
    BY <1>1, Zenon DEF OnMessage, msg
  <1>8. q \in Peers
    BY <1>7 DEF ConnTypes
  <1> HIDE DEF msg
  <1>9. SendFails \/ \E n \in 0 .. Len(msg) : Sends(q, msg, n)
    BY <1>5, <1>6, <1>7, <1>8, SendCases
  <1>10. Reads(p, k) /\ Message(p, k) = msg
    BY <1>1, <1>2, <1>4 DEF Reads, Message, o, msg
  <1> QED
    BY <1>4, <1>5, <1>7, <1>8, <1>9, <1>10

\* handleWrite() writes n bytes.
Writes(p, n) ==
    /\ n \in 1 .. Len(outputBuf[p])
    /\ fdOf[p] \in SockFds /\ Owner(fdOf[p]) = fdTable[fdOf[p]] /\ Owner(fdOf[p]) \in Peers
    /\ peer[Owner(fdOf[p])] # "reset"
    /\ Transmit(fdOf[p], outputBuf[p], n)
    /\ TakeOutput(p, n)
    /\ IF n = Len(outputBuf[p])
       THEN DisableWriting(p) /\ Loop!QueueInLoop(Completed(p))
       ELSE UNCHANGED <<events, registered, pendingFunctors, eventfd>>

LEMMA WriteCases ==
    ASSUME SockTypes, ConnTypes, NEW p \in Peers, HandleWriteSome(p)
    PROVE  \E n \in Nat : Writes(p, n)
  <1> DEFINE n == WriteResult(fdOf[p], Len(outputBuf[p]))
  <1>1. /\ n > 0
        /\ Transmit(fdOf[p], outputBuf[p], n)
        /\ TakeOutput(p, n)
        /\ IF n = Len(outputBuf[p])
           THEN DisableWriting(p) /\ Loop!QueueInLoop([op |-> "writeComplete", conn |-> p])
           ELSE UNCHANGED <<events, registered, pendingFunctors, eventfd>>
    BY Zenon DEF HandleWriteSome
  <1>2. Len(outputBuf[p]) \in Nat
    BY LenProperties DEF ConnTypes
  <1>3. Len(outputBuf[p]) # 0
    <2> SUFFICES ASSUME Len(outputBuf[p]) = 0 PROVE FALSE
      OBVIOUS
    <2>1. n = -1 \/ n = 0 \/ n = SndBuf - Len(sndq[Owner(fdOf[p])])
      BY DEF WriteResult
    <2>2. CASE n = SndBuf - Len(sndq[Owner(fdOf[p])])
      <3>1. /\ IsOpen(fdOf[p]) /\ peer[Owner(fdOf[p])] # "reset"
            /\ ~(Len(sndq[Owner(fdOf[p])]) >= SndBuf)
        BY <1>1 DEF WriteResult
      <3>2. Len(sndq[Owner(fdOf[p])]) \in Nat
        BY <3>1, OpenIs, LenProperties DEF SockTypes
      <3>3. 0 <= SndBuf - Len(sndq[Owner(fdOf[p])])
        BY <3>1, <3>2, SndBufAssumption
      <3>4. n = 0
        BY <3>1, <3>3 DEF WriteResult
      <3> QED
        BY <1>1, <3>4
    <2> QED
      BY <1>1, <2>1, <2>2
  <1>4. /\ fdOf[p] \in SockFds /\ Owner(fdOf[p]) = fdTable[fdOf[p]] /\ Owner(fdOf[p]) \in Peers
        /\ peer[Owner(fdOf[p])] # "reset"
        /\ n \in 1 .. Len(outputBuf[p])
    BY <1>1, <1>2, <1>3, WriteTakes
  <1> HIDE DEF n
  <1>5. n \in Nat
    BY <1>2, <1>4
  <1> QED
    BY <1>1, <1>4, <1>5 DEF Writes, Completed

------------------------------------------------------------------------------
(* The thread is an event loop.                                              *)

\* What user code of the server gives to queueInLoop() and to epoll.
Queues == Loop!QueueNothing \/ \E q \in Accepted : Loop!QueueInLoop(Completed(q))

Registers ==
    \/ UNCHANGED registered
    \/ \E fd \in SockFds : Loop!EpollForget(fd)
    \/ \E q \in Accepted, ev \in SUBSET Loop!Events :
          (Relay => q \in held') /\ Loop!EpollUpdate(fdOf[q], q, ev)

LEMMA IsUserCode ==
    ASSUME Loop!QueueNothing \/ \E f \in Functors : Loop!QueueInLoop(f), Registers
    PROVE  Loop!UserCode
  <1>1. CASE UNCHANGED registered
    BY <1>1 DEF Loop!UserCode
  <1>2. CASE \E fd \in SockFds : Loop!EpollForget(fd)
    <2>1. PICK fd \in SockFds : Loop!EpollForget(fd)
      BY <1>2
    <2>2. fd \in Fds \ {EventFd}
      BY DescriptorNames
    <2> QED
      BY <2>1, <2>2 DEF Loop!UserCode
  <1>3. ASSUME NEW q \in Accepted, NEW ev \in SUBSET Loop!Events, Loop!EpollUpdate(fdOf[q], q, ev)
        PROVE  Loop!UserCode
    <2>1. fdOf[q] \in Fds \ {EventFd} /\ q \in Channels \ {WakeupChannel}
      BY DescriptorNames, ChannelNames DEF Accepted
    <2> QED
      BY <1>3, <2>1 DEF Loop!UserCode
  <1> QED
    BY <1>1, <1>2, <1>3 DEF Registers

LEMMA QueuesFunctor ==
    ASSUME Queues
    PROVE  Loop!QueueNothing \/ \E f \in Functors : Loop!QueueInLoop(f)
  BY FunctorNames DEF Queues, Accepted

LEMMA IsHandleEvent ==
    ASSUME NEW ch, ch # WakeupChannel, NEW k \in Loop!Events, Callback(ch, k), Loop!UserCode
    PROVE  Loop!HandleEvent
  BY Zenon DEF Callback, Loop!HandleEvent

\* What all handlers of a connection's channel do to the loop.
HandlerEffect(p) ==
    /\ Queues /\ Registers
    /\ \E k \in Loop!Events : Callback(p, k)
    /\ UNCHANGED <<fdOf, backlog, connections, held, peer, sent>>

LEMMA SendEffect ==
    ASSUME ConnTypes, NEW q \in Callable, NEW msg, NEW n, Sends(q, msg, n), UNCHANGED held
    PROVE  Queues /\ Registers
  <1>1. q \in Accepted /\ (Relay => q \in held') /\ q \in Peers
    BY DEF Callable, Accepted
  <1>2. Queues
    BY <1>1 DEF Sends, Queues
  <1>3. CASE UNCHANGED registered
    BY <1>2, <1>3 DEF Registers
  <1>4. CASE Enable(q, "out")
    <2>1. events[q] \cup {"out"} \in SUBSET Loop!Events
      BY <1>1 DEF ConnTypes, Loop!Events
    <2> QED
      BY <1>1, <1>2, <1>4, <2>1, Zenon DEF Enable, Registers
  <1> QED
    BY <1>2, <1>3, <1>4 DEF Sends

LEMMA HandlersEffect ==
    ASSUME ConnInv, NEW p \in Peers,
           \/ HandleReadData(p) \/ HandleReadEof(p) \/ HandleReadError(p)
           \/ HandleWriteSome(p) \/ HandleWriteNone(p)
    PROVE  HandlerEffect(p)
  <1>1. SockTypes /\ ConnTypes /\ LoopInv
    BY DEF ConnInv
  <1>2. "in" \in Loop!Events /\ "out" \in Loop!Events
    BY DEF Loop!Events
  <1>3. \E k \in Loop!Events : Callback(p, k)
    BY <1>2 DEF HandleReadData, HandleReadEof, HandleReadError, HandleWriteSome, HandleWriteNone
  <1>4. UNCHANGED <<fdOf, backlog, connections, held, peer, sent>>
    BY DEF HandleReadData, HandleReadEof, HandleReadError, HandleWriteSome, HandleWriteNone, connVars
  <1>5. p \in Callable
    <2>1. PICK k : Callback(p, k)
      BY <1>3
    <2>2. PICK a \in active : a.ch = p
      BY <1>1, <2>1, CallbackIs
    <2> QED
      BY <2>2 DEF ConnInv, CallInv
  <1>6. held \subseteq Callable
    BY DEF ConnInv, CallInv, Callable
  <1>7. CASE HandleReadData(p)
    <2>1. PICK k \in Nat, q \in Peers :
             /\ q \in IF Relay THEN held ELSE {p}
             /\ SendFails \/ \E n \in 0 .. k : Sends(q, Message(p, k), n)
      BY <1>1, <1>7, ReadCases
    <2>2. q \in Callable
      BY <1>5, <1>6, <2>1
    <2>3. CASE SendFails
      BY <1>3, <1>4, <2>3 DEF SendFails, HandlerEffect, Queues, Registers, Loop!QueueNothing
    <2>4. ASSUME NEW n, Sends(q, Message(p, k), n) PROVE Queues /\ Registers
      BY <1>1, <1>4, <2>2, <2>4, SendEffect
    <2> QED
      BY <1>3, <1>4, <2>1, <2>3, <2>4 DEF HandlerEffect
  <1>8. CASE HandleReadEof(p)
    <2>1. Loop!EpollForget(fdOf[p]) /\ fdOf[p] \in SockFds
      BY <1>5, <1>8 DEF HandleReadEof, Close, Callable, Accepted
    <2>2. Queues /\ Registers
      BY <1>8, <2>1 DEF HandleReadEof, Queues, Registers, Loop!QueueNothing
    <2> QED
      BY <1>3, <1>4, <2>2 DEF HandlerEffect
  <1>9. CASE HandleReadError(p)
    BY <1>3, <1>4, <1>9 DEF HandleReadError, HandlerEffect, Queues, Registers, Loop!QueueNothing
  <1>10. CASE HandleWriteSome(p)
    <2>1. PICK n : IF n = Len(outputBuf[p])
                   THEN DisableWriting(p) /\ Loop!QueueInLoop(Completed(p))
                   ELSE UNCHANGED <<events, registered, pendingFunctors, eventfd>>
      BY <1>1, <1>10, WriteCases DEF Writes
    <2>2. CASE DisableWriting(p) /\ Loop!QueueInLoop(Completed(p))
      <3>1. p \in Accepted /\ (Relay => p \in held')
        BY <1>4, <1>5 DEF Callable
      <3>2. events[p] \ {"out"} \in SUBSET Loop!Events
        BY <1>1 DEF ConnTypes, Loop!Events
      <3>3. Registers
        BY <2>2, <3>1, <3>2 DEF DisableWriting, Registers
      <3>4. Queues
        BY <2>2, <3>1 DEF Queues
      <3> QED
        BY <1>3, <1>4, <3>3, <3>4 DEF HandlerEffect
    <2>3. CASE UNCHANGED <<events, registered, pendingFunctors, eventfd>>
      BY <1>3, <1>4, <2>3 DEF HandlerEffect, Queues, Registers, Loop!QueueNothing
    <2> QED
      BY <2>1, <2>2, <2>3
  <1>11. CASE HandleWriteNone(p)
    BY <1>3, <1>4, <1>11 DEF HandleWriteNone, connVars, HandlerEffect, Queues, Registers, Loop!QueueNothing
  <1> QED
    BY <1>7, <1>8, <1>9, <1>10, <1>11

\* A connection whose functor runs has a descriptor.
LEMMA FunctorAccepted ==
    ASSUME ConnInv, NEW f, Loop!RunFunctor(f), UNCHANGED pendingFunctors
    PROVE  f.conn \in Accepted
  <1>1. Queue \in Seq(Functors) /\ Queue # <<>> /\ f = Head(Queue)
    BY QueueSteps DEF ConnInv
  <1>2. f \in Elements(Queue)
    BY <1>1, TailElements
  <1> QED
    BY <1>2 DEF ConnInv, CallInv

LEMMA EstablishEffect ==
    ASSUME ConnInv, NEW p \in Peers, ConnectEstablished(p)
    PROVE  /\ p \in Accepted
           /\ Registers
           /\ Loop!RunFunctor(Established(p))
           /\ held \subseteq held' /\ held' \subseteq held \cup {p}
           /\ Loop!QueueNothing
           /\ UNCHANGED <<fdOf, connections, sockVars, outputBuf, crashed, active, phase>>
  <1>1. /\ Loop!RunFunctor(Established(p))
        /\ UNCHANGED <<sockVars, phase, active, pendingFunctors, eventfd, connections, fdOf, outputBuf, crashed>>
        /\ Loop!EpollUpdate(fdOf[p], p, events[p] \cup {"in"})
        /\ held' = IF Relay THEN held \cup {p} ELSE held
    BY DEF ConnectEstablished, Established, Enable, OnConnection
  <1>2. p \in Accepted
    BY <1>1, FunctorAccepted, FunctorNames
  <1>3. events[p] \cup {"in"} \in SUBSET Loop!Events
    BY DEF ConnInv, ConnTypes, Loop!Events
  <1>4. Registers
    BY <1>1, <1>2, <1>3 DEF Registers
  <1> QED
    BY <1>1, <1>2, <1>4 DEF Loop!QueueNothing

LEMMA NextIsLoop == ConnInv /\ [Next]_vars => [Loop!Next]_(Loop!vars)
  <1> SUFFICES ASSUME ConnInv, [Next]_vars PROVE Loop!Next \/ UNCHANGED loopVars
    BY DEF Loop!vars, loopVars
  <1>1. CASE Start
    <2>1. ListenFd \in Fds \ {EventFd} /\ AcceptorChannel \in Channels \ {WakeupChannel}
          /\ {"in"} \in SUBSET Loop!Events
      BY DescriptorNames, ChannelNames DEF Loop!Events
    <2>2. Loop!UserCode
      BY <1>1, <2>1 DEF Start, Loop!UserCode, Loop!QueueNothing
    <2> QED
      BY <1>1, <2>2 DEF Start, Loop!Next, Loop!BeforeLoop
  <1>2. CASE EnterLoop
    BY <1>2 DEF EnterLoop, Loop!Next
  <1>3. CASE Poll
    <2>1. Readiness \in Loop!Readiness
      <3>1. \A f \in Fds : Readiness[f] \in SUBSET Loop!Events
        BY DEF Readiness, SocketEvents, Loop!Events
      <3>2. Readiness[EventFd] = IF eventfd > 0 THEN {"in", "out"} ELSE {"out"}
        BY DescriptorNames DEF Readiness
      <3>3. Readiness[EventFd] \cap {"in"} = IF eventfd > 0 THEN {"in"} ELSE {}
        BY <3>2
      <3>4. Readiness \in [Fds -> SUBSET Loop!Events]
        BY <3>1 DEF Readiness
      <3> QED
        BY <3>3, <3>4 DEF Loop!Readiness
    <2> QED
      BY <1>3, <2>1 DEF Poll, Loop!Next
  <1>4. CASE HandleWakeup
    BY <1>4 DEF HandleWakeup, Loop!Next
  <1>5. CASE HandleAccept
    <2>1. /\ Callback(AcceptorChannel, "in") /\ backlog # <<>> /\ UNCHANGED registered
          /\ Loop!QueueInLoop(Established(Head(backlog)))
      BY <1>5, Zenon DEF HandleAccept, NewConnection, Established
    <2>2. Head(backlog) \in Peers
      BY <2>1 DEF ConnInv, SockTypes
    <2>3. Loop!UserCode
      BY <2>1, <2>2, FunctorNames DEF Loop!UserCode
    <2>4. Loop!HandleEvent
      BY <2>1, <2>3, ChannelNames, IsHandleEvent DEF Loop!Events
    <2> QED
      BY <2>4 DEF Loop!Next
  <1>6. CASE AcceptFails
    BY <1>6 DEF AcceptFails, Crash
  <1>7. ASSUME NEW p \in Peers, Handlers(p) PROVE Loop!Next
    <2>1. CASE ConnectEstablished(p)
      <3>1. /\ Registers /\ Loop!RunFunctor(Established(p)) /\ Loop!QueueNothing
            /\ UNCHANGED <<active, phase>>
        BY <2>1, EstablishEffect
      <3>2. Loop!UserCode
        BY <3>1, IsUserCode
      <3>3. Loop!CallFunctor
        BY <3>1, <3>2, FunctorNames DEF Loop!CallFunctor
      <3> QED
        BY <3>3 DEF Loop!Next
    <2>2. CASE WriteComplete(p)
      <3>1. /\ Loop!RunFunctor(Completed(p)) /\ Loop!QueueNothing
            /\ UNCHANGED <<active, phase, registered>>
        BY <2>2 DEF WriteComplete, Completed, Loop!QueueNothing
      <3>2. Loop!UserCode
        BY <3>1 DEF Loop!UserCode
      <3>3. Loop!CallFunctor
        BY <3>1, <3>2, FunctorNames DEF Loop!CallFunctor
      <3> QED
        BY <3>3 DEF Loop!Next
    <2>3. CASE ~ConnectEstablished(p) /\ ~WriteComplete(p)
      <3>1. HandlerEffect(p)
        BY <1>7, <2>3, HandlersEffect DEF Handlers
      <3>2. PICK k \in Loop!Events : Callback(p, k)
        BY <3>1 DEF HandlerEffect
      <3>3. Loop!UserCode
        BY <3>1, QueuesFunctor, IsUserCode DEF HandlerEffect
      <3>4. Loop!HandleEvent
        BY <3>2, <3>3, ChannelNames, IsHandleEvent
      <3> QED
        BY <3>4 DEF Loop!Next
    <2> QED
      BY <2>1, <2>2, <2>3
  <1>8. CASE DoPendingFunctors
    BY <1>8 DEF DoPendingFunctors, Loop!Next
  <1>9. CASE EndFunctors
    BY <1>9 DEF EndFunctors, Loop!Next
  <1>10. CASE EnvNext \/ UNCHANGED vars
    BY <1>10 DEF EnvNext, vars, loopVars
  <1> QED
    BY <1>1, <1>2, <1>3, <1>4, <1>5, <1>6, <1>7, <1>8, <1>9, <1>10 DEF Next, ServerNext

------------------------------------------------------------------------------
(* Types and tables.                                                         *)

LEMMA InitConn == Init => ConnInv
  <1> SUFFICES ASSUME Init PROVE ConnInv
    OBVIOUS
  <1>1. LoopInv
    BY InitLoopInv
  <1>2. /\ registered = {WakeupRegistration} /\ active = {}
        /\ functors = <<>> /\ pendingFunctors = <<>>
    BY DEF Init, Loop!Init, WakeupRegistration
  <1>3. Queue = <<>>
    BY <1>2, ConcatEmptySeq DEF Queue
  <1>4. SockTypes /\ ConnTypes
    BY EmptySeq DEF Init, SocketsInit, SockTypes, ConnTypes
  <1>5. BacklogInv
    BY EmptyElements DEF Init, SocketsInit, BacklogInv
  <1>6. TableInv
    BY DEF Init, SocketsInit, TableInv
  <1>7. CallInv
    BY <1>2, <1>3, EmptyElements DEF Init, CallInv
  <1> QED
    BY <1>1, <1>4, <1>5, <1>6, <1>7 DEF ConnInv

LEMMA SendTypes ==
    ASSUME SockTypes, ConnTypes, NEW q \in Peers, NEW msg \in Seq(Byte),
           NEW n \in 0 .. Len(msg), Sends(q, msg, n)
    PROVE  /\ sndq' \in [Peers -> Seq(Byte)]
           /\ outputBuf' \in [Peers -> Seq(Byte)]
           /\ events' \in [Peers -> SUBSET {"in", "out"}]
           /\ crashed' = crashed
  <1>1. SubSeq(msg, 1, n) \in Seq(Byte) /\ SubSeq(msg, n + 1, Len(msg)) \in Seq(Byte)
    BY Parts
  <1>2. \A s, t \in Seq(Byte) : s \o t \in Seq(Byte)
    BY ConcatProperties
  <1>3. sndq' \in [Peers -> Seq(Byte)]
    <2>1. CASE UNCHANGED sndq
      BY <2>1 DEF SockTypes
    <2>2. CASE Owner(fdOf[q]) \in Peers /\ Transmit(fdOf[q], msg, n)
      BY <1>1, <1>2, <2>2 DEF SockTypes, Transmit
    <2> QED
      BY <2>1, <2>2 DEF Sends
  <1>4. outputBuf' \in [Peers -> Seq(Byte)]
    BY <1>1, <1>2 DEF Sends, KeepRest, ConnTypes
  <1>5. events' \in [Peers -> SUBSET {"in", "out"}]
    <2>1. CASE UNCHANGED events
      BY <2>1 DEF ConnTypes
    <2>2. CASE Enable(q, "out")
      BY <2>2 DEF Enable, ConnTypes
    <2> QED
      BY <2>1, <2>2 DEF Sends
  <1> QED
    BY <1>3, <1>4, <1>5 DEF Sends

LEMMA WriteTypes ==
    ASSUME SockTypes, ConnTypes, NEW p \in Peers, NEW n, Writes(p, n)
    PROVE  /\ sndq' \in [Peers -> Seq(Byte)]
           /\ outputBuf' \in [Peers -> Seq(Byte)]
           /\ events' \in [Peers -> SUBSET {"in", "out"}]
  <1>1. outputBuf[p] \in Seq(Byte) /\ Len(outputBuf[p]) \in Nat /\ n \in 0 .. Len(outputBuf[p])
    BY LenProperties DEF ConnTypes, Writes
  <1>2. /\ SubSeq(outputBuf[p], 1, n) \in Seq(Byte)
        /\ SubSeq(outputBuf[p], n + 1, Len(outputBuf[p])) \in Seq(Byte)
    BY <1>1, Parts
  <1>3. \A s, t \in Seq(Byte) : s \o t \in Seq(Byte)
    BY ConcatProperties
  <1>4. sndq' \in [Peers -> Seq(Byte)]
    BY <1>2, <1>3 DEF Writes, Transmit, SockTypes
  <1>5. outputBuf' \in [Peers -> Seq(Byte)]
    BY <1>2 DEF Writes, TakeOutput, ConnTypes
  <1>6. events' \in [Peers -> SUBSET {"in", "out"}]
    <2>1. CASE UNCHANGED events
      BY <2>1 DEF ConnTypes
    <2>2. CASE DisableWriting(p)
      BY <2>2 DEF DisableWriting, ConnTypes
    <2> QED
      BY <2>1, <2>2 DEF Writes
  <1> QED
    BY <1>4, <1>5, <1>6

\* The steps that the loop takes by itself, or that end the process.
LoopStep ==
    \/ Start \/ EnterLoop \/ Poll \/ HandleWakeup \/ AcceptFails
    \/ \E p \in Peers : WriteComplete(p)
    \/ DoPendingFunctors \/ EndFunctors

LEMMA LoopStepKeeps ==
    ASSUME crashed = "no", LoopStep
    PROVE  UNCHANGED <<sockVars, connVars>> /\ crashed' \in {"no", "accept", "callback"}
  BY DEF LoopStep, Start, EnterLoop, Poll, HandleWakeup, AcceptFails, Crash, WriteComplete,
         DoPendingFunctors, EndFunctors

\* The callbacks of a connection's channel.
ChannelStep(p) ==
    \/ HandleReadData(p) \/ HandleReadEof(p) \/ HandleReadError(p)
    \/ HandleWriteSome(p) \/ HandleWriteNone(p)

LEMMA NextCases ==
    ASSUME [Next]_vars
    PROVE  \/ crashed = "no" /\ LoopStep
           \/ crashed = "no" /\ HandleAccept
           \/ crashed = "no" /\ \E p \in Peers : ChannelStep(p)
           \/ crashed = "no" /\ \E p \in Peers : ConnectEstablished(p)
           \/ EnvNext
           \/ UNCHANGED vars
  BY Zenon DEF Next, ServerNext, Handlers, LoopStep, ChannelStep

LEMMA NextTypes == ConnInv /\ [Next]_vars => SockTypes' /\ ConnTypes'
  <1> SUFFICES ASSUME ConnInv, [Next]_vars PROVE SockTypes' /\ ConnTypes'
    OBVIOUS
  <1>0. SockTypes /\ ConnTypes
    BY DEF ConnInv
  <1>1. CASE crashed = "no" /\ LoopStep
    BY <1>0, <1>1, LoopStepKeeps DEF SockTypes, ConnTypes, sockVars, connVars
  <1>2. CASE HandleAccept
    <2> DEFINE fd == Min(FreeFds)
               p == Head(backlog)
    <2>1. /\ FreeFds # {} /\ backlog # <<>>
          /\ fdTable' = [fdTable EXCEPT ![fd] = p]
          /\ connections' = [connections EXCEPT ![fd] = p]
          /\ fdOf' = [fdOf EXCEPT ![p] = fd]
          /\ backlog' = Tail(backlog)
          /\ UNCHANGED <<peer, sent, got, rcvq, sndq, soError, events, outputBuf, held, crashed>>
      BY <1>2, Zenon DEF HandleAccept, NewConnection
    <2>2. fd \in SockFds /\ p \in Peers /\ Tail(backlog) \in Seq(Peers)
      BY <1>0, <2>1, LowestFree, HeadTailProperties DEF SockTypes
    <2> HIDE DEF fd, p
    <2> QED
      BY <1>0, <2>1, <2>2 DEF SockTypes, ConnTypes
  <1>3. ASSUME NEW p \in Peers, ConnectEstablished(p) PROVE SockTypes' /\ ConnTypes'
    <2>1. UNCHANGED <<sockVars, connections, fdOf, outputBuf, crashed>>
      BY <1>3 DEF ConnectEstablished
    <2>2. events' \in [Peers -> SUBSET {"in", "out"}]
      BY <1>0, <1>3 DEF ConnectEstablished, Enable, ConnTypes
    <2>3. held' \subseteq Peers
      BY <1>0, <1>3 DEF ConnectEstablished, OnConnection, ConnTypes
    <2> QED
      BY <1>0, <2>1, <2>2, <2>3 DEF SockTypes, ConnTypes, sockVars
  <1>4. ASSUME NEW p \in Peers, HandleReadData(p) PROVE SockTypes' /\ ConnTypes'
    <2>1. PICK k \in Nat, q \in Peers :
              /\ Reads(p, k)
              /\ Message(p, k) \in Seq(Byte) /\ Len(Message(p, k)) = k
              /\ SendFails \/ \E n \in 0 .. k : Sends(q, Message(p, k), n)
      BY <1>0, <1>4, ReadCases
    <2>2. UNCHANGED <<backlog, fdTable, peer, sent, got, soError, connections, fdOf, held>>
      BY <1>4 DEF HandleReadData
    <2>3. rcvq' \in [Peers -> Seq(Byte)]
      <3>1. /\ Owner(fdOf[p]) \in Peers
            /\ k \in 1 .. Len(rcvq[Owner(fdOf[p])])
            /\ rcvq' = [rcvq EXCEPT ![Owner(fdOf[p])] = SubSeq(@, k + 1, Len(@))]
        BY <2>1 DEF Reads
      <3>2. rcvq[Owner(fdOf[p])] \in Seq(Byte) /\ k \in 0 .. Len(rcvq[Owner(fdOf[p])])
        BY <1>0, <3>1 DEF SockTypes
      <3>3. SubSeq(rcvq[Owner(fdOf[p])], k + 1, Len(rcvq[Owner(fdOf[p])])) \in Seq(Byte)
        BY <3>2, Parts
      <3> QED
        BY <1>0, <3>1, <3>3 DEF SockTypes
    <2>4. /\ sndq' \in [Peers -> Seq(Byte)]
          /\ outputBuf' \in [Peers -> Seq(Byte)]
          /\ events' \in [Peers -> SUBSET {"in", "out"}]
          /\ crashed' \in {"no", "accept", "send", "sigpipe", "callback"}
      <3>1. CASE SendFails
        BY <1>0, <3>1 DEF SendFails, SockTypes, ConnTypes
      <3>2. ASSUME NEW n \in 0 .. k, Sends(q, Message(p, k), n)
            PROVE  /\ sndq' \in [Peers -> Seq(Byte)]
                   /\ outputBuf' \in [Peers -> Seq(Byte)]
                   /\ events' \in [Peers -> SUBSET {"in", "out"}]
                   /\ crashed' \in {"no", "accept", "send", "sigpipe", "callback"}
        <4>1. /\ sndq' \in [Peers -> Seq(Byte)]
              /\ outputBuf' \in [Peers -> Seq(Byte)]
              /\ events' \in [Peers -> SUBSET {"in", "out"}]
              /\ crashed' = crashed
          BY <1>0, <2>1, <3>2, SendTypes
        <4> QED
          BY <1>0, <4>1 DEF ConnTypes
      <3> QED
        BY <2>1, <3>1, <3>2
    <2> QED
      BY <1>0, <2>2, <2>3, <2>4 DEF SockTypes, ConnTypes
  <1>5. ASSUME NEW p \in Peers, HandleReadEof(p) PROVE SockTypes' /\ ConnTypes'
    <2>1. fdTable' \in [SockFds -> Peers \cup {NoPeer}]
      BY <1>0, <1>5 DEF HandleReadEof, Close, SockTypes
    <2>2. UNCHANGED <<backlog, peer, sent, got, rcvq, sndq, soError, connVars, crashed>>
      BY <1>5 DEF HandleReadEof
    <2> QED
      BY <1>0, <2>1, <2>2 DEF SockTypes, ConnTypes, connVars
  <1>6. ASSUME NEW p \in Peers, HandleReadError(p) PROVE SockTypes' /\ ConnTypes'
    <2>1. soError' \in [Peers -> BOOLEAN]
      BY <1>0, <1>6 DEF HandleReadError, SockTypes
    <2>2. UNCHANGED <<backlog, fdTable, peer, sent, got, rcvq, sndq, connVars, crashed>>
      BY <1>6 DEF HandleReadError
    <2> QED
      BY <1>0, <2>1, <2>2 DEF SockTypes, ConnTypes, connVars
  <1>7. ASSUME NEW p \in Peers, HandleWriteSome(p) PROVE SockTypes' /\ ConnTypes'
    <2>1. PICK n \in Nat : Writes(p, n)
      BY <1>0, <1>7, WriteCases
    <2>2. UNCHANGED <<backlog, fdTable, peer, sent, got, rcvq, soError, connections, fdOf, held, crashed>>
      BY <1>7 DEF HandleWriteSome
    <2>3. /\ sndq' \in [Peers -> Seq(Byte)]
          /\ outputBuf' \in [Peers -> Seq(Byte)]
          /\ events' \in [Peers -> SUBSET {"in", "out"}]
      BY <1>0, <2>1, WriteTypes
    <2> QED
      BY <1>0, <2>2, <2>3 DEF SockTypes, ConnTypes
  <1>8. ASSUME NEW p \in Peers, HandleWriteNone(p) PROVE SockTypes' /\ ConnTypes'
    <2>1. soError' \in [Peers -> BOOLEAN]
      BY <1>0, <1>8 DEF HandleWriteNone, SockTypes
    <2>2. UNCHANGED <<backlog, fdTable, peer, sent, got, rcvq, sndq, connVars>>
      BY <1>8 DEF HandleWriteNone
    <2>3. crashed' \in {"no", "sigpipe"}
      BY <1>8 DEF HandleWriteNone
    <2> QED
      BY <1>0, <2>1, <2>2, <2>3 DEF SockTypes, ConnTypes, connVars
  <1>9. CASE EnvNext
    <2>1. PICK p \in Peers : Connect(p) \/ SendByte(p) \/ Receive(p) \/ Finish(p) \/ Reset(p)
      BY <1>9 DEF EnvNext, PeerNext
    <2>2. ConnTypes'
      BY <1>0, <1>9 DEF EnvNext, ConnTypes, connVars
    <2>3. CASE Connect(p)
      <3>1. Append(backlog, p) \in Seq(Peers)
        BY <1>0, AppendProperties DEF SockTypes
      <3> QED
        BY <1>0, <2>2, <2>3, <3>1 DEF Connect, SockTypes
    <2>4. CASE SendByte(p)
      <3>1. sent[p] \in Nat /\ [from |-> p, n |-> sent[p] + 1] \in Byte
        BY <1>0 DEF SockTypes, Byte
      <3>2. Append(rcvq[p], [from |-> p, n |-> sent[p] + 1]) \in Seq(Byte)
        BY <1>0, <3>1, AppendProperties DEF SockTypes
      <3> QED
        BY <1>0, <2>2, <2>4, <3>1, <3>2 DEF SendByte, SockTypes
    <2>5. CASE Receive(p)
      <3>1. sndq[p] \in Seq(Byte) /\ got[p] \in Seq(Byte) /\ sndq[p] # <<>>
        BY <1>0, <2>5 DEF Receive, SockTypes
      <3>2. Tail(sndq[p]) \in Seq(Byte) /\ Append(got[p], Head(sndq[p])) \in Seq(Byte)
        BY <3>1, HeadTailProperties, AppendProperties
      <3> QED
        BY <1>0, <2>2, <2>5, <3>2 DEF Receive, SockTypes
    <2>6. CASE Finish(p)
      BY <1>0, <2>2, <2>6 DEF Finish, SockTypes
    <2>7. CASE Reset(p)
      <3>1. <<>> \in Seq(Byte)
        BY EmptySeq
      <3> QED
        BY <1>0, <2>2, <2>7, <3>1 DEF Reset, SockTypes
    <2> QED
      BY <2>1, <2>3, <2>4, <2>5, <2>6, <2>7
  <1>10. CASE UNCHANGED vars
    BY <1>0, <1>10 DEF vars, sockVars, connVars, SockTypes, ConnTypes
  <1> QED
    BY <1>1, <1>2, <1>3, <1>4, <1>5, <1>6, <1>7, <1>8, <1>9, <1>10, NextCases DEF ChannelStep

\* What accept() does to the server's tables.
Accepts(p, fd) ==
    /\ Callback(AcceptorChannel, "in")
    /\ backlog # <<>> /\ p = Head(backlog) /\ backlog' = Tail(backlog)
    /\ fd \in SockFds /\ fdTable[fd] = NoPeer
    /\ fdTable' = [fdTable EXCEPT ![fd] = p]
    /\ connections' = [connections EXCEPT ![fd] = p]
    /\ fdOf' = [fdOf EXCEPT ![p] = fd]
    /\ Loop!QueueInLoop(Established(p))
    /\ UNCHANGED <<peer, sent, got, rcvq, sndq, registered, events, outputBuf, held, crashed>>

LEMMA AcceptCases ==
    ASSUME ConnInv, HandleAccept
    PROVE  \E p \in Peers : \E fd \in SockFds : Accepts(p, fd) /\ fdOf[p] = 0 /\ peer[p] # "idle"
  <1> DEFINE fd == Min(FreeFds)
             p == Head(backlog)
  <1>1. /\ Callback(AcceptorChannel, "in")
        /\ FreeFds # {} /\ backlog # <<>>
        /\ fdTable' = [fdTable EXCEPT ![fd] = p]
        /\ connections' = [connections EXCEPT ![fd] = p]
        /\ fdOf' = [fdOf EXCEPT ![p] = fd]
        /\ Loop!QueueInLoop(Established(p))
        /\ backlog' = Tail(backlog)
        /\ UNCHANGED <<peer, sent, got, rcvq, sndq, soError, registered, events, outputBuf, held, crashed>>
    BY Zenon DEF HandleAccept, NewConnection, Established
  <1>2. backlog \in Seq(Peers)
    BY DEF ConnInv, SockTypes
  <1>3. fd \in SockFds /\ fdTable[fd] = NoPeer
    BY <1>1, LowestFree
  <1>4. p \in Peers /\ p \in Elements(backlog)
    BY <1>1, <1>2, TailElements
  <1>5. fdOf[p] = 0 /\ peer[p] # "idle"
    BY <1>4 DEF ConnInv, BacklogInv
  <1>6. Accepts(p, fd)
    BY <1>1, <1>3 DEF Accepts
  <1> QED
    BY <1>3, <1>4, <1>5, <1>6

\* A connection keeps the descriptor that it was given.
LEMMA KeepsDescriptor ==
    ASSUME ConnInv, [Next]_vars
    PROVE  \/ \E p \in Peers : \E fd \in SockFds : Accepts(p, fd) /\ fdOf[p] = 0 /\ peer[p] # "idle"
           \/ UNCHANGED <<fdOf, connections>>
  <1>1. CASE crashed = "no" /\ LoopStep
    BY <1>1, LoopStepKeeps DEF connVars
  <1>2. CASE HandleAccept
    BY <1>2, AcceptCases
  <1>3. ASSUME NEW p \in Peers, ChannelStep(p) PROVE UNCHANGED <<fdOf, connections>>
    BY <1>3, HandlersEffect DEF ChannelStep, HandlerEffect
  <1>4. ASSUME NEW p \in Peers, ConnectEstablished(p) PROVE UNCHANGED <<fdOf, connections>>
    BY <1>4, EstablishEffect
  <1>5. CASE EnvNext \/ UNCHANGED vars
    BY <1>5 DEF EnvNext, vars, connVars
  <1> QED
    BY <1>1, <1>2, <1>3, <1>4, <1>5, NextCases

LEMMA AcceptedGrows ==
    ASSUME ConnInv, [Next]_vars
    PROVE  \A p \in Accepted : p \in Accepted' /\ fdOf'[p] = fdOf[p]
  <1>1. ASSUME NEW p \in Peers, NEW fd \in SockFds, Accepts(p, fd), fdOf[p] = 0
        PROVE  \A q \in Accepted : q \in Accepted' /\ fdOf'[q] = fdOf[q]
    <2>1. fdOf' = [fdOf EXCEPT ![p] = fd] /\ fdOf \in [Peers -> SockFds \cup {0}]
      BY <1>1 DEF Accepts, ConnInv, ConnTypes
    <2>2. p \notin Accepted
      BY <1>1, DescriptorNames DEF Accepted
    <2> QED
      BY <2>1, <2>2 DEF Accepted
  <1>2. CASE UNCHANGED fdOf
    BY <1>2 DEF Accepted
  <1> QED
    BY <1>1, <1>2, KeepsDescriptor

LEMMA NextBacklog == ConnInv /\ [Next]_vars => BacklogInv'
  <1> SUFFICES ASSUME ConnInv, [Next]_vars PROVE BacklogInv'
    OBVIOUS
  <1>0. SockTypes /\ ConnTypes /\ BacklogInv /\ SockTypes'
    BY NextTypes DEF ConnInv
  <1>1. CASE UNCHANGED <<fdOf, backlog, peer>>
    BY <1>0, <1>1 DEF BacklogInv
  <1>2. CASE HandleAccept
    <2>1. PICK p \in Peers, fd \in SockFds : Accepts(p, fd) /\ fdOf[p] = 0 /\ peer[p] # "idle"
      BY <1>2, AcceptCases
    <2>2. backlog # <<>> /\ p = Head(backlog) /\ backlog \in Seq(Peers)
      BY <1>0, <2>1 DEF Accepts, SockTypes
    <2>3. /\ Elements(backlog) = {p} \cup Elements(Tail(backlog))
          /\ Distinct(Tail(backlog)) /\ p \notin Elements(Tail(backlog))
      BY <1>0, <2>2, TailElements DEF BacklogInv
    <2>4. \A q \in Peers : q # p => fdOf'[q] = fdOf[q]
      BY <1>0, <2>1 DEF Accepts, ConnTypes
    <2>5. Elements(Tail(backlog)) \subseteq Peers
      BY <2>2, HeadTailProperties, ElementsType
    <2> QED
      BY <1>0, <2>1, <2>3, <2>4, <2>5 DEF BacklogInv, Accepts
  <1>3. CASE EnvNext
    <2>1. PICK p \in Peers : Connect(p) \/ SendByte(p) \/ Receive(p) \/ Finish(p) \/ Reset(p)
      BY <1>3 DEF EnvNext, PeerNext
    <2>2. UNCHANGED fdOf
      BY <1>3 DEF EnvNext, connVars
    <2>3. CASE Connect(p)
      <3>1. /\ backlog \in Seq(Peers) /\ backlog' = Append(backlog, p)
            /\ peer[p] = "idle" /\ peer' = [peer EXCEPT ![p] = "connected"]
        BY <1>0, <2>3 DEF Connect, SockTypes
      <3>2. fdOf[p] = 0 /\ p \notin Elements(backlog)
        BY <1>0, <3>1 DEF BacklogInv
      <3>3. Elements(backlog') = Elements(backlog) \cup {p} /\ Distinct(backlog')
        BY <1>0, <3>1, <3>2, AppendElements DEF BacklogInv
      <3>4. \A q \in Peers : peer'[q] = IF q = p THEN "connected" ELSE peer[q]
        BY <1>0, <3>1 DEF SockTypes
      <3>5. \A q \in Elements(backlog) : q \in Peers
        BY <3>1, ElementsType
      <3> QED
        BY <1>0, <2>2, <3>2, <3>3, <3>4, <3>5 DEF BacklogInv
    <2>4. CASE SendByte(p) \/ Receive(p)
      BY <1>1, <2>2, <2>4 DEF SendByte, Receive
    <2>5. CASE Finish(p) \/ Reset(p)
      <3>1. /\ UNCHANGED backlog /\ peer[p] # "idle"
            /\ \A q \in Peers : q # p => peer'[q] = peer[q]
            /\ peer'[p] # "idle"
        BY <1>0, <2>5 DEF Finish, Reset, SockTypes
      <3>2. \A q \in Elements(backlog) : q \in Peers
        BY <1>0, ElementsType DEF SockTypes
      <3> QED
        BY <1>0, <2>2, <3>1, <3>2 DEF BacklogInv
    <2> QED
      BY <2>1, <2>3, <2>4, <2>5
  <1>4. ASSUME NEW p \in Peers, ChannelStep(p) PROVE UNCHANGED <<fdOf, backlog, peer>>
    BY <1>4, HandlersEffect DEF ChannelStep, HandlerEffect
  <1>5. ASSUME NEW p \in Peers, ConnectEstablished(p) PROVE UNCHANGED <<fdOf, backlog, peer>>
    BY <1>5, EstablishEffect DEF sockVars
  <1>6. CASE crashed = "no" /\ LoopStep
    BY <1>1, <1>6, LoopStepKeeps DEF sockVars, connVars
  <1>7. CASE UNCHANGED vars
    BY <1>1, <1>7 DEF vars, sockVars, connVars
  <1> QED
    BY <1>1, <1>2, <1>3, <1>4, <1>5, <1>6, <1>7, NextCases

\* The descriptor table changes where a socket is accepted or closed.
LEMMA TableSteps ==
    ASSUME ConnInv, [Next]_vars
    PROVE  \/ \E p \in Peers : \E fd \in SockFds : Accepts(p, fd) /\ fdOf[p] = 0 /\ peer[p] # "idle"
           \/ /\ UNCHANGED <<fdOf, connections>>
              /\ \/ UNCHANGED fdTable
                 \/ \E p \in Peers : HandleReadEof(p) /\ Close(p)
  <1>1. CASE crashed = "no" /\ LoopStep
    BY <1>1, LoopStepKeeps DEF connVars, sockVars
  <1>2. CASE HandleAccept
    BY <1>2, AcceptCases
  <1>3. ASSUME NEW p \in Peers, ChannelStep(p)
        PROVE  UNCHANGED <<fdOf, connections>> /\ (UNCHANGED fdTable \/ (HandleReadEof(p) /\ Close(p)))
    <2>1. UNCHANGED <<fdOf, connections>>
      BY <1>3, HandlersEffect DEF ChannelStep, HandlerEffect
    <2>2. CASE HandleReadEof(p)
      BY <2>1, <2>2, Zenon DEF HandleReadEof
    <2>3. CASE ~HandleReadEof(p)
      BY <1>3, <2>1, <2>3 DEF ChannelStep, HandleReadData, HandleReadError, HandleWriteSome, HandleWriteNone
    <2> QED
      BY <2>2, <2>3
  <1>4. ASSUME NEW p \in Peers, ConnectEstablished(p) PROVE UNCHANGED <<fdOf, connections, fdTable>>
    BY <1>4, EstablishEffect DEF sockVars
  <1>5. CASE EnvNext
    BY <1>5 DEF EnvNext, connVars, PeerNext, Connect, SendByte, Receive, Finish, Reset
  <1>6. CASE UNCHANGED vars
    BY <1>6 DEF vars, connVars, sockVars
  <1> QED
    BY <1>1, <1>2, <1>3, <1>4, <1>5, <1>6, NextCases

LEMMA NextTable == ConnInv /\ [Next]_vars => TableInv'
  <1> SUFFICES ASSUME ConnInv, [Next]_vars PROVE TableInv'
    OBVIOUS
  <1>0. SockTypes /\ ConnTypes /\ TableInv
    BY DEF ConnInv
  <1>1. ASSUME NEW p \in Peers, NEW fd \in SockFds, Accepts(p, fd), fdOf[p] = 0 PROVE TableInv'
    <2> SUFFICES ASSUME NEW f \in SockFds, fdTable'[f] # NoPeer
                 PROVE  connections'[f] = fdTable'[f] /\ fdOf'[fdTable'[f]] = f
      BY DEF TableInv
    <2>1. CASE f = fd
      BY <1>0, <1>1, <2>1 DEF Accepts, SockTypes, ConnTypes
    <2>2. CASE f # fd
      <3>1. fdTable'[f] = fdTable[f] /\ connections'[f] = connections[f]
        BY <1>0, <1>1, <2>2 DEF Accepts, SockTypes, ConnTypes
      <3>2. connections[f] = fdTable[f] /\ fdOf[fdTable[f]] = f /\ fdTable[f] \in Peers
        BY <1>0, <3>1 DEF TableInv, SockTypes
      <3>3. fdTable[f] # p
        BY <1>1, <3>2, DescriptorNames
      <3>4. fdOf'[fdTable[f]] = f
        BY <1>0, <1>1, <3>2, <3>3 DEF Accepts, ConnTypes
      <3> QED
        BY <3>1, <3>2, <3>4
    <2> QED
      BY <2>1, <2>2
  <1>2. CASE UNCHANGED <<fdOf, connections, fdTable>>
    BY <1>0, <1>2 DEF TableInv
  <1>3. ASSUME UNCHANGED <<fdOf, connections>>, NEW p \in Peers, Close(p) PROVE TableInv'
    <2>1. \A f \in SockFds : fdTable'[f] = fdTable[f] \/ fdTable'[f] = NoPeer
      BY <1>0, <1>3 DEF Close, SockTypes
    <2> QED
      BY <1>0, <1>3, <2>1 DEF TableInv
  <1> QED
    BY <1>1, <1>2, <1>3, TableSteps

\* A functor that is queued is for a connection with a descriptor.
QueueOK == \A f \in Elements(Queue) : f.conn \in Accepted

LEMMA NextQueue == ConnInv /\ [Next]_vars => QueueOK'
  <1> SUFFICES ASSUME ConnInv, [Next]_vars PROVE QueueOK'
    OBVIOUS
  <1>0. LoopInv /\ QueueOK /\ Queue \in Seq(Functors)
    BY QueueSteps DEF ConnInv, CallInv, QueueOK
  <1>1. \A p \in Accepted : p \in Accepted'
    BY AcceptedGrows
  <1>2. CASE Queue' = Queue
    BY <1>0, <1>1, <1>2 DEF QueueOK
  <1>3. ASSUME NEW f \in Functors, f.conn \in Accepted', Queue' = Append(Queue, f) PROVE QueueOK'
    <2>1. Elements(Queue') = Elements(Queue) \cup {f}
      BY <1>0, <1>3, AppendElements
    <2> QED
      BY <1>0, <1>1, <1>3, <2>1 DEF QueueOK
  <1>4. ASSUME Queue # <<>>, Queue' = Tail(Queue) PROVE QueueOK'
    <2>1. Elements(Queue') \subseteq Elements(Queue)
      BY <1>0, <1>4, TailElements
    <2> QED
      BY <1>0, <1>1, <2>1 DEF QueueOK
  <1>5. ASSUME Queues, UNCHANGED functors PROVE QueueOK'
    <2>1. CASE Loop!QueueNothing
      BY <1>0, <1>2, <1>5, <2>1, QueueSteps
    <2>2. CASE \E q \in Accepted : Loop!QueueInLoop(Completed(q))
      <3>1. PICK q \in Accepted : Loop!QueueInLoop(Completed(q))
        BY <2>2
      <3>2. Completed(q) \in Functors /\ Completed(q).conn = q
        BY FunctorNames DEF Accepted
      <3>3. Queue' = Append(Queue, Completed(q))
        BY <1>0, <1>5, <3>1, <3>2, QueueSteps
      <3> QED
        BY <1>1, <1>3, <3>2, <3>3
    <2> QED
      BY <1>5, <2>1, <2>2 DEF Queues
  <1>6. CASE LoopStep
    <2>1. ASSUME NEW p \in Peers, WriteComplete(p) PROVE QueueOK'
      BY <1>0, <1>4, <2>1, QueueSteps DEF WriteComplete
    <2>2. CASE DoPendingFunctors
      BY <1>0, <1>2, <2>2, QueueSteps DEF DoPendingFunctors
    <2>3. CASE Start \/ EnterLoop \/ Poll \/ HandleWakeup \/ AcceptFails \/ EndFunctors
      <3>1. UNCHANGED <<functors, pendingFunctors>>
        BY <2>3 DEF Start, EnterLoop, Poll, HandleWakeup, AcceptFails, EndFunctors, Crash,
           loopVars, Loop!EnterLoop, Loop!Poll, Loop!HandleWakeup, Loop!EndFunctors
      <3> QED
        BY <1>2, <3>1 DEF Queue
    <2> QED
      BY <1>6, <2>1, <2>2, <2>3 DEF LoopStep
  <1>7. CASE HandleAccept
    <2>1. PICK p \in Peers, fd \in SockFds : Accepts(p, fd)
      BY <1>7, AcceptCases
    <2>2. Established(p) \in Functors /\ Established(p).conn = p
      BY FunctorNames
    <2>3. Queue' = Append(Queue, Established(p))
      BY <1>0, <2>1, <2>2, QueueSteps DEF Accepts, Callback
    <2>4. p \in Accepted'
      BY <2>1 DEF Accepts, ConnInv, ConnTypes, Accepted
    <2> QED
      BY <1>3, <2>2, <2>3, <2>4
  <1>8. ASSUME NEW p \in Peers, ChannelStep(p) PROVE QueueOK'
    <2>1. Queues /\ \E k : Callback(p, k)
      BY <1>8, HandlersEffect DEF ChannelStep, HandlerEffect
    <2> QED
      BY <1>5, <2>1 DEF Callback
  <1>9. ASSUME NEW p \in Peers, ConnectEstablished(p) PROVE QueueOK'
    <2>1. Loop!RunFunctor(Established(p)) /\ UNCHANGED pendingFunctors
      BY <1>9, EstablishEffect DEF Loop!QueueNothing
    <2> QED
      BY <1>0, <1>4, <2>1, QueueSteps
  <1>10. CASE EnvNext \/ UNCHANGED vars
    BY <1>2, <1>10 DEF EnvNext, vars, loopVars, Queue
  <1> QED
    BY <1>6, <1>7, <1>8, <1>9, <1>10, NextCases

\* epoll knows a channel under the descriptor of its connection.
Watches(r) ==
    \/ r \in {WakeupRegistration, AcceptorRegistration}
    \/ r.ch \in Callable /\ r.fd = fdOf[r.ch]

LEMMA NextCall == ConnInv /\ [Next]_vars => CallInv'
  <1> SUFFICES ASSUME ConnInv, [Next]_vars PROVE CallInv'
    OBVIOUS
  <1>0. SockTypes /\ ConnTypes /\ LoopInv
    BY DEF ConnInv
  <1>1. \A p \in Accepted : p \in Accepted' /\ fdOf'[p] = fdOf[p]
    BY AcceptedGrows
  <1>2. held' \subseteq Accepted' /\ \A p \in Callable : p \in Callable'
    <2>1. CASE UNCHANGED held
      BY <1>1, <2>1 DEF ConnInv, CallInv, Callable
    <2>2. ASSUME NEW o \in Peers, ConnectEstablished(o)
          PROVE  held' \subseteq Accepted' /\ \A p \in Callable : p \in Callable'
      <3>1. o \in Accepted /\ held \subseteq held' /\ held' \subseteq held \cup {o}
        BY <2>2, EstablishEffect
      <3> QED
        BY <1>1, <3>1 DEF ConnInv, CallInv, Callable
    <2>3. ASSUME NEW p \in Peers, ChannelStep(p) PROVE UNCHANGED held
      BY <2>3, HandlersEffect DEF ChannelStep, HandlerEffect
    <2>4. CASE HandleAccept \/ EnvNext \/ UNCHANGED vars
      BY <2>1, <2>4 DEF HandleAccept, EnvNext, vars, connVars
    <2>5. CASE crashed = "no" /\ LoopStep
      BY <2>1, <2>5, LoopStepKeeps DEF connVars
    <2> QED
      BY <2>1, <2>2, <2>3, <2>4, <2>5, NextCases
  <1>3. \A r \in registered' : Watches(r)'
    <2>1. \A r \in registered : Watches(r)'
      BY <1>1, <1>2 DEF ConnInv, CallInv, Watches, Callable
    <2>2. CASE UNCHANGED registered
      BY <2>1, <2>2
    <2>3. CASE Registers
      <3>1. ASSUME NEW fd, Loop!EpollForget(fd) PROVE \A r \in registered' : Watches(r)'
        BY <2>1, <3>1 DEF Loop!EpollForget
      <3>2. ASSUME NEW q \in Accepted, Relay => q \in held', NEW ev, Loop!EpollUpdate(fdOf[q], q, ev)
            PROVE  \A r \in registered' : Watches(r)'
        <4> DEFINE r == [fd |-> fdOf[q], ch |-> q, ev |-> ev]
        <4>1. registered' \subseteq registered \cup {r}
          BY <3>2 DEF Loop!EpollUpdate
        <4>2. r.ch \in Callable' /\ r.fd = fdOf'[r.ch]
          BY <1>1, <3>2 DEF Callable
        <4> QED
          BY <2>1, <4>1, <4>2 DEF Watches
      <3> QED
        BY <2>2, <2>3, <3>1, <3>2 DEF Registers
    <2>4. CASE Start
      <3>1. registered' \subseteq registered \cup {AcceptorRegistration}
        BY <2>4 DEF Start, Loop!EpollUpdate, AcceptorRegistration
      <3> QED
        BY <2>1, <3>1 DEF Watches
    <2>5. CASE LoopStep /\ ~Start
      BY <2>2, <2>5 DEF LoopStep, EnterLoop, Poll, HandleWakeup, AcceptFails, EndFunctors,
         Crash, WriteComplete, DoPendingFunctors, loopVars, Loop!DoPendingFunctors,
         Loop!EnterLoop, Loop!Poll, Loop!HandleWakeup, Loop!EndFunctors
    <2>6. CASE HandleAccept \/ EnvNext \/ UNCHANGED vars
      BY <2>2, <2>6 DEF HandleAccept, EnvNext, vars, loopVars
    <2>7. ASSUME NEW p \in Peers, ChannelStep(p) PROVE Registers
      BY <2>7, HandlersEffect DEF ChannelStep, HandlerEffect
    <2>8. ASSUME NEW p \in Peers, ConnectEstablished(p) PROVE Registers
      BY <2>8, EstablishEffect
    <2> QED
      BY <2>3, <2>4, <2>5, <2>6, <2>7, <2>8, NextCases
  <1>4. \A a \in active' : a.ch \in Peers => a.ch \in Callable'
    <2>1. \A a \in active : a.ch \in Peers => a.ch \in Callable'
      BY <1>2 DEF ConnInv, CallInv
    <2>2. CASE UNCHANGED active
      BY <2>1, <2>2
    <2>3. ASSUME NEW ch, NEW k, Callback(ch, k)
          PROVE  \A a \in active' : a.ch \in Peers => a.ch \in Callable'
      <3>1. (\E a \in active : a.ch = ch) /\ \A b \in active' : b \in active \/ b.ch = ch
        BY <1>0, <2>3, CallbackIs
      <3> QED
        BY <2>1, <3>1
    <2>4. CASE Poll
      <3>1. \A a \in active' : \E r \in registered : a.ch = r.ch
        BY <2>4 DEF Poll, Loop!Poll, Loop!Ready
      <3>2. \A r \in registered : r.ch \in Peers => r.ch \in Callable
        BY ChannelNames DEF ConnInv, CallInv, WakeupRegistration, AcceptorRegistration
      <3> QED
        BY <1>2, <3>1, <3>2
    <2>5. CASE HandleWakeup
      <3>1. PICK a \in active : a.ch = WakeupChannel /\ Loop!Handled(a, "in")
        BY <2>5 DEF HandleWakeup, Loop!HandleWakeup
      <3>2. a \in [ch : Channels, ev : SUBSET Loop!Events, started : BOOLEAN]
        BY <1>0, LoopInvTypes DEF Loop!TypeOK, Loop!Activation
      <3>3. [a EXCEPT !.ev = a.ev \ {"in"}, !.started = TRUE].ch = WakeupChannel
        BY <3>1, <3>2
      <3>4. \A b \in active' : b \in active \/ b.ch = WakeupChannel
        BY <3>1, <3>3 DEF Loop!Handled
      <3> QED
        BY <2>1, <3>4, ChannelNames
    <2>6. CASE Start \/ EnterLoop \/ AcceptFails \/ EndFunctors \/ DoPendingFunctors
               \/ \E p \in Peers : WriteComplete(p)
      BY <2>2, <2>6 DEF Start, EnterLoop, AcceptFails, EndFunctors,
         Crash, WriteComplete, DoPendingFunctors, loopVars, Loop!DoPendingFunctors,
         Loop!EnterLoop, Loop!EndFunctors
    <2>7. CASE HandleAccept
      BY <2>3, <2>7 DEF HandleAccept
    <2>8. CASE EnvNext \/ UNCHANGED vars
      BY <2>2, <2>8 DEF EnvNext, vars, loopVars
    <2>9. ASSUME NEW p \in Peers, ChannelStep(p) PROVE \E k : Callback(p, k)
      BY <2>9, HandlersEffect DEF ChannelStep, HandlerEffect
    <2>10. ASSUME NEW p \in Peers, ConnectEstablished(p) PROVE UNCHANGED active
      BY <2>10, EstablishEffect
    <2> QED
      BY <2>2, <2>3, <2>4, <2>5, <2>6, <2>7, <2>8, <2>9, <2>10, NextCases DEF LoopStep
  <1> QED
    BY <1>2, <1>3, <1>4, NextQueue DEF CallInv, QueueOK, Watches

LEMMA NextConn == ConnInv /\ [Next]_vars => ConnInv'
  BY NextIsLoop, NextLoopInv, NextTypes, NextBacklog, NextTable, NextCall DEF ConnInv

LEMMA ConnInvHolds == Spec => []ConnInv
  BY InitConn, NextConn, PTL DEF Spec

\* The variables have the types of the members and of the kernel's tables.
THEOREM TypeCorrect == Spec => []TypeOK
  <1>1. ConnInv => TypeOK
    BY LoopInvTypes DEF ConnInv, SockTypes, ConnTypes, TypeOK
  <1> QED
    BY <1>1, ConnInvHolds, PTL

\* With its Acceptor and its connections the thread is an event loop, whatever
\* the application sends and to whom (TcpServer.cc:26-36, EventLoop.cc:54-69).
THEOREM ImplementsLoopHolds == Spec => ImplementsLoop
  <1>1. Init => Loop!Init
    BY DEF Init
  <1>2. ConnInv /\ [Next]_vars => [Loop!Next]_(Loop!vars)
    BY NextIsLoop
  <1> QED
    BY <1>1, <1>2, ConnInvHolds, PTL DEF Spec, ImplementsLoop, Loop!Spec

\* The server's thread does not sleep on a connectEstablished or a
\* writeComplete that it has been given (EventLoop.cc:94-113).
THEOREM NeverAsleepOnWork == Spec => []Loop!NoLostWakeup
  <1>1. LoopInv => Loop!NoLostWakeup
    BY DEF LoopInv, LoopProofs!IInv, LoopProofs!NoLostWakeup, Loop!NoLostWakeup,
       LoopProofs!WakeupRegistered, Loop!WakeupRegistered
  <1>2. ConnInv => LoopInv
    BY DEF ConnInv
  <1> QED
    BY <1>1, <1>2, ConnInvHolds, PTL

------------------------------------------------------------------------------
(* EPOLLOUT and the output buffer.                                           *)

WritingInv == \A p \in Peers : "out" \in events[p] <=> outputBuf[p] # <<>>

\* Which steps change what a connection asks for or what it has to write.
LEMMA BufferSteps ==
    ASSUME ConnInv, [Next]_vars
    PROVE  \/ UNCHANGED <<events, outputBuf>>
           \/ \E q \in Peers : \E msg \in Seq(Byte) : \E n \in 0 .. Len(msg) : Sends(q, msg, n)
           \/ \E p \in Peers : \E n \in Nat : Writes(p, n)
           \/ \E p \in Peers : ConnectEstablished(p)
  <1>0. SockTypes /\ ConnTypes
    BY DEF ConnInv
  <1>1. CASE crashed = "no" /\ LoopStep
    BY <1>1, LoopStepKeeps DEF connVars
  <1>2. CASE HandleAccept \/ EnvNext \/ UNCHANGED vars
    BY <1>2 DEF HandleAccept, EnvNext, vars, connVars
  <1>3. ASSUME NEW p \in Peers, ChannelStep(p)
        PROVE  \/ UNCHANGED <<events, outputBuf>>
               \/ \E q \in Peers : \E msg \in Seq(Byte) : \E n \in 0 .. Len(msg) : Sends(q, msg, n)
               \/ \E n \in Nat : Writes(p, n)
    <2>1. CASE HandleReadData(p)
      <3>1. PICK k \in Nat, q \in Peers :
                /\ Message(p, k) \in Seq(Byte) /\ Len(Message(p, k)) = k
                /\ SendFails \/ \E n \in 0 .. k : Sends(q, Message(p, k), n)
        BY <1>0, <2>1, ReadCases
      <3>2. CASE SendFails
        BY <3>2 DEF SendFails
      <3> QED
        BY <3>1, <3>2
    <2>2. CASE HandleWriteSome(p)
      BY <1>0, <2>2, WriteCases
    <2>3. CASE HandleReadEof(p) \/ HandleReadError(p) \/ HandleWriteNone(p)
      BY <2>3 DEF HandleReadEof, HandleReadError, HandleWriteNone, connVars
    <2> QED
      BY <1>3, <2>1, <2>2, <2>3 DEF ChannelStep
  <1> QED
    BY <1>1, <1>2, <1>3, NextCases

LEMMA SendKeepsWriting ==
    ASSUME SockTypes, ConnTypes, WritingInv, NEW q \in Peers, NEW msg \in Seq(Byte),
           NEW n \in 0 .. Len(msg), Sends(q, msg, n)
    PROVE  WritingInv'
  <1> DEFINE rest == SubSeq(msg, n + 1, Len(msg))
  <1>1. rest \in Seq(Byte) /\ Len(rest) = Len(msg) - n /\ Len(msg) \in Nat
    BY Parts, LenProperties
  <1>2. /\ outputBuf[q] \in Seq(Byte) /\ Len(outputBuf[q]) \in Nat
        /\ outputBuf[q] \o rest \in Seq(Byte)
        /\ Len(outputBuf[q] \o rest) = Len(outputBuf[q]) + (Len(msg) - n)
    BY <1>1, ConcatProperties, LenProperties DEF ConnTypes
  <1>3. outputBuf' = [outputBuf EXCEPT ![q] = outputBuf[q] \o rest]
    BY DEF Sends, KeepRest
  <1> HIDE DEF rest
  <1>4. /\ outputBuf'[q] = outputBuf[q] \o rest
        /\ \A p \in Peers : p # q => outputBuf'[p] = outputBuf[p]
    BY <1>3 DEF ConnTypes
  <1>5. outputBuf'[q] = <<>> <=> outputBuf[q] = <<>> /\ n = Len(msg)
    <2>1. outputBuf'[q] = <<>> <=> Len(outputBuf[q] \o rest) = 0
      BY <1>2, <1>4, EmptySeq
    <2>2. outputBuf[q] = <<>> <=> Len(outputBuf[q]) = 0
      BY <1>2, EmptySeq
    <2>3. n \in Nat /\ n <= Len(msg)
      BY <1>1
    <2> QED
      BY <1>1, <1>2, <2>1, <2>2, <2>3
  <1>6. n = 0 => outputBuf[q] # <<>>
    BY DEF Sends
  <1>7. "out" \in events[q] <=> outputBuf[q] # <<>>
    BY DEF WritingInv
  <1>8. CASE n < Len(msg) /\ "out" \notin events[q]
    <2>1. /\ "out" \in events'[q]
          /\ \A p \in Peers : p # q => events'[p] = events[p]
      BY <1>8 DEF Sends, Enable, ConnTypes
    <2>2. outputBuf'[q] # <<>>
      BY <1>1, <1>5, <1>8
    <2> QED
      BY <1>4, <2>1, <2>2 DEF WritingInv
  <1>9. CASE ~(n < Len(msg) /\ "out" \notin events[q])
    <2>1. UNCHANGED events
      BY <1>9, Zenon DEF Sends
    <2>2. "out" \in events[q] <=> outputBuf'[q] # <<>>
      <3>1. n < Len(msg) \/ n = Len(msg)
        BY <1>1
      <3>2. n # Len(msg) => "out" \in events[q]
        BY <1>1, <1>9, <3>1
      <3> QED
        BY <1>5, <1>7, <3>2
    <2> QED
      BY <1>4, <2>1, <2>2 DEF WritingInv
  <1> QED
    BY <1>8, <1>9

LEMMA NextWriting == ConnInv /\ WritingInv /\ [Next]_vars => WritingInv'
  <1> SUFFICES ASSUME ConnInv, WritingInv, [Next]_vars PROVE WritingInv'
    OBVIOUS
  <1>0. SockTypes /\ ConnTypes
    BY DEF ConnInv
  <1>1. CASE UNCHANGED <<events, outputBuf>>
    BY <1>1 DEF WritingInv
  <1>2. ASSUME NEW p \in Peers, NEW n \in Nat, Writes(p, n) PROVE WritingInv'
    <2> DEFINE rest == SubSeq(outputBuf[p], n + 1, Len(outputBuf[p]))
    <2>1. outputBuf[p] \in Seq(Byte) /\ Len(outputBuf[p]) \in Nat /\ n \in 1 .. Len(outputBuf[p])
      BY <1>0, <1>2, LenProperties DEF ConnTypes, Writes
    <2>2. rest \in Seq(Byte) /\ Len(rest) = Len(outputBuf[p]) - n
      BY <2>1, Parts
    <2>3. outputBuf' = [outputBuf EXCEPT ![p] = rest]
      BY <1>2 DEF Writes, TakeOutput
    <2> HIDE DEF rest
    <2>4. /\ outputBuf'[p] = rest
          /\ \A q \in Peers : q # p => outputBuf'[q] = outputBuf[q]
      BY <1>0, <2>3 DEF ConnTypes
    <2>5. outputBuf'[p] = <<>> <=> n = Len(outputBuf[p])
      <3>1. outputBuf'[p] = <<>> <=> Len(rest) = 0
        BY <2>2, <2>4, EmptySeq
      <3> QED
        BY <2>1, <2>2, <3>1
    <2>6. CASE n = Len(outputBuf[p])
      <3>1. /\ "out" \notin events'[p]
            /\ \A q \in Peers : q # p => events'[q] = events[q]
        BY <1>0, <1>2, <2>6 DEF Writes, DisableWriting, ConnTypes
      <3> QED
        BY <2>4, <2>5, <2>6, <3>1 DEF WritingInv
    <2>7. CASE n # Len(outputBuf[p])
      <3>1. UNCHANGED events
        BY <1>2, <2>7 DEF Writes
      <3>2. outputBuf[p] # <<>>
        BY <2>1, EmptySeq
      <3> QED
        BY <2>4, <2>5, <2>7, <3>1, <3>2 DEF WritingInv
    <2> QED
      BY <2>6, <2>7
  <1>3. ASSUME NEW p \in Peers, ConnectEstablished(p) PROVE WritingInv'
    <2>1. events' = [events EXCEPT ![p] = @ \cup {"in"}] /\ UNCHANGED outputBuf
      BY <1>3 DEF ConnectEstablished, Enable
    <2>2. \A q \in Peers : "out" \in events'[q] <=> "out" \in events[q]
      BY <1>0, <2>1 DEF ConnTypes
    <2> QED
      BY <2>1, <2>2 DEF WritingInv
  <1> QED
    BY <1>0, <1>1, <1>2, <1>3, BufferSteps, SendKeepsWriting

\* A connection asks for EPOLLOUT exactly while it has output to flush
\* (TcpConnection.cc:56-71, 87-94).
THEOREM WritingIffOutputHolds == Spec => []WritingIffOutput
  <1>1. Init => WritingInv
    BY DEF Init, WritingInv
  <1>2. WritingInv => WritingIffOutput
    BY DEF WritingInv, WritingIffOutput
  <1> QED
    BY <1>1, <1>2, ConnInvHolds, NextWriting, PTL DEF Spec

------------------------------------------------------------------------------
(* No byte is in two places.                                                 *)

LEMMA PartsOfParts ==
    ASSUME NEW S, NEW s \in Seq(S), NEW k \in 0 .. Len(s), NEW n \in 0 .. k
    PROVE  /\ k - n \in 0 .. Len(SubSeq(s, n + 1, Len(s)))
           /\ n \in 0 .. Len(s) /\ n \in 0 .. Len(SubSeq(s, 1, k))
           /\ SubSeq(SubSeq(s, 1, k), 1, n) = SubSeq(s, 1, n)
           /\ SubSeq(SubSeq(s, 1, k), n + 1, k) = SubSeq(SubSeq(s, n + 1, Len(s)), 1, k - n)
           /\ SubSeq(SubSeq(s, n + 1, Len(s)), k - n + 1, Len(s) - n) = SubSeq(s, k + 1, Len(s))
  <1> DEFINE front == SubSeq(s, 1, k)
             rest == SubSeq(s, n + 1, Len(s))
  <1>1. Len(s) \in Nat /\ k \in Nat /\ n \in Nat /\ k <= Len(s) /\ n <= k
    BY LenProperties
  <1>2. n \in 0 .. Len(s)
    BY <1>1
  <1>3. front \in Seq(S) /\ Len(front) = k /\ \A i \in 1 .. k : front[i] = s[i]
    BY Parts
  <1>4. rest \in Seq(S) /\ Len(rest) = Len(s) - n /\ \A i \in 1 .. Len(s) - n : rest[i] = s[n + i]
    BY <1>2, Parts
  <1> HIDE DEF front, rest
  <1>5. n \in 0 .. Len(front) /\ k - n \in 0 .. Len(rest)
    BY <1>1, <1>3, <1>4
  <1>6. /\ SubSeq(front, 1, n) \in Seq(S) /\ Len(SubSeq(front, 1, n)) = n
        /\ \A i \in 1 .. n : SubSeq(front, 1, n)[i] = front[i]
        /\ SubSeq(front, n + 1, k) \in Seq(S) /\ Len(SubSeq(front, n + 1, k)) = k - n
        /\ \A i \in 1 .. k - n : SubSeq(front, n + 1, k)[i] = front[n + i]
    BY <1>3, <1>5, Parts
  <1>7. /\ SubSeq(rest, 1, k - n) \in Seq(S) /\ Len(SubSeq(rest, 1, k - n)) = k - n
        /\ \A i \in 1 .. k - n : SubSeq(rest, 1, k - n)[i] = rest[i]
        /\ SubSeq(rest, k - n + 1, Len(s) - n) \in Seq(S)
        /\ Len(SubSeq(rest, k - n + 1, Len(s) - n)) = (Len(s) - n) - (k - n)
        /\ \A i \in 1 .. (Len(s) - n) - (k - n) :
              SubSeq(rest, k - n + 1, Len(s) - n)[i] = rest[k - n + i]
    BY <1>4, <1>5, Parts
  <1>8. /\ SubSeq(s, 1, n) \in Seq(S) /\ Len(SubSeq(s, 1, n)) = n
        /\ \A i \in 1 .. n : SubSeq(s, 1, n)[i] = s[i]
    BY <1>2, Parts
  <1>9. /\ SubSeq(s, k + 1, Len(s)) \in Seq(S) /\ Len(SubSeq(s, k + 1, Len(s))) = Len(s) - k
        /\ \A i \in 1 .. Len(s) - k : SubSeq(s, k + 1, Len(s))[i] = s[k + i]
    BY Parts
  <1>10. SubSeq(front, 1, n) = SubSeq(s, 1, n)
    <2>1. \A i \in 1 .. n : SubSeq(front, 1, n)[i] = SubSeq(s, 1, n)[i]
      BY <1>1, <1>3, <1>6, <1>8
    <2> QED
      BY <1>6, <1>8, <2>1, SeqEqual
  <1>11. SubSeq(front, n + 1, k) = SubSeq(rest, 1, k - n)
    <2>1. \A i \in 1 .. k - n : SubSeq(front, n + 1, k)[i] = SubSeq(rest, 1, k - n)[i]
      <3> TAKE i \in 1 .. k - n
      <3>1. n + i \in 1 .. k /\ i \in 1 .. Len(s) - n
        BY <1>1
      <3>2. front[n + i] = s[n + i] /\ rest[i] = s[n + i]
        BY <1>3, <1>4, <3>1
      <3> QED
        BY <1>6, <1>7, <3>2
    <2> QED
      BY <1>6, <1>7, <2>1, SeqEqual
  <1>12. SubSeq(rest, k - n + 1, Len(s) - n) = SubSeq(s, k + 1, Len(s))
    <2>1. (Len(s) - n) - (k - n) = Len(s) - k
      BY <1>1
    <2>2. ASSUME NEW i \in 1 .. Len(s) - k
          PROVE  SubSeq(rest, k - n + 1, Len(s) - n)[i] = SubSeq(s, k + 1, Len(s))[i]
      <3>1. k - n + i \in 1 .. Len(s) - n /\ n + (k - n + i) = k + i
        BY <1>1
      <3> QED
        BY <1>4, <1>7, <1>9, <2>1, <3>1
    <2> QED
      BY <1>7, <1>9, <2>1, <2>2, SeqEqual
  <1> QED
    BY <1>2, <1>5, <1>10, <1>11, <1>12 DEF front, rest

\* The four places of every connection, as one function.
At(x, g, s, o, r) ==
    CASE x[1] = "got"       -> g[x[2]]
      [] x[1] = "sndq"      -> s[x[2]]
      [] x[1] = "outputBuf" -> o[x[2]]
      [] x[1] = "rcvq"      -> r[x[2]]

Layout(g, s, o, r) == [x \in Places |-> At(x, g, s, o, r)]

\* f is the layout of g, s, o and r, read at connection p.
LaysOut(f, g, s, o, r, p) ==
    /\ f = [x \in Places |-> f[x]]
    /\ f[<<"got", p>>] = g[p]
    /\ f[<<"sndq", p>>] = s[p]
    /\ f[<<"outputBuf", p>>] = o[p]
    /\ f[<<"rcvq", p>>] = r[p]

LEMMA LayoutValues ==
    ASSUME NEW g, NEW s, NEW o, NEW r, NEW p \in Peers
    PROVE  LaysOut(Layout(g, s, o, r), g, s, o, r, p)
  <1>1. Layout(g, s, o, r) = [x \in Places |-> Layout(g, s, o, r)[x]]
    BY DEF Layout
  <1>2. {<<"got", p>>, <<"sndq", p>>, <<"outputBuf", p>>, <<"rcvq", p>>} \subseteq Places
    BY DEF Places
  <1> QED
    BY <1>1, <1>2 DEF At, Layout, LaysOut

LEMMA LayoutType ==
    ASSUME NEW g \in [Peers -> Seq(Byte)], NEW s \in [Peers -> Seq(Byte)],
           NEW o \in [Peers -> Seq(Byte)], NEW r \in [Peers -> Seq(Byte)]
    PROVE  Layout(g, s, o, r) \in [Places -> Seq(Byte)]
  <1> SUFFICES ASSUME NEW x \in Places PROVE Layout(g, s, o, r)[x] \in Seq(Byte)
    BY DEF Layout
  <1>1. PICK w \in {"got", "sndq", "outputBuf", "rcvq"}, p \in Peers : x = <<w, p>>
    BY DEF Places
  <1>2. LaysOut(Layout(g, s, o, r), g, s, o, r, p)
    BY LayoutValues, Zenon
  <1>3. /\ g[p] \in Seq(Byte) /\ s[p] \in Seq(Byte)
        /\ o[p] \in Seq(Byte) /\ r[p] \in Seq(Byte)
    OBVIOUS
  <1> QED
    BY <1>1, <1>2, <1>3 DEF LaysOut

\* Changing one place of one connection changes the layout there.
Updates(g, s, o, r, p, v) ==
    /\ Layout([g EXCEPT ![p] = v], s, o, r) = [Layout(g, s, o, r) EXCEPT ![<<"got", p>>] = v]
    /\ Layout(g, [s EXCEPT ![p] = v], o, r) = [Layout(g, s, o, r) EXCEPT ![<<"sndq", p>>] = v]
    /\ Layout(g, s, [o EXCEPT ![p] = v], r) = [Layout(g, s, o, r) EXCEPT ![<<"outputBuf", p>>] = v]
    /\ Layout(g, s, o, [r EXCEPT ![p] = v]) = [Layout(g, s, o, r) EXCEPT ![<<"rcvq", p>>] = v]

LEMMA LayoutUpdates ==
    ASSUME NEW g \in [Peers -> Seq(Byte)], NEW s \in [Peers -> Seq(Byte)],
           NEW o \in [Peers -> Seq(Byte)], NEW r \in [Peers -> Seq(Byte)],
           NEW p \in Peers, NEW v
    PROVE  Updates(g, s, o, r, p, v)
  <1> DEFINE Old == Layout(g, s, o, r)
             NewG == Layout([g EXCEPT ![p] = v], s, o, r)
             NewS == Layout(g, [s EXCEPT ![p] = v], o, r)
             NewO == Layout(g, s, [o EXCEPT ![p] = v], r)
             NewR == Layout(g, s, o, [r EXCEPT ![p] = v])
  <1>1. ASSUME NEW x \in Places
        PROVE  /\ NewG[x] = IF x = <<"got", p>> THEN v ELSE Old[x]
               /\ NewS[x] = IF x = <<"sndq", p>> THEN v ELSE Old[x]
               /\ NewO[x] = IF x = <<"outputBuf", p>> THEN v ELSE Old[x]
               /\ NewR[x] = IF x = <<"rcvq", p>> THEN v ELSE Old[x]
    <2>1. PICK w \in {"got", "sndq", "outputBuf", "rcvq"}, q \in Peers : x = <<w, q>>
      BY DEF Places
    <2>2. /\ LaysOut(Old, g, s, o, r, q)
          /\ LaysOut(NewG, [g EXCEPT ![p] = v], s, o, r, q)
          /\ LaysOut(NewS, g, [s EXCEPT ![p] = v], o, r, q)
          /\ LaysOut(NewO, g, s, [o EXCEPT ![p] = v], r, q)
          /\ LaysOut(NewR, g, s, o, [r EXCEPT ![p] = v], q)
      BY LayoutValues, Zenon
    <2> HIDE DEF Old, NewG, NewS, NewO, NewR
    <2>3. CASE w = "got"
      BY <2>1, <2>2, <2>3 DEF LaysOut
    <2>4. CASE w = "sndq"
      BY <2>1, <2>2, <2>4 DEF LaysOut
    <2>5. CASE w = "outputBuf"
      BY <2>1, <2>2, <2>5 DEF LaysOut
    <2>6. CASE w = "rcvq"
      BY <2>1, <2>2, <2>6 DEF LaysOut
    <2> QED
      BY <2>3, <2>4, <2>5, <2>6
  <1>2. /\ LaysOut(Old, g, s, o, r, p)
        /\ LaysOut(NewG, [g EXCEPT ![p] = v], s, o, r, p)
        /\ LaysOut(NewS, g, [s EXCEPT ![p] = v], o, r, p)
        /\ LaysOut(NewO, g, s, [o EXCEPT ![p] = v], r, p)
        /\ LaysOut(NewR, g, s, o, [r EXCEPT ![p] = v], p)
    BY LayoutValues, Zenon
  <1> HIDE DEF Old, NewG, NewS, NewO, NewR
  <1>3. /\ NewG = [Old EXCEPT ![<<"got", p>>] = v] /\ NewS = [Old EXCEPT ![<<"sndq", p>>] = v]
        /\ NewO = [Old EXCEPT ![<<"outputBuf", p>>] = v] /\ NewR = [Old EXCEPT ![<<"rcvq", p>>] = v]
    BY <1>1, <1>2 DEF LaysOut
  <1> QED
    BY <1>3 DEF Old, NewG, NewS, NewO, NewR, Updates

\* The bytes that were sent.
SentBytes == {b \in Byte : b.n \in 1 .. sent[b.from]}

\* NoByteTwice is inductive only with where the bytes come from: the next byte
\* of a peer is new because all bytes that are stored have been sent before.
OnceInv == Once(Stored, SentBytes)

LEMMA StoredIs ==
    /\ Stored = Layout(got, sndq, outputBuf, rcvq)
    /\ Stored' = Layout(got', sndq', outputBuf', rcvq')
  BY DEF Stored, Layout, At

\* The first n bytes at connection a go behind the bytes at connection b.
FirstOf(f, a, n) == SubSeq(f[a], 1, n)
TakenFrom(f, a, n) == [f EXCEPT ![a] = SubSeq(f[a], n + 1, Len(f[a]))]
AddedTo(f, b, t) == [f EXCEPT ![b] = f[b] \o t]

LEMMA LayoutMoves ==
    ASSUME NEW g \in [Peers -> Seq(Byte)], NEW s \in [Peers -> Seq(Byte)],
           NEW o \in [Peers -> Seq(Byte)], NEW r \in [Peers -> Seq(Byte)],
           NEW B, Once(Layout(g, s, o, r), B),
           NEW a \in Peers, NEW b \in Peers, NEW n
    PROVE  /\ n \in 0 .. Len(r[a]) =>
                 /\ Once(Layout(g, AddedTo(s, b, FirstOf(r, a, n)), o, TakenFrom(r, a, n)), B)
                 /\ Once(Layout(g, s, AddedTo(o, b, FirstOf(r, a, n)), TakenFrom(r, a, n)), B)
                 /\ Once(Layout(g, s, o, TakenFrom(r, a, n)), B)
           /\ n \in 0 .. Len(o[a]) =>
                 Once(Layout(g, AddedTo(s, b, FirstOf(o, a, n)), TakenFrom(o, a, n), r), B)
           /\ n \in 0 .. Len(s[a]) =>
                 /\ Once(Layout(AddedTo(g, b, FirstOf(s, a, n)), TakenFrom(s, a, n), o, r), B)
                 /\ Once(Layout(g, TakenFrom(s, a, n), o, r), B)
  <1> DEFINE f == Layout(g, s, o, r)
             atG == <<"got", b>>
             atS == <<"sndq", b>>
             atO == <<"outputBuf", b>>
             fromS == <<"sndq", a>>
             fromO == <<"outputBuf", a>>
             fromR == <<"rcvq", a>>
  <1>1. f \in [Places -> Seq(Byte)] /\ Once(f, B)
    BY LayoutType
  <1>2. LaysOut(f, g, s, o, r, a) /\ LaysOut(f, g, s, o, r, b)
    BY LayoutValues, Zenon
  <1>3. /\ f[atG] = g[b] /\ f[atS] = s[b] /\ f[atO] = o[b]
        /\ f[fromS] = s[a] /\ f[fromO] = o[a] /\ f[fromR] = r[a]
    BY <1>2 DEF LaysOut
  <1>4. /\ {atG, atS, atO, fromS, fromO, fromR} \subseteq Places
        /\ fromR # atS /\ fromR # atO /\ fromO # atS /\ fromS # atG
    BY DEF Places
  <1>5. ASSUME NEW k, k \in 0 .. Len(r[a])
        PROVE  /\ Once(Moved(f, fromR, atS, k), B) /\ Once(Moved(f, fromR, atO, k), B)
               /\ Once([f EXCEPT ![fromR] = SubSeq(f[fromR], k + 1, Len(f[fromR]))], B)
    <2> HIDE DEF f, atG, atS, atO, fromS, fromO, fromR
    <2>1. k \in 0 .. Len(f[fromR]) /\ fromR \in Places /\ atS \in Places /\ atO \in Places
      BY <1>3, <1>4, <1>5
    <2> QED
      BY <1>1, <1>4, <2>1, MoveKeepsOnce, DropKeepsOnce
  <1>6. ASSUME NEW k, k \in 0 .. Len(o[a]) PROVE Once(Moved(f, fromO, atS, k), B)
    <2> HIDE DEF f, atG, atS, atO, fromS, fromO, fromR
    <2>1. k \in 0 .. Len(f[fromO]) /\ fromO \in Places /\ atS \in Places
      BY <1>3, <1>4, <1>6
    <2> QED
      BY <1>1, <1>4, <2>1, MoveKeepsOnce
  <1>7. ASSUME NEW k, k \in 0 .. Len(s[a])
        PROVE  /\ Once(Moved(f, fromS, atG, k), B)
               /\ Once([f EXCEPT ![fromS] = SubSeq(f[fromS], k + 1, Len(f[fromS]))], B)
    <2> HIDE DEF f, atG, atS, atO, fromS, fromO, fromR
    <2>1. k \in 0 .. Len(f[fromS]) /\ fromS \in Places /\ atG \in Places
      BY <1>3, <1>4, <1>7
    <2> QED
      BY <1>1, <1>4, <2>1, MoveKeepsOnce, DropKeepsOnce
  <1>8. ASSUME NEW h \in [Peers -> Seq(Byte)], NEW k, k \in 0 .. Len(h[a])
        PROVE  TakenFrom(h, a, k) \in [Peers -> Seq(Byte)]
    <2>1. SubSeq(h[a], k + 1, Len(h[a])) \in Seq(Byte)
      BY <1>8, Parts
    <2> QED
      BY <2>1 DEF TakenFrom
  <1>9. ASSUME n \in 0 .. Len(r[a])
        PROVE  /\ Layout(g, AddedTo(s, b, FirstOf(r, a, n)), o, TakenFrom(r, a, n)) = Moved(f, fromR, atS, n)
               /\ Layout(g, s, AddedTo(o, b, FirstOf(r, a, n)), TakenFrom(r, a, n)) = Moved(f, fromR, atO, n)
               /\ Layout(g, s, o, TakenFrom(r, a, n))
                     = [f EXCEPT ![fromR] = SubSeq(f[fromR], n + 1, Len(f[fromR]))]
    <2> DEFINE v == SubSeq(r[a], n + 1, Len(r[a]))
    <2>1. TakenFrom(r, a, n) \in [Peers -> Seq(Byte)]
      BY <1>8, <1>9
    <2>2. /\ Updates(g, s, o, r, a, v)
          /\ Updates(g, s, o, TakenFrom(r, a, n), b, s[b] \o FirstOf(r, a, n))
          /\ Updates(g, s, o, TakenFrom(r, a, n), b, o[b] \o FirstOf(r, a, n))
      BY <2>1, LayoutUpdates, Zenon
    <2>3. Layout(g, s, o, TakenFrom(r, a, n)) = [f EXCEPT ![fromR] = v]
      BY <2>2, Zenon DEF Updates, TakenFrom
    <2>4. Layout(g, AddedTo(s, b, FirstOf(r, a, n)), o, TakenFrom(r, a, n))
             = [Layout(g, s, o, TakenFrom(r, a, n)) EXCEPT ![atS] = s[b] \o FirstOf(r, a, n)]
      BY <2>2, Zenon DEF Updates, AddedTo
    <2>5. Layout(g, s, AddedTo(o, b, FirstOf(r, a, n)), TakenFrom(r, a, n))
             = [Layout(g, s, o, TakenFrom(r, a, n)) EXCEPT ![atO] = o[b] \o FirstOf(r, a, n)]
      BY <2>2, Zenon DEF Updates, AddedTo
    <2> HIDE DEF f, atS, atO, fromR
    <2> QED
      BY <1>3, <2>3, <2>4, <2>5 DEF Moved, FirstOf
  <1>10. ASSUME n \in 0 .. Len(o[a])
         PROVE  Layout(g, AddedTo(s, b, FirstOf(o, a, n)), TakenFrom(o, a, n), r) = Moved(f, fromO, atS, n)
    <2>1. TakenFrom(o, a, n) \in [Peers -> Seq(Byte)]
      BY <1>8, <1>10
    <2>2. /\ Updates(g, s, o, r, a, SubSeq(o[a], n + 1, Len(o[a])))
          /\ Updates(g, s, TakenFrom(o, a, n), r, b, s[b] \o FirstOf(o, a, n))
      BY <2>1, LayoutUpdates, Zenon
    <2>3. Layout(g, s, TakenFrom(o, a, n), r) = [f EXCEPT ![fromO] = SubSeq(o[a], n + 1, Len(o[a]))]
      BY <2>2, Zenon DEF Updates, TakenFrom
    <2>4. Layout(g, AddedTo(s, b, FirstOf(o, a, n)), TakenFrom(o, a, n), r)
             = [Layout(g, s, TakenFrom(o, a, n), r) EXCEPT ![atS] = s[b] \o FirstOf(o, a, n)]
      BY <2>2, Zenon DEF Updates, AddedTo
    <2> HIDE DEF f, atS, fromO
    <2> QED
      BY <1>3, <2>3, <2>4 DEF Moved, FirstOf
  <1>11. ASSUME n \in 0 .. Len(s[a])
         PROVE  /\ Layout(AddedTo(g, b, FirstOf(s, a, n)), TakenFrom(s, a, n), o, r) = Moved(f, fromS, atG, n)
                /\ Layout(g, TakenFrom(s, a, n), o, r)
                      = [f EXCEPT ![fromS] = SubSeq(f[fromS], n + 1, Len(f[fromS]))]
    <2>1. TakenFrom(s, a, n) \in [Peers -> Seq(Byte)]
      BY <1>8, <1>11
    <2>2. /\ Updates(g, s, o, r, a, SubSeq(s[a], n + 1, Len(s[a])))
          /\ Updates(g, TakenFrom(s, a, n), o, r, b, g[b] \o FirstOf(s, a, n))
      BY <2>1, LayoutUpdates, Zenon
    <2>3. Layout(g, TakenFrom(s, a, n), o, r) = [f EXCEPT ![fromS] = SubSeq(s[a], n + 1, Len(s[a]))]
      BY <2>2, Zenon DEF Updates, TakenFrom
    <2>4. Layout(AddedTo(g, b, FirstOf(s, a, n)), TakenFrom(s, a, n), o, r)
             = [Layout(g, TakenFrom(s, a, n), o, r) EXCEPT ![atG] = g[b] \o FirstOf(s, a, n)]
      BY <2>2, Zenon DEF Updates, AddedTo
    <2> HIDE DEF f, atG, fromS
    <2> QED
      BY <1>3, <2>3, <2>4 DEF Moved, FirstOf
  <1> HIDE DEF f, atG, atS, atO, fromS, fromO, fromR
  <1>12. ASSUME n \in 0 .. Len(r[a])
         PROVE  /\ Once(Layout(g, AddedTo(s, b, FirstOf(r, a, n)), o, TakenFrom(r, a, n)), B)
                /\ Once(Layout(g, s, AddedTo(o, b, FirstOf(r, a, n)), TakenFrom(r, a, n)), B)
                /\ Once(Layout(g, s, o, TakenFrom(r, a, n)), B)
    BY <1>5, <1>9, <1>12, Zenon
  <1>13. ASSUME n \in 0 .. Len(o[a])
         PROVE  Once(Layout(g, AddedTo(s, b, FirstOf(o, a, n)), TakenFrom(o, a, n), r), B)
    BY <1>6, <1>10, <1>13, Zenon
  <1>14. ASSUME n \in 0 .. Len(s[a])
         PROVE  /\ Once(Layout(AddedTo(g, b, FirstOf(s, a, n)), TakenFrom(s, a, n), o, r), B)
                /\ Once(Layout(g, TakenFrom(s, a, n), o, r), B)
    BY <1>7, <1>11, <1>14, Zenon
  <1> QED
    BY <1>12, <1>13, <1>14, Zenon

\* Taking k bytes is taking n of them and then the others.
InTwoSteps(r, a, k, n) ==
    /\ n \in 0 .. Len(r[a])
    /\ TakenFrom(r, a, n) \in [Peers -> Seq(Byte)]
    /\ k - n \in 0 .. Len(TakenFrom(r, a, n)[a])
    /\ SubSeq(FirstOf(r, a, k), 1, n) = FirstOf(r, a, n)
    /\ SubSeq(FirstOf(r, a, k), n + 1, k) = FirstOf(TakenFrom(r, a, n), a, k - n)
    /\ TakenFrom(TakenFrom(r, a, n), a, k - n) = TakenFrom(r, a, k)

LEMMA TakenTwice ==
    ASSUME NEW r \in [Peers -> Seq(Byte)], NEW a \in Peers,
           NEW k \in 0 .. Len(r[a]), NEW n \in 0 .. k
    PROVE  InTwoSteps(r, a, k, n)
  <1> DEFINE rest == SubSeq(r[a], n + 1, Len(r[a]))
             q == r[a]
  <1>1. q \in Seq(Byte) /\ n \in 0 .. Len(q)
    BY PartsOfParts
  <1>2. rest \in Seq(Byte) /\ Len(rest) = Len(q) - n
    BY <1>1, Parts
  <1>3. /\ k - n \in 0 .. Len(rest)
        /\ SubSeq(SubSeq(q, 1, k), 1, n) = SubSeq(q, 1, n)
        /\ SubSeq(SubSeq(q, 1, k), n + 1, k) = SubSeq(rest, 1, k - n)
        /\ SubSeq(rest, k - n + 1, Len(q) - n) = SubSeq(q, k + 1, Len(q))
    BY <1>1, PartsOfParts, SMTT(20)
  <1>4. TakenFrom(r, a, n) = [r EXCEPT ![a] = rest]
    BY DEF TakenFrom
  <1> HIDE DEF rest
  <1>5. TakenFrom(r, a, n) \in [Peers -> Seq(Byte)] /\ TakenFrom(r, a, n)[a] = rest
    BY <1>2, <1>4
  <1>6. TakenFrom(TakenFrom(r, a, n), a, k - n)
           = [[r EXCEPT ![a] = rest] EXCEPT ![a] = SubSeq(rest, k - n + 1, Len(rest))]
    BY <1>4, <1>5 DEF TakenFrom
  <1>7. TakenFrom(TakenFrom(r, a, n), a, k - n) = TakenFrom(r, a, k)
    BY <1>2, <1>3, <1>6 DEF TakenFrom
  <1> QED
    BY <1>1, <1>3, <1>5, <1>7 DEF FirstOf, InTwoSteps

LEMMA SendKeepsOnce ==
    ASSUME SockTypes, ConnTypes, OnceInv, NEW p \in Peers, NEW k, Reads(p, k),
           NEW q \in Peers, NEW n \in 0 .. k, Sends(q, Message(p, k), n),
           UNCHANGED <<got, sent>>
    PROVE  OnceInv'
  <1> DEFINE a == Owner(fdOf[p])
             b == Owner(fdOf[q])
             msg == Message(p, k)
  <1>1. /\ got \in [Peers -> Seq(Byte)] /\ sndq \in [Peers -> Seq(Byte)]
        /\ outputBuf \in [Peers -> Seq(Byte)] /\ rcvq \in [Peers -> Seq(Byte)]
    BY DEF SockTypes, ConnTypes
  <1>2. a \in Peers /\ k \in 1 .. Len(rcvq[a]) /\ rcvq' = TakenFrom(rcvq, a, k)
    BY DEF Reads, TakenFrom
  <1>3. msg = FirstOf(rcvq, a, k)
    BY DEF Message, FirstOf
  <1>4. Len(rcvq[a]) \in Nat /\ rcvq[a] \in Seq(Byte)
    BY <1>1, <1>2, LenProperties
  <1> HIDE DEF a
  <1>5. k \in 0 .. Len(rcvq[a]) /\ k \in Nat
    BY <1>2, <1>4
  <1>6. msg \in Seq(Byte) /\ Len(msg) = k
    BY <1>3, <1>4, <1>5, Parts DEF FirstOf
  <1>7. outputBuf' = AddedTo(outputBuf, q, SubSeq(msg, n + 1, k))
    BY <1>6 DEF Sends, KeepRest, AddedTo
  <1>8. Once(Layout(got, sndq, outputBuf, rcvq), SentBytes)
    BY StoredIs DEF OnceInv
  <1>9. ASSUME Once(Layout(got', sndq', outputBuf', rcvq'), SentBytes) PROVE OnceInv'
    <2>1. SentBytes' = SentBytes
      BY DEF SentBytes
    <2> QED
      BY <1>9, <2>1, StoredIs DEF OnceInv
  <1> HIDE DEF msg
  <1>10. CASE n > 0
    <2>1. b \in Peers /\ sndq' = AddedTo(sndq, b, SubSeq(msg, 1, n))
      BY <1>10 DEF Sends, Transmit, AddedTo, msg
    <2> HIDE DEF b
    <2>2. /\ n \in 0 .. Len(rcvq[a])
          /\ TakenFrom(rcvq, a, n) \in [Peers -> Seq(Byte)]
          /\ k - n \in 0 .. Len(TakenFrom(rcvq, a, n)[a])
          /\ SubSeq(msg, 1, n) = FirstOf(rcvq, a, n)
          /\ SubSeq(msg, n + 1, k) = FirstOf(TakenFrom(rcvq, a, n), a, k - n)
          /\ TakenFrom(TakenFrom(rcvq, a, n), a, k - n) = rcvq'
      <3>1. InTwoSteps(rcvq, a, k, n)
        BY <1>1, <1>2, <1>5, TakenTwice, Zenon
      <3> QED
        BY <1>2, <1>3, <3>1 DEF InTwoSteps
    <2>3. Once(Layout(got, sndq', outputBuf, TakenFrom(rcvq, a, n)), SentBytes)
      BY <1>1, <1>2, <1>8, <2>1, <2>2, LayoutMoves
    <2>4. sndq' \in [Peers -> Seq(Byte)]
      BY <1>6, SendTypes DEF msg
    <2>5. Once(Layout(got, sndq', AddedTo(outputBuf, q, FirstOf(TakenFrom(rcvq, a, n), a, k - n)),
                      TakenFrom(TakenFrom(rcvq, a, n), a, k - n)), SentBytes)
      BY <1>1, <1>2, <2>2, <2>3, <2>4, LayoutMoves
    <2> QED
      BY <1>7, <1>9, <2>2, <2>5
  <1>11. CASE ~(n > 0)
    <2>1. n = 0 /\ sndq' = sndq
      BY <1>5, <1>11 DEF Sends
    <2>2. SubSeq(msg, n + 1, k) = FirstOf(rcvq, a, k)
      <3>1. SubSeq(msg, 1, Len(msg)) = msg
        BY <1>6, SubSeqFull
      <3> QED
        BY <1>3, <1>6, <2>1, <3>1
    <2>3. Once(Layout(got, sndq, AddedTo(outputBuf, q, FirstOf(rcvq, a, k)),
                      TakenFrom(rcvq, a, k)), SentBytes)
      BY <1>1, <1>2, <1>5, <1>8, LayoutMoves
    <2> QED
      BY <1>2, <1>7, <1>9, <2>1, <2>2, <2>3
  <1> QED
    BY <1>10, <1>11

\* Which steps move bytes.
LEMMA ByteSteps ==
    ASSUME ConnInv, [Next]_vars
    PROVE  \/ UNCHANGED <<got, sndq, outputBuf, rcvq, sent>>
           \/ \E p, q \in Peers : \E k \in Nat :
                 /\ Callback(p, "in") /\ Reads(p, k) /\ Len(Message(p, k)) = k /\ Message(p, k) \in Seq(Byte)
                 /\ q \in IF Relay THEN held ELSE {p}
                 /\ SendFails \/ \E n \in 0 .. k : Sends(q, Message(p, k), n)
                 /\ UNCHANGED <<got, sent, peer, fdTable>>
                 /\ crashed = "no"
           \/ \E p \in Peers : \E n \in Nat :
                 /\ HandleWriteSome(p) /\ Writes(p, n)
                 /\ UNCHANGED <<got, rcvq, sent, peer, fdTable, crashed>>
                 /\ crashed = "no"
           \/ crashed = "no" /\ UNCHANGED connVars /\ \E p \in Peers : SendByte(p) \/ Receive(p) \/ Reset(p)
  <1>0. SockTypes /\ ConnTypes
    BY DEF ConnInv
  <1>1. CASE crashed = "no" /\ LoopStep
    BY <1>1, LoopStepKeeps DEF connVars, sockVars
  <1>2. CASE HandleAccept
    BY <1>2 DEF HandleAccept
  <1>3. ASSUME NEW p \in Peers, HandleReadData(p)
        PROVE  \E q \in Peers : \E k \in Nat :
                 /\ Callback(p, "in") /\ Reads(p, k) /\ Len(Message(p, k)) = k /\ Message(p, k) \in Seq(Byte)
                 /\ q \in IF Relay THEN held ELSE {p}
                 /\ SendFails \/ \E n \in 0 .. k : Sends(q, Message(p, k), n)
                 /\ UNCHANGED <<got, sent, peer, fdTable>>
    <2>1. Callback(p, "in") /\ UNCHANGED <<got, sent, peer, fdTable>>
      BY <1>3 DEF HandleReadData
    <2>2. PICK k \in Nat, q \in Peers :
             /\ Reads(p, k)
             /\ q \in IF Relay THEN held ELSE {p}
             /\ Message(p, k) \in Seq(Byte) /\ Len(Message(p, k)) = k
             /\ SendFails \/ \E n \in 0 .. k : Sends(q, Message(p, k), n)
      BY <1>0, <1>3, ReadCases
    <2> QED
      BY <2>1, <2>2
  <1>4. ASSUME NEW p \in Peers, HandleWriteSome(p)
        PROVE  \E n \in Nat : Writes(p, n) /\ UNCHANGED <<got, rcvq, sent, peer, fdTable, crashed>>
    <2>1. UNCHANGED <<got, rcvq, sent, peer, fdTable, crashed>>
      BY <1>4 DEF HandleWriteSome
    <2> QED
      BY <1>0, <1>4, <2>1, WriteCases
  <1>5. ASSUME NEW p \in Peers, HandleReadEof(p) \/ HandleReadError(p) \/ HandleWriteNone(p)
        PROVE  UNCHANGED <<got, sndq, outputBuf, rcvq, sent>>
    BY <1>5 DEF HandleReadEof, HandleReadError, HandleWriteNone, connVars
  <1>6. ASSUME NEW p \in Peers, ConnectEstablished(p)
        PROVE  UNCHANGED <<got, sndq, outputBuf, rcvq, sent>>
    BY <1>6, EstablishEffect DEF sockVars
  <1>7. CASE EnvNext
    <2>1. crashed = "no" /\ UNCHANGED connVars
      BY <1>7 DEF EnvNext
    <2>2. PICK p \in Peers : Connect(p) \/ SendByte(p) \/ Receive(p) \/ Finish(p) \/ Reset(p)
      BY <1>7 DEF EnvNext, PeerNext
    <2>3. Connect(p) \/ Finish(p) => UNCHANGED <<got, sndq, outputBuf, rcvq, sent>>
      BY <2>1 DEF Connect, Finish, connVars
    <2> QED
      BY <2>1, <2>2, <2>3
  <1>8. CASE UNCHANGED vars
    BY <1>8 DEF vars, connVars, sockVars
  <1> QED
    BY <1>1, <1>2, <1>3, <1>4, <1>5, <1>6, <1>7, <1>8, NextCases DEF ChannelStep

LEMMA PeerKeepsOnce ==
    ASSUME SockTypes, ConnTypes, OnceInv, UNCHANGED outputBuf,
           NEW p \in Peers, SendByte(p) \/ Receive(p) \/ Reset(p)
    PROVE  OnceInv'
  <1>1. /\ got \in [Peers -> Seq(Byte)] /\ sndq \in [Peers -> Seq(Byte)]
        /\ outputBuf \in [Peers -> Seq(Byte)] /\ rcvq \in [Peers -> Seq(Byte)]
        /\ sent \in [Peers -> Nat]
    BY DEF SockTypes, ConnTypes
  <1>2. Once(Layout(got, sndq, outputBuf, rcvq), SentBytes)
    BY StoredIs DEF OnceInv
  <1>3. ASSUME Once(Layout(got', sndq', outputBuf', rcvq'), SentBytes') PROVE OnceInv'
    BY <1>3, StoredIs DEF OnceInv
  <1>4. UNCHANGED sent => SentBytes' = SentBytes
    BY DEF SentBytes
  <1>5. CASE SendByte(p)
    <2> DEFINE e == [from |-> p, n |-> sent[p] + 1]
               f == Layout(got, sndq, outputBuf, rcvq)
               x == <<"rcvq", p>>
    <2>1. /\ sent' = [sent EXCEPT ![p] = sent[p] + 1]
          /\ rcvq' = [rcvq EXCEPT ![p] = Append(rcvq[p], e)]
          /\ UNCHANGED <<got, sndq>>
      BY <1>5 DEF SendByte
    <2>2. e \in Byte /\ e \notin SentBytes
      <3>1. sent[p] \in Nat
        BY <1>1
      <3>2. sent[p] + 1 \in Nat /\ sent[p] + 1 \notin 1 .. sent[p]
        BY <3>1
      <3> QED
        BY <3>2 DEF SentBytes, Byte
    <2>3. SentBytes' = SentBytes \cup {e}
      <3>1. ASSUME NEW d \in Byte
            PROVE  d.n \in 1 .. sent'[d.from] <=> (d.n \in 1 .. sent[d.from] \/ d = e)
        <4>1. d = [from |-> d.from, n |-> d.n] /\ d.from \in Peers /\ d.n \in Nat
          BY DEF Byte
        <4>2. CASE d.from = p
          <5>1. sent'[d.from] = sent[p] + 1 /\ sent[p] \in Nat
            BY <1>1, <2>1, <4>2
          <5>2. d.n \in 1 .. sent[p] + 1 <=> (d.n \in 1 .. sent[p] \/ d.n = sent[p] + 1)
            BY <4>1, <5>1
          <5>3. d = e <=> d.n = sent[p] + 1
            BY <4>1, <4>2
          <5> QED
            BY <4>2, <5>1, <5>2, <5>3
        <4>3. CASE d.from # p
          <5>1. sent'[d.from] = sent[d.from]
            BY <1>1, <2>1, <4>1, <4>3
          <5> QED
            BY <4>3, <5>1
        <4> QED
          BY <4>2, <4>3
      <3> QED
        BY <2>2, <3>1 DEF SentBytes
    <2>4. f \in [Places -> Seq(Byte)] /\ x \in Places /\ Once(f, SentBytes)
      BY <1>1, <1>2, LayoutType DEF Places
    <2> HIDE DEF e
    <2>5. Updates(got, sndq, outputBuf, rcvq, p, Append(rcvq[p], e))
          /\ LaysOut(f, got, sndq, outputBuf, rcvq, p)
      BY <1>1, LayoutUpdates, LayoutValues, Zenon
    <2>6. Layout(got', sndq', outputBuf', rcvq') = [f EXCEPT ![x] = Append(f[x], e)]
      BY <2>1, <2>5 DEF Updates, LaysOut
    <2> HIDE DEF f, x
    <2>7. Once(Layout(got', sndq', outputBuf', rcvq'), SentBytes \cup {e})
      <3>1. Once([f EXCEPT ![x] = Append(f[x], e)], SentBytes \cup {e})
        BY <2>2, <2>4, FreshKeepsOnce
      <3> QED
        BY <2>6, <3>1
    <2> QED
      BY <1>3, <2>3, <2>7
  <1>6. CASE Receive(p)
    <2>1. /\ sndq[p] # <<>> /\ UNCHANGED <<sent, rcvq>>
          /\ got' = [got EXCEPT ![p] = Append(got[p], Head(sndq[p]))]
          /\ sndq' = [sndq EXCEPT ![p] = Tail(sndq[p])]
      BY <1>6 DEF Receive
    <2>2. sndq[p] \in Seq(Byte) /\ got[p] \in Seq(Byte) /\ Len(sndq[p]) \in Nat \ {0}
      BY <1>1, <2>1, EmptySeq, LenProperties
    <2>3. 1 \in 0 .. Len(sndq[p])
      BY <2>2
    <2>4. Tail(sndq[p]) = SubSeq(sndq[p], 1 + 1, Len(sndq[p]))
      BY <2>1, <2>2, TailIsSubSeq
    <2>5. Append(got[p], Head(sndq[p])) = got[p] \o SubSeq(sndq[p], 1, 1)
      <3>1. Head(sndq[p]) = sndq[p][1] /\ Head(sndq[p]) \in Byte
        BY <2>1, <2>2, HeadTailProperties
      <3>2. /\ SubSeq(sndq[p], 1, 1) \in Seq(Byte) /\ Len(SubSeq(sndq[p], 1, 1)) = 1
            /\ SubSeq(sndq[p], 1, 1)[1] = sndq[p][1]
        BY <2>2, <2>3, Parts
      <3>3. SubSeq(sndq[p], 1, 1) = <<Head(sndq[p])>>
        <4>1. /\ <<Head(sndq[p])>> \in Seq(Byte) /\ Len(<<Head(sndq[p])>>) = 1
              /\ <<Head(sndq[p])>>[1] = Head(sndq[p])
          BY <3>1
        <4>2. \A i \in 1 .. 1 : SubSeq(sndq[p], 1, 1)[i] = <<Head(sndq[p])>>[i]
          BY <3>1, <3>2, <4>1
        <4> QED
          BY <3>2, <4>1, <4>2, SeqEqual
      <3> QED
        BY <2>2, <3>1, <3>3, AppendIsConcat
    <2>6. got' = AddedTo(got, p, FirstOf(sndq, p, 1)) /\ sndq' = TakenFrom(sndq, p, 1)
      BY <2>1, <2>4, <2>5 DEF AddedTo, FirstOf, TakenFrom
    <2>7. Once(Layout(got', sndq', outputBuf, rcvq), SentBytes)
      BY <1>1, <1>2, <2>3, <2>6, LayoutMoves
    <2> QED
      BY <1>3, <1>4, <2>1, <2>7
  <1>7. CASE Reset(p)
    <2>1. sndq' = [sndq EXCEPT ![p] = <<>>] /\ UNCHANGED <<sent, rcvq, got>>
      BY <1>7 DEF Reset
    <2>2. sndq[p] \in Seq(Byte) /\ Len(sndq[p]) \in 0 .. Len(sndq[p])
      BY <1>1, LenProperties
    <2>3. SubSeq(sndq[p], Len(sndq[p]) + 1, Len(sndq[p])) = <<>>
      <3>1. /\ SubSeq(sndq[p], Len(sndq[p]) + 1, Len(sndq[p])) \in Seq(Byte)
            /\ Len(SubSeq(sndq[p], Len(sndq[p]) + 1, Len(sndq[p]))) = Len(sndq[p]) - Len(sndq[p])
        BY <2>2, Parts
      <3> QED
        BY <2>2, <3>1, EmptySeq
    <2>4. sndq' = TakenFrom(sndq, p, Len(sndq[p]))
      BY <2>1, <2>3 DEF TakenFrom
    <2>5. Once(Layout(got, sndq', outputBuf, rcvq), SentBytes)
      BY <1>1, <1>2, <2>2, <2>4, LayoutMoves
    <2> QED
      BY <1>3, <1>4, <2>1, <2>5
  <1> QED
    BY <1>5, <1>6, <1>7

LEMMA NextOnce == ConnInv /\ OnceInv /\ [Next]_vars => OnceInv'
  <1> SUFFICES ASSUME ConnInv, OnceInv, [Next]_vars PROVE OnceInv'
    OBVIOUS
  <1>0. SockTypes /\ ConnTypes
    BY DEF ConnInv
  <1>1. CASE UNCHANGED <<got, sndq, outputBuf, rcvq, sent>>
    BY <1>1, StoredIs DEF OnceInv, SentBytes
  <1>2. ASSUME NEW p \in Peers, NEW q \in Peers, NEW k \in Nat, Reads(p, k),
               SendFails \/ \E n \in 0 .. k : Sends(q, Message(p, k), n), UNCHANGED <<got, sent>>
        PROVE  OnceInv'
    <2>1. CASE SendFails
      <3> DEFINE a == Owner(fdOf[p])
      <3>1. a \in Peers /\ k \in 1 .. Len(rcvq[a]) /\ rcvq' = TakenFrom(rcvq, a, k)
        BY <1>2 DEF Reads, TakenFrom
      <3>2. /\ got \in [Peers -> Seq(Byte)] /\ sndq \in [Peers -> Seq(Byte)]
            /\ outputBuf \in [Peers -> Seq(Byte)] /\ rcvq \in [Peers -> Seq(Byte)]
        BY <1>0 DEF SockTypes, ConnTypes
      <3>3. UNCHANGED <<got, sndq, outputBuf, sent>>
        BY <1>2, <2>1 DEF SendFails
      <3> HIDE DEF a
      <3>4. k \in 0 .. Len(rcvq[a])
        BY <3>1
      <3>5. Once(Layout(got, sndq, outputBuf, TakenFrom(rcvq, a, k)), SentBytes)
        BY <3>1, <3>2, <3>4, LayoutMoves, StoredIs DEF OnceInv
      <3> QED
        BY <3>1, <3>3, <3>5, StoredIs DEF OnceInv, SentBytes
    <2>2. ASSUME NEW n \in 0 .. k, Sends(q, Message(p, k), n) PROVE OnceInv'
      BY <1>0, <1>2, <2>2, SendKeepsOnce
    <2> QED
      BY <1>2, <2>1, <2>2
  <1>3. ASSUME NEW p \in Peers, NEW n \in Nat, Writes(p, n), UNCHANGED <<got, rcvq, sent>>
        PROVE  OnceInv'
    <2> DEFINE b == Owner(fdOf[p])
    <2>1. /\ n \in 1 .. Len(outputBuf[p]) /\ b \in Peers
          /\ sndq' = AddedTo(sndq, b, FirstOf(outputBuf, p, n))
          /\ outputBuf' = TakenFrom(outputBuf, p, n)
      BY <1>3 DEF Writes, Transmit, TakeOutput, AddedTo, TakenFrom, FirstOf
    <2>2. /\ got \in [Peers -> Seq(Byte)] /\ sndq \in [Peers -> Seq(Byte)]
          /\ outputBuf \in [Peers -> Seq(Byte)] /\ rcvq \in [Peers -> Seq(Byte)]
      BY <1>0 DEF SockTypes, ConnTypes
    <2> HIDE DEF b
    <2>3. n \in 0 .. Len(outputBuf[p])
      BY <2>1
    <2>4. Once(Layout(got, AddedTo(sndq, b, FirstOf(outputBuf, p, n)), TakenFrom(outputBuf, p, n), rcvq),
               SentBytes)
      BY <2>1, <2>2, <2>3, LayoutMoves, StoredIs DEF OnceInv
    <2> QED
      BY <1>3, <2>1, <2>4, StoredIs DEF OnceInv, SentBytes
  <1>4. ASSUME UNCHANGED connVars, NEW p \in Peers, SendByte(p) \/ Receive(p) \/ Reset(p)
        PROVE  OnceInv'
    BY <1>0, <1>4, PeerKeepsOnce DEF connVars
  <1> QED
    BY <1>1, <1>2, <1>3, <1>4, ByteSteps

\* Whoever the bytes are sent to, no byte is in two places: none is sent twice
\* after a partial write and none stays in a buffer that it has left
\* (TcpConnection.cc:56-95).
THEOREM NoByteTwiceHolds == Spec => []NoByteTwice
  <1>1. Init => OnceInv
    <2> SUFFICES ASSUME Init PROVE OnceInv
      OBVIOUS
    <2>1. \A p \in Peers : got[p] = <<>> /\ sndq[p] = <<>> /\ outputBuf[p] = <<>> /\ rcvq[p] = <<>>
      BY DEF Init, SocketsInit
    <2>2. \A x \in Places : Len(Stored[x]) = 0
      BY <2>1 DEF Stored, Places
    <2>3. DOMAIN Stored = Places
      BY DEF Stored
    <2> QED
      BY <2>2, <2>3 DEF OnceInv, Once, OncePlaced
  <1>2. OnceInv => NoByteTwice
    BY DEF OnceInv, Once, NoByteTwice
  <1> QED
    BY <1>1, <1>2, ConnInvHolds, NextOnce, PTL DEF Spec

------------------------------------------------------------------------------
(* The echo server.  It only ever sends to the connection whose channel is   *)
(* being handled, so a channel is known to epoll exactly from                *)
(* connectEstablished() to close().                                          *)

Waiting(p) == Established(p) \in Elements(Queue)

EstablishedOnce(s) ==
    \A i, j \in 1 .. Len(s) : s[i] = s[j] /\ s[i].op = "connectEstablished" => i = j

RegisteredInv == \A r \in registered : r.ch \in Peers =>
    r.ev = {"in"} /\ fdTable[r.fd] = r.ch /\ ~Waiting(r.ch)

BatchInv == \A a \in active : a.ch \in Peers =>
    a.ev = {"in"} /\ ~a.started /\ \E r \in registered : r.ch = a.ch

OpenInv == \A f \in SockFds, p \in Peers : fdTable[f] = p =>
    Waiting(p) \/ \E r \in registered : r.ch = p

WaitingInv == \A p \in Peers : Waiting(p) => fdTable[fdOf[p]] = p

IdleInv == \A p \in Peers : fdOf[p] = 0 \/ Waiting(p) => events[p] = {}

EchoInv ==
    /\ EstablishedOnce(Queue)
    /\ RegisteredInv /\ BatchInv /\ OpenInv /\ WaitingInv /\ IdleInv

LEMMA EstablishedAppend ==
    ASSUME NEW s \in Seq(Functors), NEW f \in Functors, EstablishedOnce(s),
           f.op = "connectEstablished" => f \notin Elements(s)
    PROVE  EstablishedOnce(Append(s, f))
  <1> DEFINE t == Append(s, f)
  <1>1. /\ Len(s) \in Nat /\ Len(t) = Len(s) + 1 /\ t[Len(s) + 1] = f
        /\ \A i \in 1 .. Len(s) : t[i] = s[i]
    BY AppendProperties, LenProperties
  <1> HIDE DEF t
  <1>2. \A i \in 1 .. Len(t) : i \in 1 .. Len(s) \/ i = Len(s) + 1
    BY <1>1
  <1> SUFFICES ASSUME NEW i \in 1 .. Len(t), NEW j \in 1 .. Len(t),
                      t[i] = t[j], t[i].op = "connectEstablished"
               PROVE  i = j
    BY DEF EstablishedOnce, t
  <1>3. CASE i \in 1 .. Len(s) /\ j \in 1 .. Len(s)
    BY <1>1, <1>3 DEF EstablishedOnce
  <1>4. CASE i \in 1 .. Len(s) /\ j = Len(s) + 1
    BY <1>1, <1>4 DEF Elements
  <1>5. CASE i = Len(s) + 1 /\ j \in 1 .. Len(s)
    BY <1>1, <1>5 DEF Elements
  <1> QED
    BY <1>2, <1>3, <1>4, <1>5

LEMMA EstablishedTail ==
    ASSUME NEW s \in Seq(Functors), s # <<>>, EstablishedOnce(s)
    PROVE  /\ EstablishedOnce(Tail(s))
           /\ \A p : Established(p) \in Elements(s) <=>
                 (Established(p) = Head(s) \/ Established(p) \in Elements(Tail(s)))
           /\ \A p : Established(p) = Head(s) => Established(p) \notin Elements(Tail(s))
  <1>1. Elements(s) = {Head(s)} \cup Elements(Tail(s))
    BY TailElements
  <1> DEFINE t == Tail(s)
  <1>2. /\ Len(s) \in Nat \ {0} /\ Len(t) = Len(s) - 1 /\ Head(s) = s[1]
        /\ \A i \in 1 .. Len(t) : t[i] = s[i + 1]
    BY HeadTailProperties, EmptySeq, LenProperties
  <1> HIDE DEF t
  <1>3. 1 \in 1 .. Len(s) /\ \A i \in 1 .. Len(t) : i \in Int /\ i + 1 \in 1 .. Len(s) /\ i + 1 # 1
    BY <1>2
  <1>4. EstablishedOnce(t)
    <2> SUFFICES ASSUME NEW i \in 1 .. Len(t), NEW j \in 1 .. Len(t),
                        t[i] = t[j], t[i].op = "connectEstablished"
                 PROVE  i = j
      BY DEF EstablishedOnce
    <2>1. i + 1 = j + 1
      BY <1>2, <1>3 DEF EstablishedOnce
    <2> QED
      BY <1>3, <2>1
  <1>5. ASSUME NEW p, Established(p) = Head(s), Established(p) \in Elements(t) PROVE FALSE
    <2>1. PICK i \in 1 .. Len(t) : t[i] = Established(p)
      BY <1>5 DEF Elements
    <2>2. s[1] = s[i + 1] /\ s[1].op = "connectEstablished"
      BY <1>2, <1>3, <1>5, <2>1 DEF Established
    <2>3. 1 = i + 1
      BY <1>3, <2>2 DEF EstablishedOnce
    <2> QED
      BY <1>3, <2>3
  <1> QED
    BY <1>1, <1>4, <1>5 DEF t

\* What does not touch the queue, or appends a write-complete functor, leaves
\* who is waiting.
LEMMA WaitingKept ==
    ASSUME ConnInv, EstablishedOnce(Queue), Queues, UNCHANGED functors
    PROVE  /\ EstablishedOnce(Queue')
           /\ \A p : Waiting(p)' <=> Waiting(p)
  <1>1. LoopInv /\ Queue \in Seq(Functors)
    BY QueueSteps DEF ConnInv
  <1>2. CASE Loop!QueueNothing
    <2>1. Queue' = Queue
      BY <1>1, <1>2, QueueSteps
    <2> QED
      BY <2>1 DEF Waiting
  <1>3. ASSUME NEW q \in Accepted, Loop!QueueInLoop(Completed(q))
        PROVE  /\ EstablishedOnce(Queue')
               /\ \A p : Waiting(p)' <=> Waiting(p)
    <2>1. Completed(q) \in Functors /\ Completed(q).op = "writeComplete"
      BY FunctorNames DEF Accepted
    <2>2. Queue' = Append(Queue, Completed(q))
      BY <1>1, <1>3, <2>1, QueueSteps
    <2>3. Elements(Queue') = Elements(Queue) \cup {Completed(q)}
      BY <1>1, <2>1, <2>2, AppendElements
    <2>4. \A p : Established(p) # Completed(q)
      BY FunctorNames, <2>1
    <2>5. EstablishedOnce(Queue')
      BY <1>1, <2>1, <2>2, EstablishedAppend
    <2> QED
      BY <2>3, <2>4, <2>5 DEF Waiting
  <1> QED
    BY <1>2, <1>3 DEF Queues

\* While a connection's channel is handled, its descriptor is its own.
LEMMA HandledIsOpen ==
    ASSUME ConnInv, EchoInv, NEW p \in Peers, NEW k, Callback(p, k)
    PROVE  /\ k = "in"
           /\ fdOf[p] \in SockFds /\ fdTable[fdOf[p]] = p /\ ~Waiting(p)
           /\ \E r \in registered : r.ch = p /\ r.fd = fdOf[p]
           /\ \A b \in active' : b \in active /\ b.ch # p
  <1>0. LoopInv
    BY DEF ConnInv
  <1>1. PICK a \in active : /\ a.ch = p /\ k \in a.ev
                            /\ a.ev = {k} => active' = active \ {a}
    BY <1>0, CallbackIs
  <1>2. a.ev = {"in"} /\ ~a.started /\ \E r \in registered : r.ch = p
    BY <1>1 DEF EchoInv, BatchInv
  <1>3. k = "in" /\ active' = active \ {a}
    BY <1>1, <1>2
  <1>4. PICK r \in registered : r.ch = p
    BY <1>2
  <1>5. fdTable[r.fd] = p /\ ~Waiting(p)
    BY <1>4 DEF EchoInv, RegisteredInv
  <1>6. p \in Callable /\ r.fd = fdOf[p]
    <2>1. r \notin {WakeupRegistration, AcceptorRegistration}
      BY <1>4, ChannelNames DEF WakeupRegistration, AcceptorRegistration
    <2> QED
      BY <1>4, <2>1 DEF ConnInv, CallInv
  <1>7. fdOf[p] \in SockFds
    BY <1>6 DEF Callable, Accepted
  <1>8. active \subseteq [ch : Channels, ev : SUBSET Loop!Events, started : BOOLEAN]
    BY <1>0, LoopInvTypes DEF Loop!TypeOK, Loop!Activation
  <1>9. ASSUME NEW b \in active, b.ch = p PROVE b = a
    <2>1. b.ev = {"in"} /\ ~b.started
      BY <1>9 DEF EchoInv, BatchInv
    <2>2. /\ b \in [ch : Channels, ev : SUBSET Loop!Events, started : BOOLEAN]
          /\ a \in [ch : Channels, ev : SUBSET Loop!Events, started : BOOLEAN]
      BY <1>8
    <2> QED
      BY <1>1, <1>2, <1>9, <2>1, <2>2
  <1> QED
    BY <1>3, <1>4, <1>5, <1>6, <1>7, <1>9

\* A read that is not the end of the stream leaves epoll as it is, because the
\* descriptor is on the interest list already; a write never happens.
LEMMA EchoStep ==
    ASSUME ~Relay, ConnInv, EchoInv, NEW p \in Peers, ChannelStep(p)
    PROVE  /\ \E k : Callback(p, k)
           /\ \A q \in Peers : q # p => events'[q] = events[q]
           /\ ~HandleWriteSome(p) /\ ~HandleWriteNone(p)
           /\ \/ UNCHANGED <<registered, fdTable>>
              \/ HandleReadEof(p) /\ Close(p)
  <1>0. SockTypes /\ ConnTypes
    BY DEF ConnInv
  <1>1. PICK k \in Loop!Events : Callback(p, k)
    BY HandlersEffect DEF ChannelStep, HandlerEffect
  <1>2. /\ k = "in"
        /\ \E r \in registered : r.ch = p /\ r.fd = fdOf[p]
    BY <1>1, HandledIsOpen
  <1>3. ~Callback(p, "out")
    <2>1. "out" # "in"
      OBVIOUS
    <2> QED
      BY <2>1, HandledIsOpen
  <1>4. ~HandleWriteSome(p) /\ ~HandleWriteNone(p)
    BY <1>3 DEF HandleWriteSome, HandleWriteNone
  <1>5. CASE HandleReadEof(p)
    <2>1. Close(p) /\ UNCHANGED events
      BY <1>5 DEF HandleReadEof, connVars
    <2> QED
      BY <1>1, <1>4, <1>5, <2>1
  <1>6. CASE HandleReadError(p)
    <2>1. UNCHANGED <<registered, fdTable, events>>
      BY <1>6 DEF HandleReadError, connVars
    <2> QED
      BY <1>1, <1>4, <2>1
  <1>7. CASE HandleReadData(p)
    <2>1. UNCHANGED fdTable
      BY <1>7 DEF HandleReadData
    <2>2. PICK j \in Nat, q \in Peers :
             /\ q \in IF Relay THEN held ELSE {p}
             /\ SendFails \/ \E n \in 0 .. j : Sends(q, Message(p, j), n)
      BY <1>0, <1>7, ReadCases
    <2>3. q = p
      BY <2>2
    <2>4. CASE SendFails
      <3>1. UNCHANGED <<events, registered>>
        BY <2>4 DEF SendFails
      <3> QED
        BY <1>1, <1>4, <2>1, <3>1
    <2>5. ASSUME NEW n, Sends(p, Message(p, j), n)
          PROVE  UNCHANGED registered /\ \A o \in Peers : o # p => events'[o] = events[o]
      <3>1. CASE UNCHANGED <<events, registered>>
        BY <3>1
      <3>2. CASE Enable(p, "out")
        BY <1>0, <1>2, <3>2 DEF Enable, Loop!EpollUpdate, ConnTypes
      <3> QED
        BY <2>5, <3>1, <3>2 DEF Sends
    <2> QED
      BY <1>1, <1>4, <2>1, <2>2, <2>3, <2>4, <2>5
  <1> QED
    BY <1>4, <1>5, <1>6, <1>7 DEF ChannelStep

LEMMA HandlerKeepsEcho ==
    ASSUME ~Relay, ConnInv, EchoInv, NEW p \in Peers, ChannelStep(p)
    PROVE  EchoInv'
  <1>0. SockTypes /\ ConnTypes /\ LoopInv
    BY DEF ConnInv
  <1>1. /\ \E k : Callback(p, k)
        /\ \A q \in Peers : q # p => events'[q] = events[q]
        /\ UNCHANGED <<registered, fdTable>> \/ Close(p)
    BY EchoStep
  <1>2. /\ fdOf[p] \in SockFds /\ fdTable[fdOf[p]] = p /\ ~Waiting(p)
        /\ \A b \in active' : b \in active /\ b.ch # p
    BY <1>1, HandledIsOpen
  <1>3. Queues /\ UNCHANGED <<functors, fdOf>>
    BY <1>1, HandlersEffect DEF ChannelStep, HandlerEffect, Callback
  <1>4. EstablishedOnce(Queue') /\ \A q : Waiting(q)' <=> Waiting(q)
    BY <1>3, WaitingKept DEF EchoInv
  <1>5. \A r \in registered : r.ch \in Peers => r.fd = fdOf[r.ch] /\ r.fd \in SockFds
    BY ChannelNames DEF ConnInv, CallInv, Callable, Accepted, WakeupRegistration, AcceptorRegistration
  <1>6. IdleInv'
    <2>1. fdOf[p] # 0
      BY <1>2, DescriptorNames
    <2> QED
      BY <1>1, <1>2, <1>3, <1>4, <2>1 DEF EchoInv, IdleInv
  <1>7. CASE UNCHANGED <<registered, fdTable>>
    <2>1. RegisteredInv'
      BY <1>4, <1>7 DEF EchoInv, RegisteredInv
    <2>2. BatchInv'
      BY <1>2, <1>7 DEF EchoInv, BatchInv
    <2>3. OpenInv' /\ WaitingInv'
      BY <1>3, <1>4, <1>7 DEF EchoInv, OpenInv, WaitingInv
    <2> QED
      BY <1>4, <1>6, <2>1, <2>2, <2>3 DEF EchoInv
  <1>8. CASE Close(p)
    <2>1. /\ registered' = {r \in registered : r.fd # fdOf[p]}
          /\ \A f \in SockFds : fdTable'[f] = IF f = fdOf[p] THEN NoPeer ELSE fdTable[f]
      BY <1>0, <1>8 DEF Close, Loop!EpollForget, SockTypes
    <2>2. RegisteredInv'
      BY <1>4, <1>5, <2>1 DEF EchoInv, RegisteredInv
    <2>3. \A r \in registered : r.ch \in Peers /\ r.ch # p => r \in registered'
      BY <1>2, <1>5, <2>1 DEF EchoInv, RegisteredInv
    <2>4. BatchInv'
      BY <1>2, <2>3 DEF EchoInv, BatchInv
    <2>5. OpenInv'
      <3> SUFFICES ASSUME NEW f \in SockFds, NEW q \in Peers, fdTable'[f] = q
                   PROVE  Waiting(q)' \/ \E r \in registered' : r.ch = q
        BY DEF OpenInv
      <3>1. f # fdOf[p] /\ fdTable[f] = q
        BY <1>0, <2>1, NoPeerAssumption
      <3>2. q # p
        BY <1>2, <3>1, NoPeerAssumption DEF ConnInv, TableInv
      <3> QED
        BY <1>4, <2>3, <3>1, <3>2 DEF EchoInv, OpenInv
    <2>6. WaitingInv'
      <3> SUFFICES ASSUME NEW q \in Peers, Waiting(q)' PROVE fdTable'[fdOf'[q]] = q
        BY DEF WaitingInv
      <3>1. Waiting(q) /\ q # p /\ fdTable[fdOf[q]] = q
        BY <1>2, <1>4 DEF EchoInv, WaitingInv
      <3>2. q \in Accepted
        BY <3>1, FunctorNames DEF ConnInv, CallInv, Waiting
      <3> QED
        BY <1>2, <1>3, <2>1, <3>1, <3>2 DEF Accepted
    <2> QED
      BY <1>4, <1>6, <2>2, <2>4, <2>5, <2>6 DEF EchoInv
  <1> QED
    BY <1>1, <1>7, <1>8

LEMMA AcceptKeepsEcho ==
    ASSUME ConnInv, EchoInv, HandleAccept
    PROVE  EchoInv'
  <1>0. SockTypes /\ ConnTypes /\ LoopInv /\ Queue \in Seq(Functors)
    BY QueueSteps DEF ConnInv
  <1>1. PICK p \in Peers, fd \in SockFds : Accepts(p, fd) /\ fdOf[p] = 0
    BY AcceptCases
  <1>2. p \notin Accepted
    BY <1>1, DescriptorNames DEF Accepted
  <1>3. /\ \A f \in SockFds : fdTable'[f] = IF f = fd THEN p ELSE fdTable[f]
        /\ \A q \in Peers : fdOf'[q] = IF q = p THEN fd ELSE fdOf[q]
        /\ fdTable[fd] = NoPeer
        /\ UNCHANGED <<registered, events, functors>>
        /\ Loop!QueueInLoop(Established(p))
        /\ Callback(AcceptorChannel, "in")
    BY <1>0, <1>1 DEF Accepts, SockTypes, ConnTypes, Callback
  <1>4. Established(p) \in Functors /\ Established(p).conn = p
    BY FunctorNames
  <1>5. Established(p) \notin Elements(Queue)
    BY <1>2, <1>4 DEF ConnInv, CallInv
  <1>6. Queue' = Append(Queue, Established(p))
    BY <1>0, <1>3, <1>4, QueueSteps
  <1>7. Elements(Queue') = Elements(Queue) \cup {Established(p)}
    BY <1>0, <1>4, <1>6, AppendElements
  <1>8. EstablishedOnce(Queue')
    BY <1>0, <1>4, <1>5, <1>6, EstablishedAppend DEF EchoInv
  <1>9. \A q \in Peers : Waiting(q)' <=> (q = p \/ Waiting(q))
    BY <1>7, FunctorNames DEF Waiting
  <1>10. \A r \in registered : r.ch \in Peers => r.ch \in Accepted /\ r.fd = fdOf[r.ch] /\ r.fd \in SockFds
    BY ChannelNames DEF ConnInv, CallInv, Callable, Accepted, WakeupRegistration, AcceptorRegistration
  <1>11. RegisteredInv'
    BY <1>2, <1>3, <1>9, <1>10, NoPeerAssumption DEF EchoInv, RegisteredInv
  <1>12. BatchInv'
    <2>1. \A b \in active' : b \in active \/ b.ch = AcceptorChannel
      BY <1>0, <1>3, CallbackIs
    <2> QED
      BY <1>3, <2>1, ChannelNames DEF EchoInv, BatchInv
  <1>13. OpenInv'
    BY <1>3, <1>9 DEF EchoInv, OpenInv
  <1>14. WaitingInv'
    <2> SUFFICES ASSUME NEW q \in Peers, Waiting(q)' PROVE fdTable'[fdOf'[q]] = q
      BY DEF WaitingInv
    <2>1. CASE q = p
      BY <1>3, <2>1
    <2>2. CASE q # p
      <3>1. Waiting(q) /\ fdTable[fdOf[q]] = q
        BY <1>9, <2>2 DEF EchoInv, WaitingInv
      <3>2. fdOf[q] \in SockFds
        BY <3>1, FunctorNames DEF ConnInv, CallInv, Waiting, Accepted
      <3> QED
        BY <1>3, <2>2, <3>1, <3>2, NoPeerAssumption
    <2> QED
      BY <2>1, <2>2
  <1>15. IdleInv'
    BY <1>1, <1>3, <1>9, DescriptorNames DEF EchoInv, IdleInv
  <1> QED
    BY <1>8, <1>11, <1>12, <1>13, <1>14, <1>15 DEF EchoInv

\* A functor leaves the queue: connectEstablished registers its connection.
LEMMA EstablishKeepsEcho ==
    ASSUME ConnInv, EchoInv, NEW p \in Peers, ConnectEstablished(p)
    PROVE  EchoInv'
  <1>0. SockTypes /\ ConnTypes /\ LoopInv /\ Queue \in Seq(Functors)
    BY QueueSteps DEF ConnInv
  <1>1. /\ Loop!RunFunctor(Established(p)) /\ UNCHANGED pendingFunctors
        /\ events' = [events EXCEPT ![p] = @ \cup {"in"}]
        /\ Loop!EpollUpdate(fdOf[p], p, events[p] \cup {"in"})
        /\ UNCHANGED <<fdTable, fdOf, active>>
    BY DEF ConnectEstablished, Enable, Established, sockVars
  <1>2. Queue # <<>> /\ Established(p) = Head(Queue) /\ Queue' = Tail(Queue)
    BY <1>0, <1>1, QueueSteps
  <1>3. /\ EstablishedOnce(Queue')
        /\ \A q \in Peers : Waiting(q) <=> (q = p \/ Waiting(q)')
        /\ ~Waiting(p)'
    <2>1. \A q : Established(q) = Established(p) => q = p
      BY FunctorNames
    <2>2. EstablishedOnce(Queue)
      BY DEF EchoInv
    <2> QED
      BY <1>0, <1>2, <2>1, <2>2, EstablishedTail DEF Waiting
  <1>4. p \in Accepted /\ fdTable[fdOf[p]] = p /\ events[p] = {}
    BY <1>1, <1>3, FunctorAccepted, FunctorNames DEF EchoInv, WaitingInv, IdleInv
  <1>5. fdOf[p] \in SockFds
    BY <1>4 DEF Accepted
  <1>6. \A r \in registered : r.fd # fdOf[p]
    <2> SUFFICES ASSUME NEW r \in registered, r.fd = fdOf[p] PROVE FALSE
      OBVIOUS
    <2>1. r \notin {WakeupRegistration, AcceptorRegistration}
      BY <1>5, DescriptorNames DEF WakeupRegistration, AcceptorRegistration
    <2>2. r.ch \in Peers
      BY <2>1 DEF ConnInv, CallInv, Callable, Accepted
    <2>3. r.ch = p /\ ~Waiting(r.ch)
      BY <1>4, <2>2 DEF EchoInv, RegisteredInv
    <2> QED
      BY <1>3, <2>3
  <1>7. registered' = registered \cup {[fd |-> fdOf[p], ch |-> p, ev |-> {"in"}]}
    BY <1>1, <1>4, <1>6 DEF Loop!EpollUpdate
  <1>8. RegisteredInv'
    <2>1. \A r \in registered : r.ch \in Peers => ~Waiting(r.ch)'
      BY <1>3 DEF EchoInv, RegisteredInv
    <2> QED
      BY <1>1, <1>3, <1>4, <1>7, <2>1 DEF EchoInv, RegisteredInv
  <1>9. BatchInv' /\ WaitingInv'
    BY <1>1, <1>3, <1>7 DEF EchoInv, BatchInv, WaitingInv
  <1>10. OpenInv'
    <2>1. \A r \in registered : r \in registered'
      BY <1>7
    <2>2. \E r \in registered' : r.ch = p
      <3> DEFINE r == [fd |-> fdOf[p], ch |-> p, ev |-> {"in"}]
      <3>1. r \in registered' /\ r.ch = p
        BY <1>7
      <3> HIDE DEF r
      <3> QED
        BY <3>1
    <2> QED
      BY <1>1, <1>3, <2>1, <2>2 DEF EchoInv, OpenInv
  <1>11. IdleInv'
    <2>1. fdOf[p] # 0
      BY <1>5, DescriptorNames
    <2> QED
      BY <1>0, <1>1, <1>3, <2>1 DEF EchoInv, IdleInv, ConnTypes
  <1> QED
    BY <1>3, <1>8, <1>9, <1>10, <1>11 DEF EchoInv

\* The loop's own steps.
LEMMA LoopStepKeepsEcho ==
    ASSUME ConnInv, EchoInv, crashed = "no", LoopStep
    PROVE  EchoInv'
  <1>0. SockTypes /\ ConnTypes /\ LoopInv /\ Queue \in Seq(Functors)
    BY QueueSteps DEF ConnInv
  <1>1. UNCHANGED <<fdTable, fdOf, events>>
    BY LoopStepKeeps DEF sockVars, connVars
  <1>2. /\ EstablishedOnce(Queue')
        /\ \A q \in Peers : Waiting(q)' <=> Waiting(q)
    <2>1. CASE Queue' = Queue
      BY <2>1 DEF EchoInv, Waiting
    <2>2. ASSUME NEW p \in Peers, WriteComplete(p)
          PROVE  /\ EstablishedOnce(Queue')
                 /\ \A q \in Peers : Waiting(q)' <=> Waiting(q)
      <3>1. Loop!RunFunctor(Completed(p)) /\ UNCHANGED pendingFunctors
        BY <2>2 DEF WriteComplete, Completed
      <3>2. Queue # <<>> /\ Completed(p) = Head(Queue) /\ Queue' = Tail(Queue)
        BY <1>0, <3>1, QueueSteps
      <3>3. \A q : Established(q) # Completed(p)
        BY FunctorNames
      <3>4. EstablishedOnce(Queue)
        BY DEF EchoInv
      <3> QED
        BY <1>0, <3>2, <3>3, <3>4, EstablishedTail DEF Waiting
    <2>3. CASE DoPendingFunctors
      BY <1>0, <2>1, <2>3, QueueSteps DEF DoPendingFunctors
    <2>4. CASE Start \/ EnterLoop \/ Poll \/ HandleWakeup \/ AcceptFails \/ EndFunctors
      <3>1. UNCHANGED <<functors, pendingFunctors>>
        BY <2>4 DEF Start, EnterLoop, Poll, HandleWakeup, AcceptFails, EndFunctors, Crash,
           loopVars, Loop!EnterLoop, Loop!Poll, Loop!HandleWakeup, Loop!EndFunctors
      <3> QED
        BY <2>1, <3>1 DEF Queue
    <2> QED
      BY <2>2, <2>3, <2>4 DEF LoopStep
  <1>3. \/ UNCHANGED registered
        \/ registered' = registered \cup {AcceptorRegistration}
    BY DEF LoopStep, Start, EnterLoop, Poll, HandleWakeup, AcceptFails, EndFunctors, Crash,
       WriteComplete, DoPendingFunctors, loopVars, Loop!EnterLoop, Loop!Poll, Loop!HandleWakeup,
       Loop!EndFunctors, Loop!DoPendingFunctors, Loop!EpollUpdate, AcceptorRegistration
  <1>4. \A r \in registered' : r.ch \in Peers => r \in registered
    BY <1>3, ChannelNames DEF AcceptorRegistration
  <1>5. \A r \in registered : r \in registered'
    BY <1>3
  <1>6. RegisteredInv' /\ OpenInv' /\ WaitingInv' /\ IdleInv'
    BY <1>1, <1>2, <1>4, <1>5 DEF EchoInv, RegisteredInv, OpenInv, WaitingInv, IdleInv
  <1>7. BatchInv'
    <2>1. CASE Poll
      <3>1. PICK hits \in SUBSET registered :
               /\ \A r \in hits : r.ev \cap Readiness[r.fd] # {}
               /\ active' = {[ch |-> r.ch, ev |-> r.ev \cap Readiness[r.fd], started |-> FALSE] : r \in hits}
        BY <2>1 DEF Poll, Loop!Poll, Loop!Ready
      <3>2. ASSUME NEW a \in active', a.ch \in Peers
            PROVE  a.ev = {"in"} /\ ~a.started /\ \E r \in registered' : r.ch = a.ch
        <4>1. PICK r \in hits : a = [ch |-> r.ch, ev |-> r.ev \cap Readiness[r.fd], started |-> FALSE]
          BY <3>1
        <4>2. r.ev = {"in"}
          BY <3>2, <4>1 DEF EchoInv, RegisteredInv
        <4> QED
          BY <1>5, <3>1, <4>1, <4>2
      <3> QED
        BY <3>2 DEF BatchInv
    <2>2. CASE HandleWakeup
      <3>1. PICK a \in active : a.ch = WakeupChannel /\ Loop!Handled(a, "in")
        BY <2>2 DEF HandleWakeup, Loop!HandleWakeup
      <3>2. a \in [ch : Channels, ev : SUBSET Loop!Events, started : BOOLEAN]
        BY <1>0, LoopInvTypes DEF Loop!TypeOK, Loop!Activation
      <3>3. [a EXCEPT !.ev = a.ev \ {"in"}, !.started = TRUE].ch = WakeupChannel
        BY <3>1, <3>2
      <3>4. \A b \in active' : b \in active \/ b.ch = WakeupChannel
        BY <3>1, <3>3 DEF Loop!Handled
      <3> QED
        BY <1>5, <3>4, ChannelNames DEF EchoInv, BatchInv
    <2>3. CASE LoopStep /\ ~Poll /\ ~HandleWakeup
      <3>1. UNCHANGED active
        BY <2>3 DEF LoopStep, Start, EnterLoop, AcceptFails, EndFunctors,
           Crash, WriteComplete, DoPendingFunctors, loopVars, Loop!DoPendingFunctors,
           Loop!EnterLoop, Loop!EndFunctors
      <3> QED
        BY <1>5, <3>1 DEF EchoInv, BatchInv
    <2> QED
      BY <2>1, <2>2, <2>3
  <1> QED
    BY <1>2, <1>6, <1>7 DEF EchoInv

LEMMA NextEcho == ASSUME ~Relay PROVE ConnInv /\ EchoInv /\ [Next]_vars => EchoInv'
  <1> SUFFICES ASSUME ConnInv, EchoInv, [Next]_vars PROVE EchoInv'
    OBVIOUS
  <1>1. CASE EnvNext \/ UNCHANGED vars
    <2>1. UNCHANGED <<loopVars, connVars, fdTable>>
      BY <1>1 DEF EnvNext, PeerNext, Connect, SendByte, Receive, Finish, Reset, vars, sockVars
    <2> QED
      BY <2>1 DEF loopVars, connVars, EchoInv, RegisteredInv, BatchInv, OpenInv, WaitingInv,
         IdleInv, Waiting, Queue
  <1> QED
    BY <1>1, NextCases, HandlerKeepsEcho, AcceptKeepsEcho, EstablishKeepsEcho, LoopStepKeepsEcho

LEMMA InitEcho == Init => EchoInv
  <1> SUFFICES ASSUME Init PROVE EchoInv
    OBVIOUS
  <1>1. /\ registered = {WakeupRegistration} /\ active = {}
        /\ functors = <<>> /\ pendingFunctors = <<>>
    BY DEF Init, Loop!Init, WakeupRegistration
  <1>2. Queue = <<>>
    BY <1>1, ConcatEmptySeq DEF Queue
  <1>3. Elements(Queue) = {} /\ EstablishedOnce(Queue)
    BY <1>2, EmptyElements DEF EstablishedOnce
  <1>4. \A p \in Peers : ~Waiting(p)
    BY <1>3 DEF Waiting
  <1>5. RegisteredInv /\ BatchInv
    BY <1>1, ChannelNames DEF RegisteredInv, BatchInv, WakeupRegistration
  <1>6. OpenInv /\ WaitingInv /\ IdleInv
    BY <1>4, NoPeerAssumption DEF Init, SocketsInit, OpenInv, WaitingInv, IdleInv
  <1> QED
    BY <1>3, <1>5, <1>6 DEF EchoInv

LEMMA EchoInvHolds == ASSUME ~Relay PROVE Spec => []EchoInv
  BY InitEcho, NextEcho, ConnInvHolds, PTL DEF Spec

\* In the echo server no channel that epoll or the batch points to is deleted: its
\* connection is in connections_ until another one takes its descriptor, and by
\* then neither points to it any more (Epoller.cc:25-27, TcpServer.cc:26-36).
THEOREM NoDanglingChannelHolds == ASSUME ~Relay PROVE Spec => []NoDanglingChannel
  <1>1. ConnInv /\ EchoInv => NoDanglingChannel
    <2> SUFFICES ASSUME ConnInv, EchoInv, NEW p \in Peers,
                        NEW r \in registered \cup active, r.ch = p
                 PROVE  p \in Range(connections)
      BY DEF NoDanglingChannel
    <2>1. PICK w \in registered : w.ch = p
      BY DEF EchoInv, BatchInv
    <2>2. fdTable[w.fd] = p /\ w.fd \in SockFds
      BY <2>1, ChannelNames DEF EchoInv, RegisteredInv, ConnInv, CallInv, Callable, Accepted,
         WakeupRegistration, AcceptorRegistration
    <2>3. connections[w.fd] = p
      BY <2>2, NoPeerAssumption DEF ConnInv, TableInv
    <2> QED
      BY <2>2, <2>3 DEF Range, ConnInv, ConnTypes
  <1> QED
    BY <1>1, ConnInvHolds, EchoInvHolds, PTL

\* In the echo server an event that poll() returned is handled on the socket it
\* was returned for (EventLoop.cc:61-65, TcpConnection.cc:40, Acceptor.cc:63).
THEOREM NoStaleEventHolds == ASSUME ~Relay PROVE Spec => []NoStaleEvent
  <1>1. ConnInv /\ EchoInv => NoStaleEvent
    <2> SUFFICES ASSUME ConnInv, EchoInv, NEW a \in active, a.ch \in Peers
                 PROVE  Owner(fdOf[a.ch]) = a.ch
      BY DEF NoStaleEvent
    <2>1. PICK r \in registered : r.ch = a.ch
      BY DEF EchoInv, BatchInv
    <2>2. fdTable[r.fd] = a.ch /\ r.fd = fdOf[a.ch] /\ r.fd \in SockFds
      BY <2>1, ChannelNames DEF EchoInv, RegisteredInv, ConnInv, CallInv, Callable, Accepted,
         WakeupRegistration, AcceptorRegistration
    <2> QED
      BY <2>2 DEF Owner
  <1> QED
    BY <1>1, ConnInvHolds, EchoInvHolds, PTL

\* In the echo server every accepted connection waits for connectEstablished or
\* is watched for reading by its own channel, and not both
\* (TcpServer.cc:26-36, TcpConnection.cc:97-102, Epoller.cc:32-39).
THEOREM EveryConnectionWatchedHolds == ASSUME ~Relay PROVE Spec => []EveryConnectionWatched
  <1>1. ConnInv /\ EchoInv => EveryConnectionWatched
    <2> SUFFICES ASSUME ConnInv, EchoInv PROVE EveryConnectionWatched
      OBVIOUS
    <2>1. TypeOK
      BY LoopInvTypes DEF ConnInv, SockTypes, ConnTypes, TypeOK
    <2>2. ASSUME NEW f \in SockFds, IsOpen(f)
          PROVE  /\ connections[f] = fdTable[f]
                 /\ fdOf[fdTable[f]] = f
                 /\ InFlight(fdTable[f]) <=>
                       ~\E r \in registered : r.fd = f /\ r.ch = fdTable[f] /\ "in" \in r.ev
                 /\ \A r \in registered : r.fd = f => r.ch = fdTable[f]
      <3>1. fdTable[f] # NoPeer /\ fdTable[f] \in Peers
        BY <2>2 DEF IsOpen, Owner, ConnInv, SockTypes
      <3>2. connections[f] = fdTable[f] /\ fdOf[fdTable[f]] = f
        BY <3>1 DEF ConnInv, TableInv
      <3>3. \A r \in registered : r.ch \in Peers => r.fd = fdOf[r.ch]
        BY ChannelNames DEF ConnInv, CallInv, WakeupRegistration, AcceptorRegistration
      <3>4. \A r \in registered : r.fd = f => r.ch = fdTable[f]
        <4> SUFFICES ASSUME NEW r \in registered, r.fd = f PROVE r.ch = fdTable[f]
          OBVIOUS
        <4>1. r \notin {WakeupRegistration, AcceptorRegistration}
          BY DescriptorNames DEF WakeupRegistration, AcceptorRegistration
        <4>2. r.ch \in Peers
          BY <4>1 DEF ConnInv, CallInv, Callable, Accepted
        <4> QED
          BY <4>2 DEF EchoInv, RegisteredInv
      <3>5. InFlight(fdTable[f]) <=> Waiting(fdTable[f])
        BY DEF InFlight, Waiting, Elements, Queue, Established
      <3>6. Waiting(fdTable[f]) <=> ~\E r \in registered : r.ch = fdTable[f]
        BY <3>1 DEF EchoInv, RegisteredInv, OpenInv
      <3>7. \A r \in registered : r.ch = fdTable[f] => r.fd = f /\ "in" \in r.ev
        BY <3>1, <3>2, <3>3 DEF EchoInv, RegisteredInv
      <3> QED
        BY <3>2, <3>4, <3>5, <3>6, <3>7
    <2> QED
      BY <2>1, <2>2 DEF EveryConnectionWatched
  <1> QED
    BY <1>1, ConnInvHolds, EchoInvHolds, PTL

------------------------------------------------------------------------------
(* The echo of each peer's bytes.                                            *)

LEMMA PartsJoin ==
    ASSUME NEW S, NEW s \in Seq(S), NEW n \in 0 .. Len(s)
    PROVE  SubSeq(s, 1, n) \o SubSeq(s, n + 1, Len(s)) = s
  <1> DEFINE a == SubSeq(s, 1, n)
             b == SubSeq(s, n + 1, Len(s))
  <1>1. /\ a \in Seq(S) /\ Len(a) = n /\ \A i \in 1 .. n : a[i] = s[i]
        /\ b \in Seq(S) /\ Len(b) = Len(s) - n /\ \A i \in 1 .. Len(s) - n : b[i] = s[n + i]
    BY Parts
  <1>2. Len(s) \in Nat /\ n \in Nat /\ n <= Len(s)
    BY LenProperties
  <1> HIDE DEF a, b
  <1>3. /\ a \o b \in Seq(S) /\ Len(a \o b) = n + (Len(s) - n)
        /\ \A i \in 1 .. n + (Len(s) - n) : (a \o b)[i] = IF i <= n THEN a[i] ELSE b[i - n]
    BY <1>1, ConcatProperties
  <1>4. n + (Len(s) - n) = Len(s)
    BY <1>2
  <1>5. ASSUME NEW i \in 1 .. Len(s) PROVE (a \o b)[i] = s[i]
    <2>1. CASE i <= n
      BY <1>1, <1>2, <1>3, <1>4, <2>1
    <2>2. CASE ~(i <= n)
      <3>1. i - n \in 1 .. Len(s) - n /\ n + (i - n) = i
        BY <1>2, <2>2
      <3> QED
        BY <1>1, <1>3, <1>4, <2>2, <3>1
    <2> QED
      BY <2>1, <2>2
  <1> QED
    BY <1>3, <1>4, <1>5, SeqEqual DEF a, b

Stream(g, s, o, r) == g \o s \o o \o r

\* x goes from the read buffer to the output buffer; x goes to the socket and y
\* stays behind in an empty output buffer; a byte comes in; a byte goes out.
Kept(g, s, o, x, r) == Stream(g, s, o \o x, r) = Stream(g, s, o, x \o r)
Passed(g, s, x, y, r) == Stream(g, s \o x, <<>> \o y, r) = Stream(g, s, <<>>, (x \o y) \o r)
Extended(g, s, o, r, e) == Stream(g, s, o, Append(r, e)) = Append(Stream(g, s, o, r), e)
Delivered(g, s, o, r) == s # <<>> => Stream(Append(g, Head(s)), Tail(s), o, r) = Stream(g, s, o, r)
Leads(g, s, o, r) == IsPrefix(g, Stream(g, s, o, r))

\* Bytes that move on to the next place leave the stream as it is.
LEMMA StreamShifts ==
    ASSUME NEW S, NEW g \in Seq(S), NEW s \in Seq(S), NEW o \in Seq(S), NEW r \in Seq(S),
           NEW x \in Seq(S), NEW y \in Seq(S)
    PROVE  Kept(g, s, o, x, r) /\ Passed(g, s, x, y, r)
  <1>1. /\ g \o s \in Seq(S) /\ (g \o s) \o o \in Seq(S) /\ x \o y \in Seq(S)
        /\ (g \o s) \o <<>> = g \o s /\ <<>> \o y = y
    BY ConcatProperties, ConcatEmptySeq
  <1>2. /\ Associates(g \o s, o, x) /\ Associates((g \o s) \o o, x, r)
        /\ Associates(g, s, x) /\ Associates(g \o s, x, y) /\ Associates(g \o s, x \o y, r)
    BY <1>1, ConcatAssociates
  <1>3. /\ (g \o s) \o (o \o x) = ((g \o s) \o o) \o x
        /\ (((g \o s) \o o) \o x) \o r = ((g \o s) \o o) \o (x \o r)
    BY <1>2 DEF Associates
  <1>4. /\ g \o (s \o x) = (g \o s) \o x
        /\ ((g \o s) \o x) \o y = (g \o s) \o (x \o y)
        /\ ((g \o s) \o (x \o y)) \o r = (g \o s) \o ((x \o y) \o r)
    BY <1>2 DEF Associates
  <1>5. Stream(g, s, o \o x, r) = Stream(g, s, o, x \o r)
    BY <1>3 DEF Stream
  <1>6. Stream(g, s \o x, <<>> \o y, r) = Stream(g, s, <<>>, (x \o y) \o r)
    BY <1>1, <1>4 DEF Stream
  <1> QED
    BY <1>5, <1>6 DEF Kept, Passed

LEMMA StreamGrows ==
    ASSUME NEW S, NEW g \in Seq(S), NEW s \in Seq(S), NEW o \in Seq(S), NEW r \in Seq(S), NEW e \in S
    PROVE  Extended(g, s, o, r, e) /\ Delivered(g, s, o, r) /\ Leads(g, s, o, r)
  <1>1. (g \o s) \o o \in Seq(S) /\ s \o o \in Seq(S) /\ (s \o o) \o r \in Seq(S) /\ g \o s \in Seq(S)
    BY ConcatProperties
  <1>2. Stream(g, s, o, Append(r, e)) = Append(Stream(g, s, o, r), e)
    BY <1>1, AppendConcat DEF Stream
  <1>3. ASSUME s # <<>> PROVE Append(g, Head(s)) \o Tail(s) = g \o s
    BY <1>3, MoveHead
  <1>4. s # <<>> => Stream(Append(g, Head(s)), Tail(s), o, r) = Stream(g, s, o, r)
    BY <1>3 DEF Stream
  <1>5. IsPrefix(g, Stream(g, s, o, r))
    <2> DEFINE t == (s \o o) \o r
    <2>1. Associates(g, s, o) /\ Associates(g, s \o o, r)
      BY <1>1, ConcatAssociates
    <2>2. Stream(g, s, o, r) = g \o t
      BY <2>1 DEF Associates, Stream
    <2>3. t \in Seq(S)
      BY <1>1
    <2> HIDE DEF t
    <2>4. /\ g \o t \in Seq(S) /\ Len(g \o t) = Len(g) + Len(t)
          /\ \A i \in 1 .. Len(g) + Len(t) : (g \o t)[i] = IF i <= Len(g) THEN g[i] ELSE t[i - Len(g)]
          /\ Len(g) \in Nat /\ Len(t) \in Nat
      BY <2>3, ConcatProperties, LenProperties
    <2>5. Len(g) \in 0 .. Len(g \o t) /\ Len(g) \in 0 .. Len(g)
      BY <2>4
    <2>6. /\ SubSeq(g \o t, 1, Len(g)) \in Seq(S) /\ Len(SubSeq(g \o t, 1, Len(g))) = Len(g)
          /\ \A i \in 1 .. Len(g) : SubSeq(g \o t, 1, Len(g))[i] = (g \o t)[i]
      BY <2>4, <2>5, Parts
    <2>7. SubSeq(g, 1, Len(g)) = g
      BY SubSeqFull
    <2>8. \A i \in 1 .. Len(g) : SubSeq(g \o t, 1, Len(g))[i] = g[i]
      BY <2>4, <2>6
    <2>9. SubSeq(g \o t, 1, Len(g)) = g
      BY <2>6, <2>8, SeqEqual
    <2>10. Len(g) <= Len(g \o t)
      BY <2>4
    <2> QED
      BY <2>2, <2>7, <2>9, <2>10 DEF IsPrefix
  <1> QED
    BY <1>2, <1>4, <1>5 DEF Extended, Delivered, Leads

LEMMA BytesGrow ==
    ASSUME NEW p \in Peers, NEW n \in Nat
    PROVE  /\ Bytes(p, n) \in Seq(Byte)
           /\ Append(Bytes(p, n), [from |-> p, n |-> n + 1]) = Bytes(p, n + 1)
  <1>1. \A k \in Nat : /\ Bytes(p, k) \in Seq(Byte) /\ Len(Bytes(p, k)) = k
                       /\ \A i \in 1 .. k : Bytes(p, k)[i] = [from |-> p, n |-> i]
    BY DEF Bytes, Byte
  <1> DEFINE e == [from |-> p, n |-> n + 1]
             t == Append(Bytes(p, n), e)
  <1>2. e \in Byte
    BY DEF Byte
  <1>3. /\ t \in Seq(Byte) /\ Len(t) = n + 1
        /\ \A i \in 1 .. n : t[i] = Bytes(p, n)[i]
        /\ t[n + 1] = e
    BY <1>1, <1>2, AppendProperties
  <1> HIDE DEF t
  <1>4. \A i \in 1 .. n + 1 : t[i] = Bytes(p, n + 1)[i]
    <2> TAKE i \in 1 .. n + 1
    <2>1. n + 1 \in Nat /\ (i \in 1 .. n \/ i = n + 1)
      OBVIOUS
    <2>2. Bytes(p, n + 1)[i] = [from |-> p, n |-> i]
      BY <1>1, <2>1
    <2> QED
      BY <1>1, <1>3, <2>1, <2>2
  <1>5. t = Bytes(p, n + 1)
    BY <1>1, <1>3, <1>4, SeqEqual
  <1> QED
    BY <1>1, <1>5 DEF t

StreamOf(p) == Stream(got[p], sndq[p], outputBuf[p], rcvq[p])

Echoed(p) ==
    IF peer[p] = "reset"
    THEN IsPrefix(got[p], Bytes(p, sent[p]))
    ELSE StreamOf(p) = Bytes(p, sent[p])

\* Reading for connection p and sending to it moves p's own bytes only.
LEMMA ReadKeepsEcho ==
    ASSUME ~Relay, ConnInv, EchoInv, NEW p \in Peers, NEW k \in Nat, NEW n \in 0 .. k,
           Callback(p, "in"), Reads(p, k), Sends(p, Message(p, k), n),
           UNCHANGED <<got, sent, peer>>, \A q \in Peers : Echoed(q)
    PROVE  \A q \in Peers : Echoed(q)'
  <1>0. SockTypes /\ ConnTypes
    BY DEF ConnInv
  <1>1. Owner(fdOf[p]) = p
    BY HandledIsOpen DEF Owner
  <1> DEFINE m == SubSeq(rcvq[p], 1, k)
             rest == SubSeq(rcvq[p], k + 1, Len(rcvq[p]))
             m1 == SubSeq(m, 1, n)
             m2 == SubSeq(m, n + 1, Len(m))
  <1>2. k \in 1 .. Len(rcvq[p]) /\ rcvq' = [rcvq EXCEPT ![p] = rest] /\ Message(p, k) = m
    BY <1>1 DEF Reads, Message
  <1>3. /\ got[p] \in Seq(Byte) /\ sndq[p] \in Seq(Byte) /\ outputBuf[p] \in Seq(Byte)
        /\ rcvq[p] \in Seq(Byte) /\ Len(rcvq[p]) \in Nat
    BY <1>0, LenProperties DEF SockTypes, ConnTypes
  <1>4. k \in 0 .. Len(rcvq[p])
    BY <1>2, <1>3
  <1>5. m \in Seq(Byte) /\ Len(m) = k /\ rest \in Seq(Byte) /\ m \o rest = rcvq[p]
    <2>1. m \o rest = rcvq[p]
      BY <1>3, <1>4, PartsJoin, Zenon
    <2>2. m \in Seq(Byte) /\ Len(m) = k /\ rest \in Seq(Byte)
      <3>1. rcvq[p] \in Seq(Byte) /\ k \in 0 .. Len(rcvq[p])
        BY <1>3, <1>4
      <3> QED
        BY <3>1, Parts
    <2> QED
      BY <2>1, <2>2
  <1> HIDE DEF m, rest
  <1>6. m1 \in Seq(Byte) /\ m2 \in Seq(Byte) /\ m1 \o m2 = m
    <2>1. n \in 0 .. Len(m)
      BY <1>5
    <2> QED
      BY <1>5, <2>1, Parts, PartsJoin
  <1>7. outputBuf' = [outputBuf EXCEPT ![p] = @ \o m2]
    BY <1>2 DEF Sends, KeepRest
  <1>8. CASE n > 0
    <2>1. /\ outputBuf[p] = <<>> /\ peer[p] # "reset"
          /\ sndq' = [sndq EXCEPT ![p] = @ \o m1]
      BY <1>1, <1>2, <1>8 DEF Sends, Transmit
    <2> HIDE DEF m1, m2
    <2>2. /\ sndq'[p] = sndq[p] \o m1 /\ outputBuf'[p] = <<>> \o m2 /\ rcvq'[p] = rest
          /\ \A q \in Peers : q # p => /\ sndq'[q] = sndq[q] /\ outputBuf'[q] = outputBuf[q]
                                       /\ rcvq'[q] = rcvq[q]
      BY <1>0, <1>2, <1>7, <2>1 DEF SockTypes, ConnTypes
    <2>3. Stream(got[p], sndq[p] \o m1, <<>> \o m2, rest) = Stream(got[p], sndq[p], <<>>, (m1 \o m2) \o rest)
      <3>1. Passed(got[p], sndq[p], m1, m2, rest)
        BY <1>3, <1>5, <1>6, StreamShifts, Zenon
      <3> QED
        BY <3>1 DEF Passed
    <2>4. StreamOf(p)' = StreamOf(p)
      BY <1>5, <1>6, <2>1, <2>2, <2>3 DEF StreamOf
    <2>5. \A q \in Peers : q # p => StreamOf(q)' = StreamOf(q)
      BY <2>2 DEF StreamOf
    <2> QED
      BY <2>4, <2>5 DEF Echoed
  <1>9. CASE ~(n > 0)
    <2>1. n = 0 /\ UNCHANGED sndq
      BY <1>9 DEF Sends
    <2>2. m2 = m
      BY <1>5, <2>1, SubSeqFull
    <2> HIDE DEF m1, m2
    <2>3. /\ outputBuf'[p] = outputBuf[p] \o m /\ rcvq'[p] = rest
          /\ \A q \in Peers : q # p => outputBuf'[q] = outputBuf[q] /\ rcvq'[q] = rcvq[q]
      BY <1>0, <1>2, <1>7, <2>2 DEF SockTypes, ConnTypes
    <2>4. Stream(got[p], sndq[p], outputBuf[p] \o m, rest) = Stream(got[p], sndq[p], outputBuf[p], m \o rest)
      <3>1. Kept(got[p], sndq[p], outputBuf[p], m, rest)
        BY <1>3, <1>5, StreamShifts, Zenon
      <3> QED
        BY <3>1 DEF Kept
    <2>5. StreamOf(p)' = StreamOf(p)
      BY <1>5, <2>1, <2>3, <2>4 DEF StreamOf
    <2>6. \A q \in Peers : q # p => StreamOf(q)' = StreamOf(q)
      BY <2>1, <2>3 DEF StreamOf
    <2> QED
      BY <2>5, <2>6 DEF Echoed
  <1> QED
    BY <1>8, <1>9

LEMMA PeerKeepsEcho ==
    ASSUME SockTypes, ConnTypes, UNCHANGED outputBuf, NEW p \in Peers,
           SendByte(p) \/ Receive(p) \/ Reset(p), \A q \in Peers : Echoed(q)
    PROVE  \A q \in Peers : Echoed(q)'
  <1>1. \A q \in Peers : /\ got[q] \in Seq(Byte) /\ sndq[q] \in Seq(Byte) /\ outputBuf[q] \in Seq(Byte)
                         /\ rcvq[q] \in Seq(Byte) /\ sent[q] \in Nat
    BY DEF SockTypes, ConnTypes
  <1>2. ASSUME NEW q \in Peers, q # p PROVE Echoed(q)'
    <2>1. /\ got'[q] = got[q] /\ sndq'[q] = sndq[q] /\ rcvq'[q] = rcvq[q]
          /\ sent'[q] = sent[q] /\ peer'[q] = peer[q]
      BY <1>2 DEF SockTypes, SendByte, Receive, Reset
    <2> QED
      BY <2>1 DEF Echoed, StreamOf
  <1>3. CASE SendByte(p)
    <2> DEFINE e == [from |-> p, n |-> sent[p] + 1]
    <2>1. /\ peer'[p] # "reset" /\ peer[p] # "reset"
          /\ got'[p] = got[p] /\ sndq'[p] = sndq[p] /\ sent'[p] = sent[p] + 1
          /\ rcvq'[p] = Append(rcvq[p], e)
      BY <1>3 DEF SendByte, SockTypes
    <2>2. e \in Byte
      BY <1>1 DEF Byte
    <2>3. Bytes(p, sent[p]) \in Seq(Byte) /\ Append(Bytes(p, sent[p]), e) = Bytes(p, sent[p] + 1)
      BY <1>1, BytesGrow
    <2> HIDE DEF e
    <2>4. Stream(got[p], sndq[p], outputBuf[p], Append(rcvq[p], e)) = Append(StreamOf(p), e)
      <3>1. Extended(got[p], sndq[p], outputBuf[p], rcvq[p], e)
        BY <1>1, <2>2, StreamGrows, Zenon
      <3> QED
        BY <3>1 DEF Extended, StreamOf
    <2>5. StreamOf(p)' = Append(StreamOf(p), e)
      BY <2>1, <2>4 DEF StreamOf
    <2> QED
      BY <1>2, <2>1, <2>3, <2>5 DEF Echoed
  <1>4. CASE Receive(p)
    <2>1. /\ sndq[p] # <<>> /\ peer'[p] = peer[p] /\ peer[p] # "reset" /\ sent'[p] = sent[p]
          /\ got'[p] = Append(got[p], Head(sndq[p])) /\ sndq'[p] = Tail(sndq[p]) /\ rcvq'[p] = rcvq[p]
      BY <1>4 DEF Receive, SockTypes
    <2>2. Head(sndq[p]) \in Byte
      BY <1>1, <2>1, HeadTailProperties
    <2>3. Stream(Append(got[p], Head(sndq[p])), Tail(sndq[p]), outputBuf[p], rcvq[p]) = StreamOf(p)
      <3>1. Delivered(got[p], sndq[p], outputBuf[p], rcvq[p])
        BY <1>1, <2>2, StreamGrows, Zenon
      <3> QED
        BY <2>1, <3>1 DEF Delivered, StreamOf
    <2>4. StreamOf(p)' = StreamOf(p)
      BY <2>1, <2>3 DEF StreamOf
    <2> QED
      BY <1>2, <2>1, <2>4 DEF Echoed
  <1>5. CASE Reset(p)
    <2>1. /\ peer'[p] = "reset" /\ peer[p] # "reset" /\ got'[p] = got[p] /\ sent'[p] = sent[p]
      BY <1>5 DEF Reset, SockTypes
    <2>2. [from |-> p, n |-> 1] \in Byte
      BY DEF Byte
    <2>3. IsPrefix(got[p], StreamOf(p))
      <3>1. Leads(got[p], sndq[p], outputBuf[p], rcvq[p])
        BY <1>1, <2>2, StreamGrows, Zenon
      <3> QED
        BY <3>1 DEF Leads, StreamOf
    <2> QED
      BY <1>2, <2>1, <2>3 DEF Echoed
  <1> QED
    BY <1>3, <1>4, <1>5

\* The stream of every peer is whole, until the process ends.
StreamInv == crashed = "no" => \A p \in Peers : Echoed(p)

\* Only a peer resets its connection.
LEMMA ServerKeepsPeers ==
    ASSUME ConnInv, [Next]_vars
    PROVE  UNCHANGED peer \/ (EnvNext /\ UNCHANGED <<connVars, crashed>> /\ crashed = "no")
  <1>1. CASE crashed = "no" /\ LoopStep
    BY <1>1, LoopStepKeeps DEF sockVars
  <1>2. CASE HandleAccept
    BY <1>2 DEF HandleAccept
  <1>3. ASSUME NEW p \in Peers, ChannelStep(p) PROVE UNCHANGED peer
    BY <1>3 DEF ChannelStep, HandleReadData, HandleReadEof, HandleReadError, HandleWriteSome, HandleWriteNone
  <1>4. ASSUME NEW p \in Peers, ConnectEstablished(p) PROVE UNCHANGED peer
    BY <1>4, EstablishEffect DEF sockVars
  <1>5. CASE EnvNext
    BY <1>5 DEF EnvNext
  <1>6. CASE UNCHANGED vars
    BY <1>6 DEF vars, sockVars
  <1> QED
    BY <1>1, <1>2, <1>3, <1>4, <1>5, <1>6, NextCases, Zenon

LEMMA SameBytesKeepEcho ==
    ASSUME ConnInv, \A p \in Peers : Echoed(p), UNCHANGED <<got, sndq, outputBuf, rcvq, sent>>,
           \A p \in Peers : peer'[p] = "reset" <=> peer[p] = "reset"
    PROVE  \A p \in Peers : Echoed(p)'
  BY DEF Echoed, StreamOf

LEMMA EnvKeepsEcho ==
    ASSUME ConnInv, EnvNext, \A p \in Peers : Echoed(p)
    PROVE  \A p \in Peers : Echoed(p)'
  <1>0. SockTypes /\ ConnTypes
    BY DEF ConnInv
  <1>1. UNCHANGED outputBuf
    BY DEF EnvNext, connVars
  <1>2. PICK p \in Peers : Connect(p) \/ SendByte(p) \/ Receive(p) \/ Finish(p) \/ Reset(p)
    BY DEF EnvNext, PeerNext
  <1>3. CASE Connect(p) \/ Finish(p)
    <2>1. UNCHANGED <<got, sndq, outputBuf, rcvq, sent>>
      BY <1>1, <1>3 DEF Connect, Finish
    <2>2. \A q \in Peers : peer'[q] = "reset" <=> peer[q] = "reset"
      BY <1>0, <1>3 DEF Connect, Finish, SockTypes
    <2> QED
      BY <2>1, <2>2, SameBytesKeepEcho
  <1>4. CASE SendByte(p) \/ Receive(p) \/ Reset(p)
    BY <1>0, <1>1, <1>4, PeerKeepsEcho
  <1> QED
    BY <1>2, <1>3, <1>4

LEMMA NextStream == ASSUME ~Relay PROVE ConnInv /\ EchoInv /\ StreamInv /\ [Next]_vars => StreamInv'
  <1> SUFFICES ASSUME ConnInv, EchoInv, StreamInv, [Next]_vars, crashed' = "no"
               PROVE  \A p \in Peers : Echoed(p)'
    BY DEF StreamInv
  <1>1. crashed = "no"
    BY DEF vars, Next, ServerNext, EnvNext
  <1>2. \A p \in Peers : Echoed(p)
    BY <1>1 DEF StreamInv
  <1>3. CASE EnvNext
    BY <1>2, <1>3, EnvKeepsEcho
  <1>4. CASE UNCHANGED peer
    <2>1. CASE UNCHANGED <<got, sndq, outputBuf, rcvq, sent>>
      BY <1>2, <1>4, <2>1, SameBytesKeepEcho
    <2>2. ASSUME NEW p \in Peers, NEW q \in Peers, NEW k \in Nat,
                 Callback(p, "in"), Reads(p, k), q \in IF Relay THEN held ELSE {p},
                 SendFails \/ \E n \in 0 .. k : Sends(q, Message(p, k), n),
                 UNCHANGED <<got, sent, peer>>
          PROVE  \A x \in Peers : Echoed(x)'
      <3>1. q = p
        BY <2>2
      <3>2. ~SendFails
        BY DEF SendFails
      <3>3. PICK n \in 0 .. k : Sends(p, Message(p, k), n)
        BY <2>2, <3>1, <3>2
      <3> QED
        BY <1>2, <2>2, <3>3, ReadKeepsEcho
    <2>3. ASSUME NEW p \in Peers, HandleWriteSome(p) PROVE FALSE
      BY <2>3, EchoStep DEF ChannelStep
    <2>4. CASE UNCHANGED connVars /\ \E p \in Peers : SendByte(p) \/ Receive(p) \/ Reset(p)
      <3>1. SockTypes /\ ConnTypes /\ UNCHANGED outputBuf
        BY <2>4 DEF ConnInv, connVars
      <3> QED
        BY <1>2, <2>4, <3>1, PeerKeepsEcho
    <2> QED
      BY <2>1, <2>2, <2>3, <2>4, ByteSteps
  <1> QED
    BY <1>3, <1>4, ServerKeepsPeers

\* In the echo server what a peer has got and what is under way to it is what it
\* sent, in order, whatever parts read() and write() move; after a reset, what it
\* got is the beginning of it (TcpConnection.cc:36-95).
THEOREM EchoIntactHolds == ASSUME ~Relay PROVE Spec => []EchoIntact
  <1>1. Init => StreamInv
    <2> SUFFICES ASSUME Init, NEW p \in Peers PROVE Echoed(p)
      BY DEF StreamInv
    <2>1. /\ peer[p] = "idle" /\ got[p] = <<>> /\ sndq[p] = <<>> /\ outputBuf[p] = <<>> /\ rcvq[p] = <<>>
          /\ sent[p] = 0
      BY DEF Init, SocketsInit
    <2>2. Bytes(p, 0) = <<>>
      BY DEF Bytes
    <2>3. <<>> \o <<>> = <<>>
      OBVIOUS
    <2> QED
      BY <2>1, <2>2, <2>3 DEF Echoed, StreamOf, Stream
  <1>2. StreamInv => EchoIntact
    BY DEF StreamInv, EchoIntact, Echoed, StreamOf, Stream
  <1> QED
    BY <1>1, <1>2, NextStream, ConnInvHolds, EchoInvHolds, PTL DEF Spec

=============================================================================
