--------------------------- MODULE EventLoop_proofs ---------------------------
(***************************************************************************)
(* Proofs about EventLoop, for every set of descriptors, channels and      *)
(* functors: type correctness, that the loop never sleeps on a functor it  *)
(* has been given, and that functors run in order.                         *)
(***************************************************************************)
EXTENDS EventLoop, SequenceLemmas

\* NoLostWakeup is not inductive by itself: it also needs that the eventfd stays
\* on the interest list in the phase where it says nothing, the handlers'.
IInv ==
    /\ TypeOK
    /\ WakeupRegistered
    /\ phase # "events" /\ pendingFunctors # <<>> => eventfd > 0
    /\ phase # "functors" => functors = <<>>

USE EventFdAssumption, WakeupChannelAssumption, MaxEventsAssumption

\* The initial state satisfies the invariant.
LEMMA InitIInv == Init => IInv
  BY EmptySeq DEF Init, IInv, TypeOK, WakeupRegistered, Registration, Activation, Events

\* User code keeps the types and the registration of the eventfd, and leaves
\* eventfd_ readable if it leaves functors behind that were not there.
LEMMA UserCodeIInv ==
    ASSUME TypeOK, WakeupRegistered, UserCode
    PROVE  /\ registered' \subseteq Registration
           /\ WakeupRegistered'
           /\ pendingFunctors' \in Seq(Functors)
           /\ eventfd' \in Nat
           /\ \/ eventfd' > 0
              \/ pendingFunctors' = pendingFunctors /\ eventfd' = eventfd
  <1>1. /\ pendingFunctors' \in Seq(Functors)
        /\ eventfd' \in Nat
        /\ \/ eventfd' > 0
           \/ pendingFunctors' = pendingFunctors /\ eventfd' = eventfd
    <2>1. CASE QueueNothing
      BY <2>1 DEF QueueNothing, TypeOK
    <2>2. ASSUME NEW f \in Functors, QueueInLoop(f)
          PROVE  <1>1!1 /\ <1>1!2 /\ <1>1!3
      BY <2>2, AppendProperties DEF QueueInLoop, TypeOK
    <2> QED
      BY <2>1, <2>2 DEF UserCode
  <1>2. registered' \subseteq Registration /\ WakeupRegistered'
    <2>1. CASE UNCHANGED registered
      BY <2>1 DEF TypeOK, WakeupRegistered
    <2>2. ASSUME NEW fd \in Fds \ {EventFd}, EpollForget(fd)
          PROVE  registered' \subseteq Registration /\ WakeupRegistered'
      BY <2>2 DEF EpollForget, TypeOK, WakeupRegistered
    <2>3. ASSUME NEW fd \in Fds \ {EventFd}, NEW ch \in Channels,
                 NEW ev \in SUBSET Events, EpollUpdate(fd, ch, ev)
          PROVE  registered' \subseteq Registration /\ WakeupRegistered'
      BY <2>3 DEF EpollUpdate, TypeOK, WakeupRegistered, Registration
    <2> QED
      BY <2>1, <2>2, <2>3 DEF UserCode
  <1> QED
    BY <1>1, <1>2

\* What is left of the batch keeps its type.
LEMMA ActiveType ==
    ASSUME TypeOK, NEW a \in active, NEW k, Running(a) \/ Handled(a, k)
    PROVE  active' \subseteq Activation
  <1>1. a \in Activation
    BY DEF TypeOK
  <1>2. CASE Running(a)
    BY <1>1, <1>2 DEF Running, TypeOK, Activation
  <1>3. CASE Handled(a, k)
    BY <1>1, <1>3 DEF Handled, TypeOK, Activation
  <1> QED
    BY <1>2, <1>3

\* Every step keeps the invariant.
LEMMA NextIInv == IInv /\ [Next]_vars => IInv'
  <1> SUFFICES ASSUME IInv, [Next]_vars PROVE IInv'
    OBVIOUS
  <1> USE DEF IInv
  <1>1. CASE BeforeLoop
    BY <1>1, UserCodeIInv DEF BeforeLoop, TypeOK
  <1>2. CASE EnterLoop
    BY <1>2 DEF EnterLoop, TypeOK, WakeupRegistered
  <1>3. ASSUME NEW ready \in Readiness, Poll(ready) PROVE IInv'
    <2>1. active' \subseteq Activation
      <3>1. PICK hits \in SUBSET Ready(ready) :
               active' = {[ch |-> r.ch, ev |-> r.ev \cap ready[r.fd],
                           started |-> FALSE] : r \in hits}
        BY <1>3, Zenon DEF Poll
      <3>2. hits \subseteq Registration
        BY DEF Ready, TypeOK
      <3>3. ASSUME NEW r \in Registration
            PROVE  [ch |-> r.ch, ev |-> r.ev \cap ready[r.fd], started |-> FALSE]
                     \in Activation
        BY DEF Registration, Activation
      <3> QED
        BY <3>1, <3>2, <3>3
    <2> QED
      BY <1>3, <2>1 DEF Poll, TypeOK, WakeupRegistered
  <1>4. CASE HandleWakeup
    <2>1. active' \subseteq Activation
      BY <1>4, ActiveType DEF HandleWakeup
    <2>2. phase = "events"
      BY <1>4 DEF HandleWakeup, MayHandle
    <2> QED
      BY <1>4, <2>1, <2>2 DEF HandleWakeup, TypeOK, WakeupRegistered
  <1>5. CASE HandleEvent
    <2>1. active' \subseteq Activation
      BY <1>5, ActiveType DEF HandleEvent
    <2>2. phase = "events"
      BY <1>5 DEF HandleEvent, MayHandle
    <2> QED
      BY <1>5, <2>1, <2>2, UserCodeIInv DEF HandleEvent, TypeOK
  <1>6. CASE DoPendingFunctors
    BY <1>6, EmptySeq DEF DoPendingFunctors, TypeOK, WakeupRegistered
  <1>7. CASE CallFunctor
    <2>1. functors' \in Seq(Functors) /\ phase = "functors"
      BY <1>7, HeadTailProperties DEF CallFunctor, RunFunctor, TypeOK
    <2> QED
      BY <1>7, <2>1, UserCodeIInv DEF CallFunctor, TypeOK
  <1>8. CASE EndFunctors
    BY <1>8 DEF EndFunctors, TypeOK, WakeupRegistered
  <1>9. CASE UNCHANGED vars
    BY <1>9 DEF vars, TypeOK, WakeupRegistered
  <1> QED
    BY <1>1, <1>2, <1>3, <1>4, <1>5, <1>6, <1>7, <1>8, <1>9 DEF Next

LEMMA Invariance == Spec => []IInv
  BY InitIInv, NextIInv, PTL DEF Spec

\* The members of the loop keep their types whatever its callbacks do.
THEOREM TypeCorrect == Spec => []TypeOK
  BY Invariance, PTL DEF IInv

\* Whatever the callbacks do - as long as they leave eventfd_ alone - the loop
\* never blocks in epoll_wait with a functor in pendingFunctors_ and eventfd_
\* not readable (EventLoop.cc:54-113).
THEOREM NoLostWakeupHolds == Spec => []NoLostWakeup
  <1>1. IInv => NoLostWakeup
    BY DEF IInv, NoLostWakeup
  <1> QED
    BY <1>1, Invariance, PTL

------------------------------------------------------------------------------
(* Functors run in order.                                                  *)

\* User code adds at most one functor at the end of pendingFunctors_.
LEMMA UserCodeGrows ==
    ASSUME TypeOK, UserCode, functors' \in Seq(Functors)
    PROVE  Grows(functors' \o pendingFunctors)
  <1>1. CASE QueueNothing
    BY <1>1 DEF QueueNothing, Grows, ToRun
  <1>2. ASSUME NEW f \in Functors, QueueInLoop(f)
        PROVE  Grows(functors' \o pendingFunctors)
    BY <1>2, AppendConcat DEF QueueInLoop, Grows, ToRun, TypeOK
  <1> QED
    BY <1>1, <1>2 DEF UserCode

\* Functors run once each, in the order in which they were queued
\* (EventLoop.cc:76-92).
THEOREM FunctorsInOrderHolds == Spec => FunctorsInOrder
  <1> DEFINE Step == Grows(ToRun) \/ (ToRun # <<>> /\ Grows(Tail(ToRun)))
  <1>1. ASSUME IInv, Next PROVE Step
    <2> USE <1>1 DEF IInv
    <2>1. CASE UNCHANGED <<functors, pendingFunctors>>
      BY <2>1 DEF Grows, ToRun
    <2>2. CASE UserCode /\ UNCHANGED functors
      BY <2>2, UserCodeGrows DEF ToRun, TypeOK
    <2>3. CASE DoPendingFunctors
      <3>1. ToRun = pendingFunctors /\ ToRun' = pendingFunctors
        BY <2>3, ConcatEmptySeq DEF DoPendingFunctors, ToRun, TypeOK
      <3> QED
        BY <3>1 DEF Grows
    <2>4. CASE CallFunctor
      <3>1. functors # <<>> /\ functors' = Tail(functors) /\ UserCode
        BY <2>4 DEF CallFunctor, RunFunctor
      <3>2. functors' \in Seq(Functors)
        BY <3>1, HeadTailProperties DEF TypeOK
      <3>3. ToRun # <<>> /\ functors' \o pendingFunctors = Tail(ToRun)
        BY <3>1, TailConcat DEF ToRun, TypeOK
      <3> QED
        BY <3>1, <3>2, <3>3, UserCodeGrows
    <2> QED
      BY <2>1, <2>2, <2>3, <2>4
      DEF Next, BeforeLoop, EnterLoop, Poll, HandleWakeup, HandleEvent, EndFunctors
  <1>2. IInv /\ [Next]_vars => [Step]_vars
    BY <1>1
  <1> QED
    BY <1>2, Invariance, PTL DEF Spec, FunctorsInOrder
=============================================================================
