------------------------------ MODULE EventLoop ------------------------------
(***************************************************************************)
(* net::EventLoop with the net::Epoller and the net::Channel objects it    *)
(* drives: one thread that repeats                                         *)
(*                                                                         *)
(*     poller_->poll(channels);  ch->handleEvent() for each of them;       *)
(*     doPendingFunctors();                                                *)
(*                                                                         *)
(* The handlers and the functors are user code.  Here they are arbitrary:  *)
(* in each of their steps they may hand one functor to queueInLoop() and   *)
(* may register a descriptor with epoll or close one.  TcpServer and       *)
(* TimerQueue give them their real meaning and implement this module.      *)
(***************************************************************************)
EXTENDS Integers, FiniteSets, Sequences

CONSTANTS
    Fds,            \* descriptors that epoll may watch
    Channels,       \* Channel objects
    Functors,       \* what queueInLoop() may be given
    EventFd,        \* EventLoop::eventfd_
    WakeupChannel,  \* EventLoop::channel_, the Channel on eventfd_
    MaxEvents       \* MAXEVENTS of Epoller.h

ASSUME EventFdAssumption       == EventFd \in Fds
ASSUME WakeupChannelAssumption == WakeupChannel \in Channels
ASSUME MaxEventsAssumption     == MaxEvents \in Nat \ {0}

VARIABLES
    phase,            \* where loop() is: "start" until it is called, then "poll",
                      \* "events" and "functors" in turn
    registered,       \* the interest list of epfd_
    active,           \* `channels`: what poll() returned, not yet handled
    pendingFunctors,  \* pendingFunctors_
    functors,         \* the local `functors` of doPendingFunctors()
    eventfd           \* the counter behind eventfd_

vars == <<phase, registered, active, pendingFunctors, functors, eventfd>>

Events == {"in", "out"}    \* kReadEvent and kWriteEvent

Registration == [fd : Fds, ch : Channels, ev : SUBSET Events]

\* A channel with its revents_; `started` once its readCallback_ has begun,
\* because handleEvent() is then on the stack and no other channel can run.
Activation == [ch : Channels, ev : SUBSET Events, started : BOOLEAN]

------------------------------------------------------------------------------
(* Operations that handlers and functors call.                             *)

\* Epoller::update: always EPOLL_CTL_ADD, and its result is not looked at, so
\* on a descriptor that is watched already (EEXIST) it changes nothing.
EpollUpdate(fd, ch, ev) ==
    registered' = IF \E r \in registered : r.fd = fd
                  THEN registered
                  ELSE registered \cup {[fd |-> fd, ch |-> ch, ev |-> ev]}

\* close(fd) takes the descriptor off the interest list.
EpollForget(fd) == registered' = {r \in registered : r.fd # fd}

\* Variant of QueueInLoop: functors do not wake the loop they run in.
QueueInLoopAsleep(f) ==
    /\ pendingFunctors' = Append(pendingFunctors, f)
    /\ eventfd' = IF phase = "functors" THEN eventfd ELSE eventfd + 1

\* queueInLoop(f): push_back, then wakeup() writes 1 to eventfd_.
QueueInLoop(f) ==
    /\ pendingFunctors' = Append(pendingFunctors, f)
    /\ eventfd' = eventfd + 1

QueueNothing == UNCHANGED <<pendingFunctors, eventfd>>

------------------------------------------------------------------------------
(* The loop.  `ready` maps a descriptor to the events the kernel has for it. *)

Init ==
    /\ phase = "start"
    /\ registered = {[fd |-> EventFd, ch |-> WakeupChannel, ev |-> {"in"}]}
    /\ active = {}
    /\ pendingFunctors = <<>>
    /\ functors = <<>>
    /\ eventfd = 0

\* The user's thread calls loop().
EnterLoop ==
    /\ phase = "start"
    /\ phase' = "poll"
    /\ UNCHANGED <<registered, active, pendingFunctors, functors, eventfd>>

Ready(ready) == {r \in registered : r.ev \cap ready[r.fd] # {}}

\* epoll_wait(..., MAXEVENTS, -1) returns some of the ready descriptors, at
\* least one and no more than MAXEVENTS, in an order of its own.
Poll(ready) ==
    /\ phase = "poll"
    /\ \E hits \in SUBSET Ready(ready) :
          /\ hits # {}
          /\ \/ hits = Ready(ready)
             \/ Cardinality(hits) = MaxEvents
          /\ Cardinality(hits) <= MaxEvents
          /\ active' = {[ch |-> r.ch, ev |-> r.ev \cap ready[r.fd],
                         started |-> FALSE] : r \in hits}
    /\ phase' = "events"
    /\ UNCHANGED <<registered, pendingFunctors, functors, eventfd>>

\* Channel::handleEvent() may continue with the callback for event k of a:
\* the read callback first, and nothing between the two callbacks of a channel.
MayHandle(a, k) ==
    /\ phase = "events"
    /\ a \in active
    /\ a.started \/ \A b \in active : ~b.started
    /\ k \in a.ev
    /\ k = "out" => "in" \notin a.ev

\* The callback for event k of a returns.
Handled(a, k) ==
    active' = (active \ {a}) \cup
              (IF a.ev = {k} THEN {}
               ELSE {[a EXCEPT !.ev = a.ev \ {k}, !.started = TRUE]})

\* The callback for event k of a is still running.
Running(a) == active' = (active \ {a}) \cup {[a EXCEPT !.started = TRUE]}

\* EventLoop::handleRead() reads eventfd_, which resets its counter.
HandleWakeup ==
    /\ \E a \in active : /\ a.ch = WakeupChannel
                         /\ MayHandle(a, "in")
                         /\ Handled(a, "in")
    /\ eventfd' = 0
    /\ UNCHANGED <<phase, registered, pendingFunctors, functors>>

\* Variant of DoPendingFunctors: copies the vector instead of swapping it.
DoPendingFunctorsCopied ==
    /\ phase = "events"
    /\ active = {}
    /\ phase' = "functors"
    /\ functors' = pendingFunctors
    /\ UNCHANGED <<registered, active, pendingFunctors, eventfd>>

\* doPendingFunctors() swaps the pending functors into a local vector ...
DoPendingFunctors ==
    /\ phase = "events"
    /\ active = {}
    /\ phase' = "functors"
    /\ functors' = pendingFunctors
    /\ pendingFunctors' = <<>>
    /\ UNCHANGED <<registered, active, eventfd>>

\* ... runs them in order ...
RunFunctor(f) ==
    /\ phase = "functors"
    /\ functors # <<>>
    /\ f = Head(functors)
    /\ functors' = Tail(functors)

\* ... and returns to the top of loop(): quit_ is never set.
EndFunctors ==
    /\ phase = "functors"
    /\ functors = <<>>
    /\ phase' = "poll"
    /\ UNCHANGED <<registered, active, pendingFunctors, functors, eventfd>>

------------------------------------------------------------------------------
(* Arbitrary user code.                                                    *)

UserCode ==
    /\ \/ QueueNothing
       \/ \E f \in Functors : QueueInLoop(f)
    /\ \/ UNCHANGED registered
       \/ \E fd \in Fds \ {EventFd} : EpollForget(fd)
       \/ \E fd \in Fds \ {EventFd}, ch \in Channels \ {WakeupChannel},
             ev \in SUBSET Events :
             EpollUpdate(fd, ch, ev)

\* One step of the callback for event k of a channel other than the wakeup one.
HandleEvent ==
    /\ \E a \in active, k \in Events :
          /\ a.ch # WakeupChannel
          /\ MayHandle(a, k)
          /\ Running(a) \/ Handled(a, k)
    /\ UserCode
    /\ UNCHANGED <<phase, functors>>

CallFunctor ==
    /\ \E f \in Functors : RunFunctor(f)
    /\ UserCode
    /\ UNCHANGED <<phase, active>>

\* The kernel reports the eventfd readable exactly when its counter is not 0.
Readiness ==
    {ready \in [Fds -> SUBSET Events] :
        ready[EventFd] \cap {"in"} = IF eventfd > 0 THEN {"in"} ELSE {}}

\* main(), between the constructor of the loop and the call of loop().
BeforeLoop ==
    /\ phase = "start"
    /\ UserCode
    /\ UNCHANGED <<phase, active, functors>>

Next ==
    \/ BeforeLoop
    \/ EnterLoop
    \/ \E ready \in Readiness : Poll(ready)
    \/ HandleWakeup
    \/ HandleEvent
    \/ DoPendingFunctors
    \/ CallFunctor
    \/ EndFunctors

Spec == Init /\ [][Next]_vars

------------------------------------------------------------------------------
(* Properties.                                                             *)

\* The variables have the types of the code's members.
TypeOK ==
    /\ phase \in {"start", "poll", "events", "functors"}
    /\ registered \subseteq Registration
    /\ active \subseteq Activation
    /\ pendingFunctors \in Seq(Functors)
    /\ functors \in Seq(Functors)
    /\ eventfd \in Nat

WakeupRegistered == [fd |-> EventFd, ch |-> WakeupChannel, ev |-> {"in"}] \in registered

\* The loop never goes to sleep on work it has been given: outside the handlers
\* a functor in pendingFunctors_ means that eventfd_ is readable and watched, so
\* that epoll_wait (whose timeout is -1) returns.  A handler that reads
\* eventfd_ after another one queued a functor is harmless only because
\* doPendingFunctors() follows in the same turn (EventLoop.cc:54-69, 76-113).
NoLostWakeup ==
    (phase # "events" /\ pendingFunctors # <<>>) => eventfd > 0 /\ WakeupRegistered

\* Everything handed to queueInLoop() runs once and in order: what is still to
\* run only ever loses its head and grows at its end, whatever the
\* swap of doPendingFunctors() does with it (EventLoop.cc:76-92).
ToRun == functors \o pendingFunctors
Grows(s) == ToRun' = s \/ \E f \in Functors : ToRun' = Append(s, f)
FunctorsInOrder == [][Grows(ToRun) \/ (ToRun # <<>> /\ Grows(Tail(ToRun)))]_vars
=============================================================================
