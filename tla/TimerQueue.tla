------------------------------ MODULE TimerQueue ------------------------------
(***************************************************************************)
(* net::TimerQueue on its event loop: runAt, runAfter and runEvery, the    *)
(* set timers_, and the timerfd that is armed for the earliest of them.    *)
(*                                                                         *)
(* Time is counted in ticks and every Timestamp is held relative to        *)
(* Timestamp::now(), so that Tick lowers all of them.  Timestamps follow   *)
(* the wall clock, the timerfd follows CLOCK_MONOTONIC: Jump sets the one  *)
(* and leaves the other alone.                                             *)
(***************************************************************************)
EXTENDS Integers, FiniteSets, Sequences

CONSTANTS
    Timers,     \* the Timer objects
    Second,     \* ticks in a second; a tick is the 100 us below which
                \* howMuchTimeFromNow does not go
    Delays,     \* the `double` delays and intervals the application asks for
    Whens,      \* the times, relative to now, it gives to runAt
    IntRange,   \* addTime multiplies in `int`: -IntRange .. IntRange - 1
    MaxLag,     \* bound: how late a timer is, is not told apart beyond it
    ClockSteps, \* by how much the wall clock may be set
    MaxJumps    \* bound: how often it is set

ASSUME SecondAssumption == Second \in Nat \ {0}
ASSUME DelaysAssumption == Delays \subseteq Nat
ASSUME WhensAssumption  == Whens \subseteq Int
ASSUME IntRangeAssumption == IntRange \in Nat \ {0}
ASSUME BoundsAssumption ==
    MaxLag \in Nat \ {0} /\ ClockSteps \subseteq Int /\ MaxJumps \in Nat

EventFd == 4
TimerFd == 5
Fds == {EventFd, TimerFd}
WakeupChannel == "wakeup"
TimerChannel  == "timer"
Channels == {WakeupChannel, TimerChannel}
MaxEvents == 1024
Functors == Timers    \* functor t is addTimerInLoop(t)

VARIABLES
    phase, registered, active, pendingFunctors, functors, eventfd, \* EventLoop
    added,        \* timers made by addTimer()
    timers,       \* timers_
    expiration,   \* Timer::expiration_, relative to now
    interval,     \* Timer::interval_, in ticks; 0: does not repeat
    expired,      \* the local `expired` of handleRead()
    toRun,        \* those of them that have still to run
    left,         \* ticks until the timerfd expires; 0 when it is not armed
    readable,     \* it has expired and has not been read
    jumps,        \* how often the wall clock has been set
    runs,         \* how often a timer has run (up to 2)
    delay,        \* the delay or interval, as asked for; 0 for runAt
    wait          \* ticks to go until the time that was asked for

Loop == INSTANCE EventLoop

loopVars  == <<phase, registered, active, pendingFunctors, functors, eventfd>>
timerVars == <<added, timers, expiration, interval, expired, toRun, left, readable>>
history   == <<jumps, runs, delay, wait>>
vars == <<loopVars, timerVars, history>>

Larger(a, b) == IF a >= b THEN a ELSE b

Init ==
    /\ Loop!Init
    /\ added = {} /\ timers = {} /\ expired = {} /\ toRun = {}
    /\ expiration = [t \in Timers |-> 0]
    /\ interval = [t \in Timers |-> 0]
    /\ left = 0
    /\ readable = FALSE
    /\ jumps = 0
    /\ runs = [t \in Timers |-> 0]
    /\ delay = [t \in Timers |-> 0]
    /\ wait = [t \in Timers |-> 0]

------------------------------------------------------------------------------
(* Arithmetic on time.                                                     *)

\* A double passed as `int interval` loses its fraction.
WholeSeconds(d) == (d \div Second) * Second

\* addTime(now, interval): the product is computed in int and wraps.
AddTime(d) == ((d + IntRange) % (2 * IntRange)) - IntRange

\* What this takes from the delay: the fraction of a second, or when the product
\* overflows there is no saying how much.
Lost(d) == IF WholeSeconds(d) < IntRange THEN d % Second ELSE d

Repeats(t) == interval[t] > 0

\* timers_ is ordered by expiration.
Earliest(S, exp) == CHOOSE e \in {exp[t] : t \in S} : \A t \in S : e <= exp[t]

\* Variant of ResetTimerfd: no minimum for a time that has passed.
ResetTimerfdUnclamped(when) ==
    /\ left' = Larger(when, 0)
    /\ readable' = FALSE

\* resetTimerfd: settime discards an expiration that has not been read, and
\* arms for no less than one tick.
ResetTimerfd(when) ==
    /\ left' = Larger(when, 1)
    /\ readable' = FALSE

------------------------------------------------------------------------------
(* Adding timers.                                                          *)

\* Variant of AddTimer: does not wake the loop.
AddTimerUnwoken(t, when, period) ==
    /\ t \in Timers \ added
    /\ added' = added \cup {t}
    /\ expiration' = [expiration EXCEPT ![t] = Larger(when, -MaxLag)]
    /\ interval' = [interval EXCEPT ![t] = period]
    /\ pendingFunctors' = Append(pendingFunctors, t)
    /\ UNCHANGED eventfd

\* addTimer(cb, when, interval): new Timer, then queueInLoop(addTimerInLoop).
AddTimer(t, when, period) ==
    /\ t \in Timers \ added
    /\ added' = added \cup {t}
    /\ expiration' = [expiration EXCEPT ![t] = Larger(when, -MaxLag)]
    /\ interval' = [interval EXCEPT ![t] = period]
    /\ Loop!QueueInLoop(t)

\* A call of runAt, runAfter or runEvery; `w` with t added records the time that
\* its caller asks for.
NewTimer(t, w) ==
    \/ \E when \in Whens :
          /\ AddTimer(t, when, 0)
          /\ delay' = [delay EXCEPT ![t] = 0]
          /\ wait' = [w EXCEPT ![t] = Larger(when, 0)]
    \/ \E d \in Delays :
          /\ \E period \in {0, WholeSeconds(d)} :
                AddTimer(t, AddTime(WholeSeconds(d)), period)
          /\ delay' = [delay EXCEPT ![t] = d]
          /\ wait' = [w EXCEPT ![t] = d]

\* The constructors of EventLoop and TimerQueue register the timerfd.
Construct ==
    /\ phase = "start"
    /\ Loop!EpollUpdate(TimerFd, TimerChannel, {"in"})
    /\ UNCHANGED <<phase, active, pendingFunctors, functors, eventfd>>
    /\ UNCHANGED <<timerVars, history>>

Constructed == \E r \in registered : r.ch = TimerChannel

\* main() adds a timer before it calls loop().
AddBeforeLoop ==
    /\ phase = "start"
    /\ Constructed
    /\ \E t \in Timers : NewTimer(t, wait)
    /\ UNCHANGED <<phase, registered, active, functors>>
    /\ UNCHANGED <<timers, expired, toRun, left, readable, jumps, runs>>

EnterLoop ==
    /\ Constructed
    /\ Loop!EnterLoop
    /\ UNCHANGED <<timerVars, history>>

\* Variant of Insert: arms for the new timer even if another one is earlier.
InsertArms(t) ==
    /\ timers' = timers \cup {t}
    /\ ResetTimerfd(expiration[t])

\* insert(timer), and resetTimerfd when it says that the earliest has changed.
Insert(t) ==
    /\ timers' = timers \cup {t}
    /\ IF \A s \in timers : expiration[t] < expiration[s]
       THEN ResetTimerfd(expiration[t])
       ELSE UNCHANGED <<left, readable>>

\* TimerQueue::addTimerInLoop.
AddTimerInLoop(t) ==
    /\ Loop!RunFunctor(t)
    /\ Insert(t)
    /\ UNCHANGED <<phase, registered, active, pendingFunctors, eventfd>>
    /\ UNCHANGED <<added, expiration, interval, expired, toRun, history>>

------------------------------------------------------------------------------
(* TimerQueue::handleRead.                                                 *)

\* Variants of GetExpired: takes the timers of the next tick too, does not
\* erase what it takes.
GetExpiredEarly ==
    /\ expired' = {t \in timers : expiration[t] <= 1}
    /\ timers' = timers \ expired'

GetExpiredKeeps ==
    /\ expired' = {t \in timers : expiration[t] <= 0}
    /\ UNCHANGED timers

\* getExpired(now): the timers due now leave timers_.
GetExpired ==
    /\ expired' = {t \in timers : expiration[t] <= 0}
    /\ timers' = timers \ expired'

\* readTimerfd, then getExpired(now).
BeginHandleRead ==
    /\ \E a \in active : /\ a.ch = TimerChannel /\ ~a.started
                         /\ Loop!MayHandle(a, "in")
                         /\ Loop!Running(a)
    /\ readable' = FALSE
    /\ GetExpired
    /\ toRun' = expired'
    /\ UNCHANGED <<phase, registered, pendingFunctors, functors, eventfd>>
    /\ UNCHANGED <<added, expiration, interval, left, history>>

InHandleRead == \E a \in active : a.ch = TimerChannel /\ a.started

\* Timer::run of the next expired timer; its callback may add another timer.
RunTimer(t) ==
    /\ InHandleRead
    /\ t \in toRun
    /\ \A s \in toRun : expiration[t] <= expiration[s]
    /\ toRun' = toRun \ {t}
    /\ runs' = [runs EXCEPT ![t] = IF @ < 2 THEN @ + 1 ELSE @]
    /\ LET w == [wait EXCEPT ![t] = IF Repeats(t) THEN delay[t] ELSE 0] IN
       \/ /\ Loop!QueueNothing
          /\ wait' = w
          /\ UNCHANGED <<added, expiration, interval, delay>>
       \/ \E s \in Timers : NewTimer(s, w)
    /\ UNCHANGED <<phase, registered, active, functors>>
    /\ UNCHANGED <<timers, expired, left, readable, jumps>>

\* Variant of Rearm: reset() leaves the timerfd as it is.
RearmNever == UNCHANGED <<left, readable>>

\* The end of reset(): arm for the earliest timer.
Rearm ==
    IF timers' # {}
    THEN ResetTimerfd(Earliest(timers', expiration'))
    ELSE UNCHANGED <<left, readable>>

\* reset(): restart and insert those that repeat, then arm for the earliest.
\* The one-shot timers are dropped (and not deleted).
Reset ==
    LET again == {t \in expired : Repeats(t)} IN
    /\ toRun = {}
    /\ \E a \in active : /\ a.ch = TimerChannel /\ a.started
                         /\ Loop!MayHandle(a, "in")
                         /\ Loop!Handled(a, "in")
    /\ expiration' = [t \in Timers |->
          IF t \in again THEN Larger(AddTime(interval[t]), -MaxLag)
          ELSE IF t \in expired THEN 0 ELSE expiration[t]]
    /\ timers' = timers \cup again
    /\ expired' = {}
    /\ Rearm
    /\ UNCHANGED <<phase, registered, pendingFunctors, functors, eventfd>>
    /\ UNCHANGED <<added, interval, toRun, history>>

------------------------------------------------------------------------------
(* The rest of the loop.                                                   *)

Readiness == [f \in Fds |->
    CASE f = EventFd -> IF eventfd > 0 THEN {"in", "out"} ELSE {"out"}
      [] f = TimerFd -> IF readable THEN {"in"} ELSE {}]

Poll == Loop!Poll(Readiness) /\ UNCHANGED <<timerVars, history>>
HandleWakeup == Loop!HandleWakeup /\ UNCHANGED <<timerVars, history>>
DoPendingFunctors == Loop!DoPendingFunctors /\ UNCHANGED <<timerVars, history>>
EndFunctors == Loop!EndFunctors /\ UNCHANGED <<timerVars, history>>

LoopNext ==
    \/ Construct
    \/ AddBeforeLoop
    \/ EnterLoop
    \/ Poll
    \/ HandleWakeup
    \/ BeginHandleRead
    \/ \E t \in Timers : RunTimer(t)
    \/ Reset
    \/ DoPendingFunctors
    \/ \E t \in Timers : AddTimerInLoop(t)
    \/ EndFunctors

------------------------------------------------------------------------------
(* The clocks.                                                             *)

Queued == {t \in Timers : \E i \in 1 .. Len(functors \o pendingFunctors) :
                            (functors \o pendingFunctors)[i] = t}

\* The wall clock is d ticks later, as far as the timestamps still in use say.
Later(d) ==
    expiration' = [t \in Timers |->
        IF t \in timers \cup toRun \cup Queued
        THEN Larger(expiration[t] - d, -MaxLag) ELSE expiration[t]]

\* A tick passes on both clocks.
Tick ==
    /\ Later(1)
    /\ left' = Larger(left - 1, 0)
    /\ readable' = (readable \/ left = 1)
    /\ wait' = [t \in Timers |-> Larger(wait[t] - 1, 0)]
    /\ UNCHANGED <<loopVars, added, timers, interval, expired, toRun, jumps, runs, delay>>

\* Somebody sets the wall clock.
Jump ==
    /\ jumps < MaxJumps
    /\ jumps' = jumps + 1
    /\ \E d \in ClockSteps : Later(d)
    /\ UNCHANGED <<loopVars, added, timers, interval, expired, toRun, left, readable>>
    /\ UNCHANGED <<runs, delay, wait>>

------------------------------------------------------------------------------
Next == LoopNext \/ Tick \/ Jump

Spec == Init /\ [][Next]_vars

\* The thread keeps running, user callbacks return, and time passes.
Fairness == WF_vars(LoopNext) /\ WF_vars(Tick)

FairSpec == Spec /\ Fairness

------------------------------------------------------------------------------
(* Properties.                                                             *)

\* The variables have the types of the code's members.
TypeOK ==
    /\ Loop!TypeOK
    /\ added \subseteq Timers
    /\ timers \subseteq added
    /\ expiration \in [Timers -> Int]
    /\ interval \in [Timers -> Nat]
    /\ expired \subseteq added
    /\ toRun \subseteq expired
    /\ left \in Nat
    /\ readable \in BOOLEAN
    /\ jumps \in 0 .. MaxJumps
    /\ runs \in [Timers -> 0 .. 2]
    /\ delay \in [Timers -> Nat]
    /\ wait \in [Timers -> Nat]

\* The thread is the event loop of EventLoop.tla (EventLoop.cc:54-113).
ImplementsLoop == Loop!Spec

\* No timer is forgotten: whenever timers_ is not empty and handleRead() is
\* not at work, the timerfd is armed or waits to be read.  Arming for a time
\* that has passed must not disarm it, which an it_value of 0 would do
\* (TimerQueue.cc:27-61, 106-113, 125-148).
NeverUnarmed == (timers # {} /\ ~InHandleRead) => (left > 0 \/ readable)

\* While nobody sets the wall clock the timerfd expires at the expiration of
\* the earliest timer, or a tick from when it was armed if that had passed;
\* it becomes readable for that timer and not before.  insert() and reset()
\* must agree on which timer is the earliest (TimerQueue.cc:106-168).
ArmedForEarliest ==
    (jumps = 0 /\ timers # {} /\ ~InHandleRead) =>
        IF readable THEN Earliest(timers, expiration) <= 0
        ELSE left = Larger(Earliest(timers, expiration), 1)

\* A timer that was added is in one place - a functor, timers_ or the batch
\* that handleRead() works on - until it is a one-shot that has run, and a
\* one-shot runs once (TimerQueue.cc:84-148).
OnePlaceEach ==
    /\ TypeOK
    /\ Queued \cap timers = {} /\ Queued \cap expired = {} /\ timers \cap expired = {}
    /\ \A t \in added :
          /\ t \in Queued \cup timers \cup expired \/ (~Repeats(t) /\ runs[t] = 1)
          /\ ~Repeats(t) /\ t \notin expired \ toRun => runs[t] = 0 \/ t \notin Queued \cup timers \cup toRun
          /\ ~Repeats(t) => runs[t] <= 1

\* While nobody sets the wall clock, no timer runs before the time its caller asked
\* for, and a repeating one never again before its whole interval has passed -
\* restart() counts from the end of the batch - but for what the conversion to
\* int takes: runAfter(1.5) may run after a second, and a delay that overflows
\* the arithmetic of addTime at once.  Nothing else may be lost, neither in the
\* queue nor with the timerfd (EventLoop.cc:120-130, TimerQueue.cc:91-135,
\* Timer.cc:6-16, Timestamp.h:73-77).
NotTooSoon == [][\A t \in toRun \ toRun' : jumps = 0 => wait[t] <= Lost(delay[t])]_vars

\* Every timer runs, and one that repeats runs again and again, however the
\* wall clock is set (TimerQueue.cc:91-148).
EveryTimerRuns ==
    \A t \in Timers :
        /\ t \in added ~> runs[t] > 0
        /\ (t \in added /\ Repeats(t)) ~> t \in toRun
=============================================================================
