------------------------------ MODULE LoopThreads ------------------------------
(***************************************************************************)
(* net::EventLoopThread and net::EventLoopThreadPool: a thread that runs   *)
(* an event loop of its own on its stack, and a pool of them whose loops   *)
(* are handed out in turn.  The owner of the pool runs the base loop and   *)
(* gives work to the others with queueInLoop(), which takes no lock: it is *)
(* a push_back on a plain vector, then a write to the eventfd.             *)
(*                                                                         *)
(* A turn of a loop is reduced to what queueInLoop() from another thread   *)
(* meets: the wait for the eventfd, the swap, and the functors that run.   *)
(* Module EventLoop has the rest of it.                                    *)
(***************************************************************************)
EXTENDS Threads, Sequences, FiniteSets, SequencesExt

CONSTANTS
    Pool,       \* the EventLoopThreads setThreadNum() may ask for, in order
    Plain,      \* Thread objects used on their own
    Base,       \* baseLoop_, run by the owner of the pool
    Tasks,      \* the functors
    Program,    \* the tasks that handlers of the base loop hand out, in order
    Child       \* the tasks a task queues when it runs: a sequence of at most one

Workers == Range(Pool)
Loops   == Workers \cup {Base}

ASSUME ObjectsAssumption == Threads = Workers \cup Plain /\ Base \notin Threads
ASSUME OrderAssumption   == Pool \in Seq(Workers) /\ IsInjective(Pool) /\ Workers \cap Plain = {}
ASSUME TasksAssumption   == Program \in Seq(Tasks) /\ Child \in [Tasks -> Seq(Tasks)]

VARIABLES
    numThreads,   \* numThreads_
    main,         \* the owner: "new", "starting" (a new EventLoopThread),
                  \* "waitLoop" and "onCond" in startLoop(), "started",
                  \* "destroying", "destroyed"
    failed,       \* pthread_create has failed
    loops,        \* loops_
    next,         \* next_, counted from 0
    published,    \* the loop threads whose loop_ is set
    turn,         \* loop thread: "none", "poll", "swap", "run"
    counter,      \* of the eventfd: whether it is above 0
    pending,      \* pendingFunctors_
    functors,     \* the local vector of doPendingFunctors
    pushing,      \* the queueInLoop() call a loop thread is in: <<>>, or
                  \* <<task, loop, "push" or "wake">>
    todo,         \* what is left of Program
    handed,       \* how often getNextLoop() has returned a loop
    ran,          \* the tasks that have run
    raced,        \* the loops on whose vector two threads have been at once
    crashed       \* a corrupt vector has ended the process

poolVars == <<numThreads, main, failed, loops, next, published>>
loopVars == <<turn, counter, pending, functors, pushing, ran, raced, crashed>>
vars     == <<threadVars, poolVars, loopVars, todo, handed>>

Init ==
    /\ ThreadsInit
    /\ numThreads \in 0..Len(Pool)
    /\ main = "new"
    /\ failed = FALSE
    /\ loops = <<>>
    /\ next = 0
    /\ published = {}
    /\ turn = [l \in Loops |-> "none"]
    /\ counter = [l \in Loops |-> FALSE]
    /\ pending = [l \in Loops |-> <<>>]
    /\ functors = [l \in Loops |-> <<>>]
    /\ pushing = [l \in Loops |-> <<>>]
    /\ todo = Program
    /\ handed = [l \in Loops |-> 0]
    /\ ran = {}
    /\ raced = {}
    /\ crashed = FALSE

------------------------------------------------------------------------------
(* EventLoopThreadPool::start and EventLoopThread::startLoop.              *)

NewThread == Pool[Len(loops) + 1]    \* what the for loop is at

\* setThreadNum() is over and start() begins; it returns when its for loop has
\* made all the threads, and the owner enters the base loop.
PoolStart ==
    /\ main = "new"
    /\ IF numThreads = 0
       THEN main' = "started" /\ turn' = [turn EXCEPT ![Base] = "poll"]
       ELSE main' = "starting" /\ UNCHANGED turn
    /\ UNCHANGED <<threadVars, numThreads, failed, loops, next, published, counter, pending,
                   functors, pushing, ran, raced, crashed, todo, handed>>

\* startLoop() calls Thread::start.
StartLoop ==
    /\ main = "starting"
    /\ \/ Start(NewThread) /\ main' = "waitLoop" /\ UNCHANGED failed
       \/ StartFails(NewThread) /\ main' = "waitLoop" /\ failed' = TRUE
    /\ UNCHANGED <<numThreads, loops, next, published, loopVars, todo, handed>>

\* The while over loop_, once Thread::start has returned; then push_back.
WaitLoop ==
    /\ main = "waitLoop"
    /\ owner[NewThread] = "started" \/ failed
    /\ IF NewThread \notin published
       THEN main' = "onCond" /\ UNCHANGED <<loops, turn>>
       ELSE /\ loops' = Append(loops, NewThread)
            /\ IF Len(loops') < numThreads
               THEN main' = "starting" /\ UNCHANGED turn
               ELSE main' = "started" /\ turn' = [turn EXCEPT ![Base] = "poll"]
    /\ UNCHANGED <<threadVars, numThreads, failed, next, published, counter, pending,
                   functors, pushing, ran, raced, crashed, todo, handed>>

SpuriousLoop ==
    /\ main = "onCond"
    /\ main' = "waitLoop"
    /\ UNCHANGED <<threadVars, numThreads, failed, loops, next, published, loopVars, todo, handed>>

\* Variant of Publish: wakes nobody.
PublishSilently(t) ==
    /\ thread[t] = "running"
    /\ turn[t] = "none"
    /\ published' = published \cup {t}
    /\ turn' = [turn EXCEPT ![t] = "poll"]
    /\ UNCHANGED <<threadVars, numThreads, main, failed, loops, next, counter, pending,
                   functors, pushing, ran, raced, crashed, todo, handed>>

\* threadFunc() up to loop.loop(): constructs the loop, sets loop_ and notifies.
Publish(t) ==
    /\ thread[t] = "running"
    /\ turn[t] = "none"
    /\ published' = published \cup {t}
    /\ main' = IF main = "onCond" /\ NewThread = t THEN "waitLoop" ELSE main
    /\ turn' = [turn EXCEPT ![t] = "poll"]
    /\ UNCHANGED <<threadVars, numThreads, failed, loops, next, counter, pending,
                   functors, pushing, ran, raced, crashed, todo, handed>>

------------------------------------------------------------------------------
(* Handing out loops.  That is done in the thread of the base loop, as the *)
(* assertions say that EventLoopThreadPool.cc has commented out: the       *)
(* thread that calls start().                                              *)

\* Variant of Advance: leaves the last loop out.
AdvanceEarly == IF next + 1 >= Len(loops) - 1 THEN 0 ELSE next + 1

\* next_ after a call of getNextLoop().
Advance == IF next + 1 >= Len(loops) THEN 0 ELSE next + 1

\* The loop of getLoopForHash().
LoopForHash(hash) == IF loops = <<>> THEN Base ELSE loops[(hash % Len(loops)) + 1]

Idle(l) == turn[l] = "poll" /\ pushing[l] = <<>>

\* A handler of the base loop takes the next loop and queues a task there.
Dispatch ==
    /\ main = "started"
    /\ Idle(Base)
    /\ todo # <<>>
    /\ LET l == IF loops = <<>> THEN Base ELSE loops[next + 1] IN
       /\ next' = IF loops = <<>> THEN next ELSE Advance
       /\ handed' = [handed EXCEPT ![l] = @ + 1]
       /\ pushing' = [pushing EXCEPT ![Base] = <<Head(todo), l, "push">>]
    /\ todo' = Tail(todo)
    /\ turn' = [turn EXCEPT ![Base] = "swap"]
    /\ UNCHANGED <<threadVars, numThreads, main, failed, loops, published, counter, pending,
                   functors, ran, raced, crashed>>

------------------------------------------------------------------------------
(* queueInLoop() by loop thread x, and the turn of the loop it is called   *)
(* on.  While x is at "push" it is inside push_back.                       *)

InPush(x)  == pushing[x] # <<>> /\ pushing[x][3] = "push"
Pushers(l) == {x \in Loops : InPush(x) /\ pushing[x][2] = l}

\* What two threads at once in the vector of l leave behind is undefined, then
\* and later: the process may end.
RaceIf(l, together) ==
    /\ raced' = IF together THEN raced \cup {l} ELSE raced
    /\ crashed' \in {c \in BOOLEAN : c => l \in raced'}

\* push_back returns; after a race the element may be lost.
PushEnds(x) ==
    /\ InPush(x)
    /\ LET task == pushing[x][1]
           l    == pushing[x][2] IN
       /\ RaceIf(l, Pushers(l) # {x})
       /\ \/ pending' = [pending EXCEPT ![l] = Append(@, task)]
          \/ l \in raced' /\ UNCHANGED pending
    /\ pushing' = [pushing EXCEPT ![x][3] = "wake"]
    /\ UNCHANGED <<threadVars, poolVars, turn, counter, functors, ran, todo, handed>>

\* Variant of Wakeup: writes to the eventfd only for a loop that is asleep.
WakeupAsleep(x) ==
    /\ pushing[x] # <<>> /\ pushing[x][3] = "wake"
    /\ counter' = [counter EXCEPT ![pushing[x][2]] = @ \/ Idle(pushing[x][2])]
    /\ pushing' = [pushing EXCEPT ![x] = <<>>]
    /\ UNCHANGED <<threadVars, poolVars, turn, pending, functors, ran, raced, crashed, todo, handed>>

Wakeup(x) ==
    /\ pushing[x] # <<>> /\ pushing[x][3] = "wake"
    /\ counter' = [counter EXCEPT ![pushing[x][2]] = TRUE]
    /\ pushing' = [pushing EXCEPT ![x] = <<>>]
    /\ UNCHANGED <<threadVars, poolVars, turn, pending, functors, ran, raced, crashed, todo, handed>>

\* epoll_wait returns the eventfd, and handleRead() resets it.
HandleWakeup(l) ==
    /\ Idle(l)
    /\ counter[l]
    /\ counter' = [counter EXCEPT ![l] = FALSE]
    /\ turn' = [turn EXCEPT ![l] = "swap"]
    /\ UNCHANGED <<threadVars, poolVars, pending, functors, pushing, ran, raced, crashed, todo, handed>>

\* The swap, with no regard to a push_back of another thread: the local vector
\* may then be empty, or hold the element that is being pushed.
DoPendingFunctors(l) ==
    /\ turn[l] = "swap"
    /\ pushing[l] = <<>>
    /\ turn' = [turn EXCEPT ![l] = "run"]
    /\ RaceIf(l, Pushers(l) # {})
    /\ \E batch \in {pending[l]} \cup
           (IF l \in raced'
            THEN {<<>>} \cup {Append(pending[l], pushing[x][1]) : x \in Pushers(l)} ELSE {}) :
       functors' = [functors EXCEPT ![l] = batch]
    /\ pending' = [pending EXCEPT ![l] = <<>>]
    /\ UNCHANGED <<threadVars, poolVars, counter, pushing, ran, todo, handed>>

\* The next functor runs; it may queue its child on the loop that its hash,
\* here the number of tasks that have run, selects.
RunFunctor(l) ==
    /\ turn[l] = "run"
    /\ pushing[l] = <<>>
    /\ functors[l] # <<>>
    /\ LET task == Head(functors[l]) IN
       /\ ran' = ran \cup {task}
       /\ IF Child[task] = <<>>
          THEN UNCHANGED pushing
          ELSE pushing' = [pushing EXCEPT ![l] =
                   <<Head(Child[task]), LoopForHash(Cardinality(ran)), "push">>]
    /\ functors' = [functors EXCEPT ![l] = Tail(@)]
    /\ UNCHANGED <<threadVars, poolVars, turn, counter, pending, raced, crashed, todo, handed>>

EndTurn(l) ==
    /\ turn[l] = "run"
    /\ pushing[l] = <<>>
    /\ functors[l] = <<>>
    /\ turn' = [turn EXCEPT ![l] = "poll"]
    /\ UNCHANGED <<threadVars, poolVars, counter, pending, functors, pushing, ran, raced, crashed,
                   todo, handed>>

------------------------------------------------------------------------------
(* The end of the pool: ~EventLoopThread for each of its threads.          *)

\* A handler of the base loop destroys the pool, or an owner that has not
\* started it does.
DestroyPool ==
    /\ \/ main = "new"
       \/ main = "started" /\ Idle(Base)
    /\ main' = IF loops = <<>> THEN "destroyed" ELSE "destroying"
    /\ UNCHANGED <<threadVars, numThreads, failed, loops, next, published, loopVars, todo, handed>>

\* Variant of JoinLoop: the destructor does not join.
JoinLoopForgotten(t) ==
    /\ main = "destroying"
    /\ t = loops[1]
    /\ Destroy(t)
    /\ UNCHANGED <<poolVars, loopVars, todo, handed>>

\* loop_ is set, so the destructor joins; the loop was not told to quit.
JoinLoop(t) ==
    /\ main = "destroying"
    /\ t = loops[1]
    /\ Join(t)
    /\ UNCHANGED <<poolVars, loopVars, todo, handed>>

------------------------------------------------------------------------------

\* An EventLoopThread runs threadFunc(), which never returns: nothing sets quit_.
LoopThread(t) ==
    \/ Handshake(t) /\ UNCHANGED <<poolVars, loopVars, todo, handed>>
    \/ Publish(t)

Latch(t) == LatchWait(t) /\ UNCHANGED <<poolVars, loopVars, todo, handed>>

\* The owner inside start(): nothing can stop it but a thread that it waits for.
Starting == StartLoop \/ WaitLoop

\* A turn of the base loop belongs to the owner, who leaves it to destroy the pool.
Turn(l) ==
    /\ l = Base => main = "started"
    /\ \/ PushEnds(l) \/ Wakeup(l)
       \/ HandleWakeup(l) \/ DoPendingFunctors(l) \/ RunFunctor(l) \/ EndTurn(l)

\* A Thread of which the application is the owner.
PlainNext(t) ==
    /\ \/ Start(t) \/ StartFails(t) \/ Join(t) \/ Joined(t) \/ Destroy(t)
       \/ Handshake(t) \/ FuncReturns(t)
    /\ UNCHANGED <<poolVars, loopVars, todo, handed>>

Next ==
    /\ ~crashed
    /\ \/ PoolStart
       \/ Starting
       \/ SpuriousLoop
       \/ Dispatch
       \/ DestroyPool
       \/ \E t \in Workers : LoopThread(t) \/ JoinLoop(t)
       \/ \E t \in Threads : Latch(t)
       \/ \E t \in Threads : LatchSpurious(t) /\ UNCHANGED <<poolVars, loopVars, todo, handed>>
       \/ \E t \in Plain : PlainNext(t)
       \/ \E l \in Loops : Turn(l)

Spec == Init /\ [][Next]_vars

\* Threads are scheduled.  Handing out work, destroying and spurious wakeups are
\* left to themselves.
Fairness ==
    /\ WF_vars(~crashed /\ Starting)
    /\ \A t \in Workers : WF_vars(~crashed /\ LoopThread(t)) /\ WF_vars(~crashed /\ Latch(t))
    /\ \A l \in Loops : WF_vars(~crashed /\ Turn(l))

FairSpec == Spec /\ Fairness

------------------------------------------------------------------------------

\* The variables have the types of the members and of the threads' places in the code.
TypeOK ==
    /\ owner \in [Threads -> {"new", "latch", "waiting", "started", "joining", "joined", "destroyed"}]
    /\ count \in [Threads -> 0..1]
    /\ tid \in [Threads -> BOOLEAN]
    /\ thread \in [Threads -> {"none", "created", "tidSet", "running", "ended"}]
    /\ numThreads \in 0..Len(Pool)
    /\ main \in {"new", "starting", "waitLoop", "onCond", "started", "destroying", "destroyed"}
    /\ failed \in BOOLEAN
    /\ loops \in Seq(Workers)
    /\ next \in Nat
    /\ published \in SUBSET Workers
    /\ turn \in [Loops -> {"none", "poll", "swap", "run"}]
    /\ counter \in [Loops -> BOOLEAN]
    /\ pending \in [Loops -> Seq(Tasks)]
    /\ functors \in [Loops -> Seq(Tasks)]
    /\ pushing \in [Loops -> {<<>>} \cup (Tasks \X Loops \X {"push", "wake"})]
    /\ todo \in Seq(Tasks)
    /\ handed \in [Loops -> Nat]
    /\ ran \in SUBSET Tasks
    /\ raced \in SUBSET Loops
    /\ crashed \in BOOLEAN

\* Threads hold plain pointers into each other's objects.  A new thread writes
\* tid_ and latch_ of a Thread only while its start() has not returned; start()
\* returns with tid_ set (the assertion of Thread.cc:170); the loop of a
\* loop thread lives on its stack and its mutex_ in the EventLoopThread, so
\* neither may go while the loop is handed out or the thread runs.
PointersLive ==
    /\ TypeOK
    /\ \A t \in Threads :
        /\ thread[t] \in {"created", "tidSet"} => owner[t] \in {"latch", "waiting"}
        /\ owner[t] \in {"started", "joining", "joined"} => tid[t]
    /\ \A t \in Workers : thread[t] = "running" => owner[t] # "destroyed"
    /\ \A l \in Range(loops) : l \in published /\ thread[l] = "running"

\* getNextLoop() gives every loop that start() has made the same share, whatever
\* queueInLoop() and the other threads do meanwhile: next_ wraps at the number of
\* loops (EventLoopThreadPool.cc:49-57).  The thread of the base loop hands them
\* out, and it is inside start() until all of them are made.
LoopsBalanced == \A k, l \in Range(loops) : handed[k] - handed[l] \in -1..1

\* EventLoopThreadPool::start returns, through two handshakes for each thread,
\* unless a thread could not be created: startLoop() then waits for ever.
StartReturns == main = "starting" ~> (main = "started" \/ failed)

\* A functor that another thread, or the loop's own, gives to queueInLoop() runs,
\* unless two threads were in the vector at the same time: push_back, then the
\* write to the eventfd needs no lock to wake the loop.
FunctorsRun ==
    \A task \in Tasks, l \in Loops :
        (\E x \in Loops : pushing[x] = <<task, l, "push">>)
            ~> \/ task \in ran \/ l \in raced \/ crashed
               \/ l = Base /\ main # "started"
================================================================================
