------------------------------ MODULE ThreadPool ------------------------------
(***************************************************************************)
(* base::ThreadPool: worker threads that take tasks from a queue, bounded  *)
(* when maxQueueSize_ > 0, and threads that submit tasks with run().  A    *)
(* task may submit tasks itself.                                           *)
(*                                                                         *)
(* A stretch of code under mutex_ is one step; it ends where the thread    *)
(* waits on a condition or unlocks.  A thread that waits is in the wait    *)
(* set of the condition until notify() picks it, notifyAll() or a spurious *)
(* wakeup; it then evaluates its while loop again.                         *)
(***************************************************************************)
EXTENDS Integers, FiniteSets, Sequences

CONSTANTS
    Workers,        \* the threads start() may create
    Producers,      \* other threads that call run()
    Tasks,          \* every task there is; each is submitted at most once
    MaxQueueSize,   \* maxQueueSize_; 0 when the queue is unbounded
    Program,        \* the tasks a producer submits, in order
    Children        \* the tasks a task submits when it is executed, in order

ASSUME ThreadsAssumption == Workers \cap Producers = {} /\ IsFiniteSet(Workers)
ASSUME MaxQueueSizeAssumption == MaxQueueSize \in Nat
ASSUME ProgramAssumption  == Program \in [Producers -> Seq(Tasks)]
ASSUME ChildrenAssumption == Children \in [Tasks -> Seq(Tasks)]
\* Every call of run() is given a function object of its own.
ASSUME OnceAssumption ==
    /\ \A p, q \in Producers : \A i \in 1 .. Len(Program[p]), j \in 1 .. Len(Program[q]) :
          Program[p][i] = Program[q][j] => p = q /\ i = j
    /\ \A t, u \in Tasks : \A i \in 1 .. Len(Children[t]), j \in 1 .. Len(Children[u]) :
          Children[t][i] = Children[u][j] => t = u /\ i = j
    /\ \A p \in Producers, t \in Tasks : \A i \in 1 .. Len(Program[p]), j \in 1 .. Len(Children[t]) :
          Program[p][i] # Children[t][j]

Threads == Workers \cup Producers

VARIABLES
    running,     \* running_
    numThreads,  \* the argument of start()
    threads,     \* threads_: the workers put in the vector so far, in order
    queue,       \* queue_
    notEmpty,    \* wait set of notEmpty_
    notFull,     \* wait set of notFull_
    owner,       \* the thread that called start(): "new", "starting", "started",
                 \* "joining", "stopped", or "aborted" by an assertion
    pc,          \* worker: "none"; "new" until pthread_create, which makes it
                 \* "loop" or "failed"; "take", "task", "exited";
                 \* producer: "task".  "run" is inside run().
    todo,        \* tasks that the thread has still to submit
    submitted,   \* tasks ever put in the queue, in order
    begun,       \* tasks ever taken from it, in order
    inline,      \* tasks executed by run() itself
    dropped      \* tasks that run() returned without having queued

vars == <<running, numThreads, threads, queue, notEmpty, notFull, owner, pc, todo,
          submitted, begun, inline, dropped>>

clientVars == <<submitted, begun, inline, dropped>>

Init ==
    /\ running = FALSE
    /\ numThreads = 0
    /\ threads = <<>>
    /\ queue = <<>>
    /\ notEmpty = {}
    /\ notFull = {}
    /\ owner = "new"
    /\ pc = [th \in Threads |-> IF th \in Workers THEN "none" ELSE "task"]
    /\ todo = [th \in Threads |-> IF th \in Producers THEN Program[th] ELSE <<>>]
    /\ submitted = <<>>
    /\ begun = <<>>
    /\ inline = {}
    /\ dropped = {}

\* Condition::notify: one of the threads that wait, if any.
Notify(cond) ==
    IF cond = {} THEN cond' = {} ELSE \E th \in cond : cond' = cond \ {th}

\* abort() ends every thread.
Alive == owner # "aborted"

isFull == MaxQueueSize > 0 /\ Len(queue) >= MaxQueueSize

------------------------------------------------------------------------------
(* start() and stop(), both called by the thread that owns the pool.       *)

Start ==
    /\ owner = "new"
    /\ running' = TRUE
    /\ numThreads' \in 0 .. Cardinality(Workers)
    /\ owner' = "starting"
    /\ UNCHANGED <<threads, queue, notEmpty, notFull, pc, todo, clientVars>>

Starting == \E i \in DOMAIN threads : pc[threads[i]] = "new"

\* threads_.emplace_back(new Thread): from here on run() queues its task.
EmplaceThread(w) ==
    /\ owner = "starting" /\ ~Starting
    /\ Len(threads) < numThreads
    /\ pc[w] = "none"
    /\ threads' = Append(threads, w)
    /\ pc' = [pc EXCEPT ![w] = "new"]
    /\ UNCHANGED <<running, numThreads, queue, notEmpty, notFull, owner, todo, clientVars>>

\* Thread::start: waits for the thread to run - w works while start() creates
\* the others - or returns in silence when pthread_create fails.
StartThread(w) ==
    /\ owner = "starting"
    /\ pc[w] = "new"
    /\ \E at \in {"loop", "failed"} : pc' = [pc EXCEPT ![w] = at]
    /\ UNCHANGED <<running, numThreads, threads, queue, notEmpty, notFull, owner, todo, clientVars>>

\* start(numThreads) returns.
Started ==
    /\ owner = "starting" /\ ~Starting
    /\ Len(threads) = numThreads
    /\ owner' = "started"
    /\ UNCHANGED <<running, numThreads, threads, queue, notEmpty, notFull, pc, todo, clientVars>>

\* Variant of Stop: does not wake the threads in run().
StopUnnotified ==
    /\ owner = "started"
    /\ owner' = "joining"
    /\ running' = FALSE
    /\ notEmpty' = {}
    /\ UNCHANGED <<numThreads, threads, queue, notFull, pc, todo, clientVars>>

\* stop(), up to the unlock; ~ThreadPool calls it when running_ is still set.
Stop ==
    /\ owner = "started"
    /\ owner' = "joining"
    /\ running' = FALSE
    /\ notEmpty' = {}
    /\ notFull' = {}
    /\ UNCHANGED <<numThreads, threads, queue, pc, todo, clientVars>>

\* Every thr->join() has returned.
Joined ==
    /\ owner = "joining"
    /\ \A i \in DOMAIN threads : pc[threads[i]] = "exited"
    /\ owner' = "stopped"
    /\ UNCHANGED <<running, numThreads, threads, queue, notEmpty, notFull, pc, todo, clientVars>>

\* The loop comes to a thread that never started: assert(started_) of join().
JoinFails ==
    /\ owner = "joining"
    /\ \E i \in DOMAIN threads :
          /\ pc[threads[i]] = "failed"
          /\ \A j \in 1 .. (i - 1) : pc[threads[j]] = "exited"
    /\ owner' = "aborted"
    /\ UNCHANGED <<running, numThreads, threads, queue, notEmpty, notFull, pc, todo, clientVars>>

------------------------------------------------------------------------------
(* run(), called by a producer or by a worker within a task.               *)

\* The values threads_.empty() may have.  It is read without the lock, so while
\* start() works on the vector - reserve() moves its ends - it may be either.
ThreadsEmpty ==
    IF owner = "starting" /\ numThreads > 0 /\ threads = <<>> THEN BOOLEAN ELSE {threads = <<>>}

\* Variant of CallRun: goes on to queue the task that it has executed.
CallRunBoth(th) ==
    /\ pc[th] = "task"
    /\ todo[th] # <<>>
    /\ \E empty \in ThreadsEmpty : inline' = IF empty THEN inline \cup {Head(todo[th])} ELSE inline
    /\ pc' = [pc EXCEPT ![th] = "run"]
    /\ UNCHANGED <<running, numThreads, threads, queue, notEmpty, notFull, owner, todo, submitted, begun, dropped>>

\* The next call of run(), which may be made at any time, also during start().
CallRun(th) ==
    /\ pc[th] = "task"
    /\ todo[th] # <<>>
    /\ LET task == Head(todo[th]) IN
       \/ \* task() is executed here, and what it submits first
          /\ TRUE \in ThreadsEmpty
          /\ todo' = [todo EXCEPT ![th] = Children[task] \o Tail(@)]
          /\ inline' = inline \cup {task}
          /\ UNCHANGED pc
       \/ /\ FALSE \in ThreadsEmpty
          /\ pc' = [pc EXCEPT ![th] = "run"]
          /\ UNCHANGED <<todo, inline>>
    /\ UNCHANGED <<running, numThreads, threads, queue, notEmpty, notFull, owner, submitted, begun, dropped>>

\* The thread holds mutex_ in run(): while(isFull() && running_) notFull_.wait().
RunWaits(th) ==
    /\ pc[th] = "run" /\ th \notin notFull
    /\ isFull /\ running
    /\ notFull' = notFull \cup {th}
    /\ UNCHANGED <<running, numThreads, threads, queue, notEmpty, owner, pc, todo, clientVars>>

\* if(!running_) return: the task is lost.
RunDrops(th) ==
    /\ pc[th] = "run" /\ th \notin notFull
    /\ ~running
    /\ pc' = [pc EXCEPT ![th] = "task"]
    /\ todo' = [todo EXCEPT ![th] = Tail(@)]
    /\ dropped' = dropped \cup {Head(todo[th])}
    /\ UNCHANGED <<running, numThreads, threads, queue, notEmpty, notFull, owner, submitted, begun, inline>>

\* Variant of NotifyPushed: the notification is forgotten.
NotifyPushedNever == UNCHANGED notEmpty

NotifyPushed == Notify(notEmpty)

\* queue_.push_back(task); notEmpty_.notify().
RunPushes(th) ==
    /\ pc[th] = "run" /\ th \notin notFull
    /\ ~isFull /\ running
    /\ queue' = Append(queue, Head(todo[th]))
    /\ submitted' = Append(submitted, Head(todo[th]))
    /\ NotifyPushed
    /\ pc' = [pc EXCEPT ![th] = "task"]
    /\ todo' = [todo EXCEPT ![th] = Tail(@)]
    /\ UNCHANGED <<running, numThreads, threads, notFull, owner, begun, inline, dropped>>

------------------------------------------------------------------------------
(* runInThread() and take(), the workers.                                  *)

\* while(running_), read without the lock.
Loop(w) ==
    /\ pc[w] = "loop"
    /\ pc' = [pc EXCEPT ![w] = IF running THEN "take" ELSE "exited"]
    /\ UNCHANGED <<running, numThreads, threads, queue, notEmpty, notFull, owner, todo, clientVars>>

\* The thread holds mutex_ in take(): while(queue_.empty() && running_)
\* notEmpty_.wait().
TakeWaits(w) ==
    /\ pc[w] = "take" /\ w \notin notEmpty
    /\ queue = <<>> /\ running
    /\ notEmpty' = notEmpty \cup {w}
    /\ UNCHANGED <<running, numThreads, threads, queue, notFull, owner, pc, todo, clientVars>>

\* Variant of NotifyPopped: notifies for a queue of more than one place only.
NotifyPoppedLate == IF MaxQueueSize > 1 THEN Notify(notFull) ELSE UNCHANGED notFull

NotifyPopped == IF MaxQueueSize > 0 THEN Notify(notFull) ELSE UNCHANGED notFull

\* Variant of TakePops: reads the front after it has been popped.
TakePopsSecond(w) ==
    /\ pc[w] = "take" /\ w \notin notEmpty
    /\ queue # <<>>
    /\ queue' = Tail(queue)
    /\ begun' = IF queue' = <<>> THEN begun ELSE Append(begun, Head(queue'))
    /\ NotifyPopped
    /\ pc' = [pc EXCEPT ![w] = "task"]
    /\ todo' = [todo EXCEPT ![w] = Children[Head(queue)]]
    /\ UNCHANGED <<running, numThreads, threads, notEmpty, owner, submitted, inline, dropped>>

\* take() returns the front of the queue - also after stop() - and the worker
\* begins to execute it.
TakePops(w) ==
    /\ pc[w] = "take" /\ w \notin notEmpty
    /\ queue # <<>>
    /\ queue' = Tail(queue)
    /\ begun' = Append(begun, Head(queue))
    /\ NotifyPopped
    /\ pc' = [pc EXCEPT ![w] = "task"]
    /\ todo' = [todo EXCEPT ![w] = Children[Head(queue)]]
    /\ UNCHANGED <<running, numThreads, threads, notEmpty, owner, submitted, inline, dropped>>

\* take() returns an empty function.
TakeStopped(w) ==
    /\ pc[w] = "take" /\ w \notin notEmpty
    /\ queue = <<>> /\ ~running
    /\ pc' = [pc EXCEPT ![w] = "loop"]
    /\ UNCHANGED <<running, numThreads, threads, queue, notEmpty, notFull, owner, todo, clientVars>>

\* task() returns.
TaskEnds(w) ==
    /\ pc[w] = "task"
    /\ todo[w] = <<>>
    /\ pc' = [pc EXCEPT ![w] = "loop"]
    /\ UNCHANGED <<running, numThreads, threads, queue, notEmpty, notFull, owner, todo, clientVars>>

\* pthread_cond_wait may return without a notification.
SpuriousWakeup(th) ==
    /\ th \in notEmpty \cup notFull
    /\ Alive
    /\ notEmpty' = notEmpty \ {th}
    /\ notFull' = notFull \ {th}
    /\ UNCHANGED <<running, numThreads, threads, queue, owner, pc, todo, clientVars>>

------------------------------------------------------------------------------
OwnerNext ==
    \/ Start \/ Started \/ Stop \/ Joined \/ JoinFails
    \/ \E w \in Workers : EmplaceThread(w) \/ StartThread(w)

Run(th) == Alive /\ (CallRun(th) \/ RunWaits(th) \/ RunDrops(th) \/ RunPushes(th))

Work(w) == Alive /\ (Loop(w) \/ TakeWaits(w) \/ TakePops(w) \/ TakeStopped(w) \/ TaskEnds(w))

Next ==
    \/ OwnerNext
    \/ \E th \in Threads : Run(th)
    \/ \E w \in Workers : Work(w)
    \/ \E th \in Threads : SpuriousWakeup(th)

Spec == Init /\ [][Next]_vars

\* Each thread is scheduled and gets the mutex in the end.  Whether and when
\* the owner calls start() and stop() is up to it.
Fairness ==
    /\ WF_vars(\E w \in Workers : EmplaceThread(w) \/ StartThread(w))
    /\ WF_vars(Started) /\ WF_vars(Joined) /\ WF_vars(JoinFails)
    /\ \A th \in Threads : WF_vars(Run(th))
    /\ \A w \in Workers : WF_vars(Work(w))

FairSpec == Spec /\ Fairness

------------------------------------------------------------------------------
(* Properties.                                                             *)

\* The variables have the types of the members.
TypeOK ==
    /\ running \in BOOLEAN
    /\ numThreads \in Nat
    /\ threads \in Seq(Workers)
    /\ queue \in Seq(Tasks)
    /\ notEmpty \subseteq Workers
    /\ notFull \subseteq Threads
    /\ owner \in {"new", "starting", "started", "joining", "stopped", "aborted"}
    /\ pc \in [Threads -> {"none", "new", "failed", "loop", "take", "task", "run", "exited"}]
    /\ todo \in [Threads -> Seq(Tasks)]
    /\ submitted \in Seq(Tasks)
    /\ begun \in Seq(Tasks)
    /\ inline \subseteq Tasks
    /\ dropped \subseteq Tasks

\* The queue never grows beyond maxQueueSize_, however many producers a pop
\* wakes: the assert(!isFull()) of run() holds (ThreadPool.cc:76-86).
QueueBound == MaxQueueSize > 0 => Len(queue) <= MaxQueueSize

\* Tasks begin in the order in which run() queued them, each once; what has not
\* begun is still in the queue, also after stop() (ThreadPool.cc:85, 99-109).
FirstInFirstOut == submitted = begun \o queue

\* A task that was submitted has run, will run or was refused, never two of
\* these: it is queued, executed inline or dropped, and dropped only
\* when the pool is not running (ThreadPool.cc:68-88).
NoTaskTwice ==
    /\ \A i, j \in 1 .. Len(submitted) : submitted[i] = submitted[j] => i = j
    /\ \A i \in 1 .. Len(submitted) : submitted[i] \notin inline \cup dropped
    /\ inline \cap dropped = {}
    /\ dropped # {} => owner \in {"joining", "stopped", "aborted"}

\* One notify() for each push is enough: while a worker sleeps on notEmpty_
\* there are at least as many workers awake and on their way to take() as
\* there are tasks in the queue (ThreadPool.cc:86, 94-97).
NoTaskWithoutWorker ==
    notEmpty # {} => Len(queue) <= Cardinality({w \in Workers \ notEmpty : pc[w] \in {"loop", "take"}})

\* One notify() for each pop is enough: while a thread sleeps on notFull_ there
\* are at least as many threads awake in run() as there are free places
\* (ThreadPool.cc:77-80, 104-107).
NoRoomWithoutProducer ==
    notFull # {} =>
        MaxQueueSize - Len(queue) <= Cardinality({th \in Threads \ notFull : pc[th] = "run"})

\* stop() comes to an end: it wakes every sleeping worker, also when all of them
\* sleep inside run(), and none goes back to sleep (ThreadPool.cc:47-60).  It
\* returns, unless pthread_create failed for a worker and start() said nothing:
\* then it aborts, in the join() of that worker (Thread.cc:162-166, 176).
SomeFailed == \E i \in DOMAIN threads : pc[threads[i]] = "failed"

StopReturns ==
    /\ (owner = "joining" /\ ~SomeFailed) ~> owner = "stopped"
    /\ (owner = "joining" /\ SomeFailed) ~> owner = "aborted"

\* A queued task begins unless the pool is stopped, or unless in the end nobody
\* is left to take it: each worker either was never created or stays inside a
\* nested run() on the full queue (Thread.cc:162-166, ThreadPool.cc:77-80, 127-134).
Queued(t) == \E i \in 1 .. Len(queue) : queue[i] = t
NobodyTakes ==
    /\ owner # "starting"
    /\ \A i \in DOMAIN threads : pc[threads[i]] = "failed" \/ (isFull /\ pc[threads[i]] = "run")

QueuedTaskBegins ==
    \/ \A t \in Tasks : []<>(~Queued(t) \/ ~running)
    \/ <>[]NobodyTakes
=============================================================================
