-------------------------- MODULE ThreadPool_proofs --------------------------
(***************************************************************************)
(* Proofs about ThreadPool, for any workers, producers, tasks and queue    *)
(* size: type correctness, the bound of the queue and its order, that its  *)
(* notifications suffice, and that no task is in two places.               *)
(***************************************************************************)
EXTENDS ThreadPool, SequenceLemmas, FiniteSetTheorems

USE ThreadsAssumption, MaxQueueSizeAssumption, ProgramAssumption, ChildrenAssumption

\* notify() only takes threads out of a wait set.
LEMMA NotifyShrinks ==
    /\ Notify(notEmpty) => notEmpty' \subseteq notEmpty
    /\ Notify(notFull) => notFull' \subseteq notFull
  BY DEF Notify

\* AppendConcat for sequences of tasks.
LEMMA AppendConcatTasks ==
    \A q, r \in Seq(Tasks), f \in Tasks : q \o Append(r, f) = Append(q \o r, f)
  <1> TAKE q, r \in Seq(Tasks), f \in Tasks
  <1> QED
    BY ONLY AppendConcat

\* A thread in run() has a task to submit, and a thread that waits for room is
\* in run().
IInv ==
    /\ TypeOK
    /\ QueueBound
    /\ FirstInFirstOut
    /\ \A th \in Threads : pc[th] = "run" => todo[th] # <<>>

LEMMA InitIInv == Init => IInv
  <1> SUFFICES ASSUME Init PROVE IInv
    OBVIOUS
  <1>1. TypeOK
    BY EmptySeq DEF Init, TypeOK, Threads
  <1>2. QueueBound
    BY EmptySeq DEF Init, QueueBound
  <1>3. FirstInFirstOut
    BY EmptySeq, ConcatEmptySeq DEF Init, FirstInFirstOut
  <1> QED
    BY <1>1, <1>2, <1>3 DEF Init, IInv

------------------------------------------------------------------------------
(* The steps that change the queue.                                        *)

\* What RunPushes does to the queue and the todo list.
LEMMA PushIInv ==
    ASSUME IInv, NEW th \in Threads, RunPushes(th)
    PROVE  IInv'
  <1> DEFINE task == Head(todo[th])
  <1> USE DEF IInv
  <1>1. task \in Tasks /\ Tail(todo[th]) \in Seq(Tasks)
    BY HeadTailProperties DEF RunPushes, TypeOK
  <1>2. queue' = Append(queue, task) /\ submitted' = Append(submitted, task)
    BY DEF RunPushes
  <1>3. TypeOK'
    <2>1. queue' \in Seq(Tasks) /\ submitted' \in Seq(Tasks)
      BY <1>1, <1>2, AppendProperties DEF TypeOK
    <2>2. todo' \in [Threads -> Seq(Tasks)] /\ pc' \in [Threads -> {"none", "new", "failed", "loop", "take", "task", "run", "exited"}]
      BY <1>1 DEF RunPushes, TypeOK
    <2>3. notEmpty' \subseteq Workers
      BY NotifyShrinks DEF RunPushes, NotifyPushed, TypeOK
    <2> QED
      BY <2>1, <2>2, <2>3 DEF RunPushes, TypeOK
  <1>4. QueueBound'
    <2>1. Len(queue') = Len(queue) + 1 /\ Len(queue) \in Nat
      BY <1>1, <1>2, AppendProperties, LenProperties DEF TypeOK
    <2> QED
      BY <2>1 DEF RunPushes, isFull, QueueBound
  <1>5. FirstInFirstOut'
    <2>1. begun \in Seq(Tasks) /\ queue \in Seq(Tasks)
      BY DEF TypeOK
    <2>2. begun \o Append(queue, task) = Append(begun \o queue, task)
      BY <1>1, <2>1, AppendConcatTasks
    <2>3. begun' = begun
      BY DEF RunPushes
    <2> QED
      BY <1>2, <2>2, <2>3, Zenon DEF FirstInFirstOut
  <1>6. \A t \in Threads : pc'[t] = "run" => todo'[t] # <<>>
    BY DEF RunPushes, TypeOK
  <1> QED
    BY <1>3, <1>4, <1>5, <1>6

\* What TakePops does: the head of the queue moves to the end of begun.
LEMMA PopIInv ==
    ASSUME IInv, NEW w \in Workers, TakePops(w)
    PROVE  IInv'
  <1> DEFINE task == Head(queue)
  <1> USE DEF IInv
  <1>1. task \in Tasks /\ Tail(queue) \in Seq(Tasks) /\ Len(Tail(queue)) = Len(queue) - 1
    BY HeadTailProperties DEF TakePops, TypeOK
  <1>2. queue' = Tail(queue) /\ begun' = Append(begun, task)
    BY DEF TakePops
  <1>3. TypeOK'
    <2>1. queue' \in Seq(Tasks) /\ begun' \in Seq(Tasks)
      BY <1>1, <1>2, AppendProperties DEF TypeOK
    <2>2. todo' \in [Threads -> Seq(Tasks)] /\ pc' \in [Threads -> {"none", "new", "failed", "loop", "take", "task", "run", "exited"}]
      BY <1>1 DEF TakePops, TypeOK
    <2>3. notFull' \subseteq Threads
      BY NotifyShrinks DEF TakePops, NotifyPopped, TypeOK
    <2> QED
      BY <2>1, <2>2, <2>3 DEF TakePops, TypeOK
  <1>4. QueueBound'
    <2>1. Len(queue) \in Nat
      BY LenProperties DEF TypeOK
    <2> QED
      BY <1>1, <1>2, <2>1 DEF QueueBound
  <1>5. FirstInFirstOut'
    BY <1>2, MoveHead DEF TakePops, FirstInFirstOut, TypeOK
  <1>6. \A t \in Threads : pc'[t] = "run" => todo'[t] # <<>>
    BY DEF TakePops, TypeOK, Threads
  <1> QED
    BY <1>3, <1>4, <1>5, <1>6

\* A call of run(): inline execution puts the children of the task in front.
LEMMA CallRunIInv ==
    ASSUME IInv, NEW th \in Threads, CallRun(th)
    PROVE  IInv'
  <1> USE DEF IInv
  <1>1. Head(todo[th]) \in Tasks /\ Tail(todo[th]) \in Seq(Tasks)
    BY HeadTailProperties DEF CallRun, TypeOK
  <1>2. Children[Head(todo[th])] \o Tail(todo[th]) \in Seq(Tasks)
    BY <1>1, ConcatProperties
  <1>3. TypeOK'
    BY <1>1, <1>2 DEF CallRun, TypeOK
  <1>4. \A t \in Threads : pc'[t] = "run" => todo'[t] # <<>>
    BY DEF CallRun, TypeOK
  <1> QED
    BY <1>3, <1>4 DEF CallRun, QueueBound, FirstInFirstOut

LEMMA RunDropsIInv ==
    ASSUME IInv, NEW th \in Threads, RunDrops(th)
    PROVE  IInv'
  <1> USE DEF IInv
  <1>1. Head(todo[th]) \in Tasks /\ Tail(todo[th]) \in Seq(Tasks)
    BY HeadTailProperties DEF RunDrops, TypeOK
  <1>2. TypeOK'
    BY <1>1 DEF RunDrops, TypeOK
  <1>3. \A t \in Threads : pc'[t] = "run" => todo'[t] # <<>>
    BY DEF RunDrops, TypeOK
  <1> QED
    BY <1>2, <1>3 DEF RunDrops, QueueBound, FirstInFirstOut

------------------------------------------------------------------------------
LEMMA NextIInv == IInv /\ [Next]_vars => IInv'
  <1> SUFFICES ASSUME IInv, [Next]_vars PROVE IInv'
    OBVIOUS
  <1> USE DEF IInv, QueueBound, FirstInFirstOut
  <1>1. CASE OwnerNext
    <2>1. CASE Start
      <3>1. 0 .. Cardinality(Workers) \subseteq Nat
        OBVIOUS
      <3> QED
        BY <2>1, <3>1 DEF Start, TypeOK, clientVars
    <2>2. ASSUME NEW w \in Workers, EmplaceThread(w) \/ StartThread(w) PROVE IInv'
      <3>1. threads' \in Seq(Workers)
        <4>1. threads \in Seq(Workers)
          BY DEF TypeOK
        <4>2. threads' = threads \/ threads' = Append(threads, w)
          BY <2>2 DEF EmplaceThread, StartThread
        <4> QED
          BY ONLY <4>1, <4>2, w \in Workers, AppendProperties
      <3>2. PICK place \in {"new", "failed", "loop"} : pc' = [pc EXCEPT ![w] = place]
        BY <2>2 DEF EmplaceThread, StartThread
      <3>3. pc' \in [Threads -> {"none", "new", "failed", "loop", "take", "task", "run", "exited"}]
        BY <3>2 DEF TypeOK
      <3>4. \A th \in Threads : pc'[th] = "run" => pc[th] = "run"
        BY <3>2 DEF TypeOK
      <3>5. UNCHANGED <<running, numThreads, queue, notEmpty, notFull, owner, todo, clientVars>>
        BY <2>2 DEF EmplaceThread, StartThread
      <3> QED
        BY <3>1, <3>3, <3>4, <3>5 DEF TypeOK, clientVars
    <2>3. CASE Started \/ JoinFails
      BY <2>3 DEF Started, JoinFails, TypeOK, clientVars
    <2>4. CASE Stop
      BY <2>4 DEF Stop, TypeOK, clientVars
    <2>5. CASE Joined
      BY <2>5 DEF Joined, TypeOK, clientVars
    <2> QED
      BY <1>1, <2>1, <2>2, <2>3, <2>4, <2>5 DEF OwnerNext
  <1>2. ASSUME NEW th \in Threads, Run(th) PROVE IInv'
    <2>1. CASE RunWaits(th)
      BY <2>1 DEF RunWaits, TypeOK, clientVars
    <2> QED
      BY <1>2, <2>1, CallRunIInv, RunDropsIInv, PushIInv DEF Run
  <1>3. ASSUME NEW w \in Workers, Work(w) PROVE IInv'
    <2>1. CASE Loop(w)
      BY <2>1 DEF Loop, TypeOK, clientVars, Threads
    <2>2. CASE TakeWaits(w)
      BY <2>2 DEF TakeWaits, TypeOK, clientVars
    <2>3. CASE TakeStopped(w)
      BY <2>3 DEF TakeStopped, TypeOK, clientVars, Threads
    <2>4. CASE TaskEnds(w)
      BY <2>4 DEF TaskEnds, TypeOK, clientVars, Threads
    <2> QED
      BY <1>3, <2>1, <2>2, <2>3, <2>4, PopIInv DEF Work
  <1>4. ASSUME NEW th \in Threads, SpuriousWakeup(th) PROVE IInv'
    BY <1>4 DEF SpuriousWakeup, TypeOK, clientVars
  <1>5. CASE UNCHANGED vars
    BY <1>5 DEF vars, TypeOK
  <1> QED
    BY <1>1, <1>2, <1>3, <1>4, <1>5 DEF Next

LEMMA Invariance == Spec => []IInv
  BY InitIInv, NextIInv, PTL DEF Spec

\* The members of the pool keep their types.
THEOREM TypeCorrect == Spec => []TypeOK
  BY Invariance, PTL DEF IInv

\* The assertion of ThreadPool.cc:83 holds and the queue is never longer than
\* maxQueueSize_, for any number of producers and workers, nested run() and
\* spurious wakeups included.
THEOREM QueueBoundHolds == Spec => []QueueBound
  BY Invariance, PTL DEF IInv

\* Tasks begin once each and in the order in which they were queued
\* (ThreadPool.cc:85, 99-109).
THEOREM FirstInFirstOutHolds == Spec => []FirstInFirstOut
  BY Invariance, PTL DEF IInv
------------------------------------------------------------------------------
(* One notification for each push and for each pop is enough.  The threads *)
(* awake are counted; a step that lowers the count must lower what it is   *)
(* compared with, or leave nobody asleep.                                  *)

LEMMA CountGrows ==
    ASSUME NEW S, NEW T, IsFiniteSet(T), S \subseteq T
    PROVE  /\ IsFiniteSet(S)
           /\ Cardinality(S) \in Nat /\ Cardinality(T) \in Nat
           /\ Cardinality(S) <= Cardinality(T)
  BY FS_Subset, FS_CardinalityType

LEMMA CountGrowsByOne ==
    ASSUME NEW S, NEW T, IsFiniteSet(T), NEW x, x \notin S, S \cup {x} \subseteq T
    PROVE  /\ Cardinality(S) \in Nat /\ Cardinality(T) \in Nat
           /\ Cardinality(S) + 1 <= Cardinality(T)
  <1>1. IsFiniteSet(S)
    BY FS_Subset
  <1>2. IsFiniteSet(S \cup {x}) /\ Cardinality(S \cup {x}) = Cardinality(S) + 1
    BY <1>1, FS_AddElement
  <1> QED
    BY <1>1, <1>2, CountGrows

LEMMA CountShrinksByOne ==
    ASSUME NEW S, IsFiniteSet(S), NEW T, IsFiniteSet(T), NEW x, S \ {x} \subseteq T
    PROVE  /\ Cardinality(S) \in Nat /\ Cardinality(T) \in Nat
           /\ Cardinality(S) - 1 <= Cardinality(T)
  <1>1. /\ Cardinality(S) \in Nat
        /\ Cardinality(S \ {x}) \in {Cardinality(S), Cardinality(S) - 1}
    BY FS_CardinalityType, FS_RemoveElement
  <1> QED
    BY <1>1, CountGrows

\* The workers on their way to take(), and the threads awake in run().
Awake == {w \in Workers \ notEmpty : pc[w] \in {"loop", "take"}}
InRun == {th \in Threads \ notFull : pc[th] = "run"}

\* Where a thread that waits is; nobody waits when the pool is not running, nor
\* for room when the queue is unbounded; and finitely many threads are in run().
Asleep ==
    /\ \A w \in notEmpty : pc[w] = "take"
    /\ \A th \in notFull : pc[th] = "run"
    /\ ~running => notEmpty = {} /\ notFull = {}
    /\ notFull # {} => MaxQueueSize > 0
    /\ IsFiniteSet({th \in Threads : pc[th] = "run"})

\* A notification takes one thread out of a wait set that is not empty.
LEMMA NotifyWakesOne ==
    /\ Notify(notEmpty) =>
          \/ notEmpty = {} /\ notEmpty' = {}
          \/ \E w \in notEmpty : notEmpty' = notEmpty \ {w}
    /\ Notify(notFull) =>
          \/ notFull = {} /\ notFull' = {}
          \/ \E th \in notFull : notFull' = notFull \ {th}
  BY DEF Notify

LEMMA InitAsleep == Init => Asleep
  <1> SUFFICES ASSUME Init PROVE Asleep
    OBVIOUS
  <1>1. {th \in Threads : pc[th] = "run"} = {}
    BY DEF Init
  <1> QED
    BY <1>1, FS_EmptySet DEF Init, Asleep, Threads

\* A thread that waits nowhere moves on; it may wake others.
LEMMA StepAsleep ==
    ASSUME TypeOK, Asleep, NEW th \in Threads, NEW place, pc' = [pc EXCEPT ![th] = place],
           th \notin notEmpty', th \notin notFull',
           notEmpty' \subseteq notEmpty, notFull' \subseteq notFull,
           running' = running
    PROVE  Asleep'
  <1> DEFINE S == {t \in Threads : pc[t] = "run"}
  <1>1. \A t \in Threads : t # th => pc'[t] = pc[t]
    BY DEF TypeOK
  <1>2. notEmpty \subseteq Threads /\ notFull \subseteq Threads /\ Workers \subseteq Threads
    BY DEF TypeOK, Threads
  <1>3. IsFiniteSet({t \in Threads : pc'[t] = "run"})
    <2>1. IsFiniteSet(S \cup {th})
      BY FS_AddElement DEF Asleep
    <2>2. {t \in Threads : pc'[t] = "run"} \subseteq S \cup {th}
      BY <1>1
    <2> QED
      BY <2>1, <2>2, FS_Subset
  <1>4. (\A w \in notEmpty' : pc'[w] = "take") /\ (\A t \in notFull' : pc'[t] = "run")
    BY <1>1, <1>2 DEF Asleep
  <1> QED
    BY <1>3, <1>4 DEF Asleep

LEMMA NextAsleep == TypeOK /\ Asleep /\ [Next]_vars => Asleep'
  <1> SUFFICES ASSUME TypeOK, Asleep, [Next]_vars PROVE Asleep'
    OBVIOUS
  <1>0. \A th \in Threads : /\ pc[th] # "take" => th \notin notEmpty
                            /\ pc[th] # "run" => th \notin notFull
    BY DEF Asleep
  <1>1. CASE OwnerNext
    <2>1. CASE Start \/ Started \/ Joined \/ JoinFails
      BY <2>1 DEF Start, Started, Joined, JoinFails, Asleep
    <2>2. CASE Stop
      BY <2>2 DEF Stop, Asleep
    <2>3. ASSUME NEW w \in Workers, EmplaceThread(w) \/ StartThread(w) PROVE Asleep'
      <3>1. w \in Threads /\ pc[w] \in {"none", "new"}
        BY <2>3 DEF EmplaceThread, StartThread, Threads
      <3>2. PICK place : pc' = [pc EXCEPT ![w] = place]
        BY <2>3 DEF EmplaceThread, StartThread
      <3> QED
        BY <1>0, <2>3, <3>1, <3>2, StepAsleep DEF EmplaceThread, StartThread
    <2> QED
      BY <1>1, <2>1, <2>2, <2>3 DEF OwnerNext
  <1>2. ASSUME NEW th \in Threads, Run(th) PROVE Asleep'
    <2>1. CASE CallRun(th)
      <3>1. CASE UNCHANGED pc
        BY <2>1, <3>1 DEF CallRun, Asleep
      <3>2. CASE pc' = [pc EXCEPT ![th] = "run"]
        BY <1>0, <2>1, <3>2, StepAsleep DEF CallRun
      <3> QED
        BY <2>1, <3>1, <3>2 DEF CallRun
    <2>2. CASE RunWaits(th)
      BY <2>2 DEF RunWaits, isFull, Asleep, TypeOK
    <2>3. CASE RunDrops(th)
      BY <1>0, <2>3, StepAsleep DEF RunDrops
    <2>4. CASE RunPushes(th)
      BY <1>0, <2>4, NotifyShrinks, StepAsleep DEF RunPushes, NotifyPushed
    <2> QED
      BY <1>2, <2>1, <2>2, <2>3, <2>4 DEF Run
  <1>3. ASSUME NEW w \in Workers, Work(w) PROVE Asleep'
    <2>0. w \in Threads
      BY DEF Threads
    <2>1. CASE Loop(w)
      BY <1>0, <2>0, <2>1, StepAsleep DEF Loop
    <2>2. CASE TakeWaits(w)
      BY <2>0, <2>2 DEF TakeWaits, Asleep, TypeOK
    <2>3. CASE TakePops(w)
      BY <1>0, <2>0, <2>3, NotifyShrinks, StepAsleep DEF TakePops, NotifyPopped
    <2>4. CASE TakeStopped(w)
      BY <1>0, <2>0, <2>4, StepAsleep DEF TakeStopped
    <2>5. CASE TaskEnds(w)
      BY <1>0, <2>0, <2>5, StepAsleep DEF TaskEnds
    <2> QED
      BY <1>3, <2>1, <2>2, <2>3, <2>4, <2>5 DEF Work
  <1>4. ASSUME NEW th \in Threads, SpuriousWakeup(th) PROVE Asleep'
    BY <1>4 DEF SpuriousWakeup, Asleep
  <1>5. CASE UNCHANGED vars
    BY <1>5 DEF vars, Asleep
  <1> QED
    BY <1>1, <1>2, <1>3, <1>4, <1>5 DEF Next

\* The workers awake are finitely many.
LEMMA AwakeFinite == IsFiniteSet(Awake) /\ IsFiniteSet(Awake')
  BY FS_Subset DEF Awake

\* A step that leaves the queue alone and puts no worker to sleep or to work.
LEMMA WorkersKept ==
    ASSUME TypeOK, NoTaskWithoutWorker, queue' = queue, notEmpty' \subseteq notEmpty,
           \A w \in Workers : pc[w] \in {"loop", "take"} => pc'[w] \in {"loop", "take"}
    PROVE  NoTaskWithoutWorker'
  <1>1. Awake \subseteq Awake'
    BY DEF Awake
  <1>2. Len(queue) \in Nat
    BY LenProperties DEF TypeOK
  <1>3. notEmpty # {} => Len(queue) <= Cardinality(Awake)
    BY DEF NoTaskWithoutWorker, Awake
  <1>4. notEmpty' # {} => Len(queue') <= Cardinality(Awake')
    BY <1>1, <1>2, <1>3, AwakeFinite, CountGrows
  <1> QED
    BY <1>4 DEF NoTaskWithoutWorker, Awake

\* A push wakes a worker for the task.
LEMMA WorkerForPush ==
    ASSUME IInv, Asleep, NoTaskWithoutWorker, NEW th \in Threads, RunPushes(th)
    PROVE  NoTaskWithoutWorker'
  <1>0. TypeOK
    BY DEF IInv
  <1>1. /\ Len(queue) \in Nat
        /\ Len(queue') = Len(queue) + 1
    <2>1. Head(todo[th]) \in Tasks
      BY <1>0, HeadTailProperties DEF RunPushes, TypeOK, IInv
    <2> QED
      BY <1>0, <2>1, LenProperties, AppendProperties DEF RunPushes, TypeOK
  <1>2. SUFFICES ASSUME notEmpty' # {}
                 PROVE  Len(queue') <= Cardinality(Awake')
    BY DEF NoTaskWithoutWorker, Awake
  <1>3. PICK w \in notEmpty : notEmpty' = notEmpty \ {w}
    BY <1>2, NotifyWakesOne DEF RunPushes, NotifyPushed
  <1>4. w \in Workers /\ pc[w] = "take" /\ pc[th] = "run" /\ \A t \in Threads : t # th => pc'[t] = pc[t]
    BY <1>0, <1>3 DEF Asleep, TypeOK, RunPushes
  <1>5. w \notin Awake /\ Awake \cup {w} \subseteq Awake'
    BY <1>3, <1>4 DEF Awake, Threads
  <1>6. Len(queue) <= Cardinality(Awake)
    BY <1>3 DEF NoTaskWithoutWorker, Awake
  <1> QED
    BY <1>1, <1>5, <1>6, AwakeFinite, CountGrowsByOne

\* A worker that goes to work takes a task with it.
LEMMA WorkerPops ==
    ASSUME TypeOK, Asleep, NoTaskWithoutWorker, NEW w \in Workers, TakePops(w)
    PROVE  NoTaskWithoutWorker'
  <1>1. /\ Len(queue) \in Nat
        /\ Len(queue') = Len(queue) - 1
    BY LenProperties, HeadTailProperties DEF TakePops, TypeOK
  <1>2. SUFFICES ASSUME notEmpty' # {}
                 PROVE  Len(queue') <= Cardinality(Awake')
    BY DEF NoTaskWithoutWorker, Awake
  <1>3. notEmpty' = notEmpty /\ \A t \in Threads : t # w => pc'[t] = pc[t]
    BY DEF TakePops, TypeOK
  <1>4. Awake \ {w} \subseteq Awake'
    BY <1>3 DEF Awake, Threads
  <1>5. Len(queue) <= Cardinality(Awake)
    BY <1>2, <1>3 DEF NoTaskWithoutWorker, Awake
  <1>6. /\ Cardinality(Awake) \in Nat /\ Cardinality(Awake') \in Nat
        /\ Cardinality(Awake) - 1 <= Cardinality(Awake')
    BY <1>4, AwakeFinite, CountShrinksByOne
  <1> QED
    BY <1>1, <1>5, <1>6

LEMMA NextWorkers ==
    IInv /\ Asleep /\ NoTaskWithoutWorker /\ [Next]_vars => NoTaskWithoutWorker'
  <1> SUFFICES ASSUME IInv, Asleep, NoTaskWithoutWorker, [Next]_vars
               PROVE  NoTaskWithoutWorker'
    OBVIOUS
  <1>0. TypeOK /\ Workers \subseteq Threads
    BY DEF IInv, Threads
  <1>1. CASE OwnerNext
    <2>1. CASE Start \/ Started \/ Joined \/ JoinFails
      BY <1>0, <2>1, WorkersKept DEF Start, Started, Joined, JoinFails
    <2>2. CASE Stop
      BY <2>2 DEF Stop, NoTaskWithoutWorker
    <2>3. ASSUME NEW w \in Workers, EmplaceThread(w) \/ StartThread(w) PROVE NoTaskWithoutWorker'
      <3>1. pc[w] \in {"none", "new"} /\ \A x \in Workers : x # w => pc'[x] = pc[x]
        BY <1>0, <2>3 DEF EmplaceThread, StartThread, TypeOK
      <3> QED
        BY <1>0, <2>3, <3>1, WorkersKept DEF EmplaceThread, StartThread
    <2> QED
      BY <1>1, <2>1, <2>2, <2>3 DEF OwnerNext
  <1>2. ASSUME NEW th \in Threads, Run(th) PROVE NoTaskWithoutWorker'
    <2>1. CASE CallRun(th) \/ RunWaits(th) \/ RunDrops(th)
      <3>1. /\ \A w \in Workers : pc[w] \in {"loop", "take"} => pc'[w] \in {"loop", "take"}
            /\ queue' = queue /\ notEmpty' = notEmpty
        BY <1>0, <2>1 DEF CallRun, RunWaits, RunDrops, TypeOK
      <3> QED
        BY <1>0, <3>1, WorkersKept
    <2> QED
      BY <1>2, <2>1, WorkerForPush DEF Run
  <1>3. ASSUME NEW w \in Workers, Work(w) PROVE NoTaskWithoutWorker'
    <2>1. CASE Loop(w)
      <3>1. CASE ~running
        BY <2>1, <3>1 DEF Loop, Asleep, NoTaskWithoutWorker
      <3>2. CASE running
        <4>1. \A x \in Workers : pc'[x] = IF x = w THEN "take" ELSE pc[x]
          BY <1>0, <2>1, <3>2 DEF Loop, TypeOK
        <4> QED
          BY <1>0, <2>1, <4>1, WorkersKept DEF Loop
      <3> QED
        BY <3>1, <3>2
    <2>2. CASE TakeWaits(w)
      <3>1. Len(queue') = 0
        BY <1>0, <2>2, EmptySeq DEF TakeWaits, TypeOK
      <3>2. Cardinality(Awake') \in Nat
        BY AwakeFinite, FS_CardinalityType
      <3> QED
        BY <3>1, <3>2 DEF NoTaskWithoutWorker, Awake
    <2>3. CASE TakeStopped(w)
      BY <2>3 DEF TakeStopped, Asleep, NoTaskWithoutWorker
    <2>4. CASE TaskEnds(w)
      <3>1. \A x \in Workers : pc'[x] = IF x = w THEN "loop" ELSE pc[x]
        BY <1>0, <2>4 DEF TaskEnds, TypeOK
      <3> QED
        BY <1>0, <2>4, <3>1, WorkersKept DEF TaskEnds
    <2> QED
      BY <1>0, <1>3, <2>1, <2>2, <2>3, <2>4, WorkerPops DEF Work
  <1>4. ASSUME NEW th \in Threads, SpuriousWakeup(th) PROVE NoTaskWithoutWorker'
    BY <1>0, <1>4, WorkersKept DEF SpuriousWakeup
  <1>5. CASE UNCHANGED vars
    BY <1>0, <1>5, WorkersKept DEF vars
  <1> QED
    BY <1>1, <1>2, <1>3, <1>4, <1>5 DEF Next

\* The threads awake in run() are finitely many.
LEMMA InRunFinite == (Asleep => IsFiniteSet(InRun)) /\ (Asleep' => IsFiniteSet(InRun'))
  BY FS_Subset DEF InRun, Asleep

\* A step that leaves the queue alone and takes nobody out of run().
LEMMA ProducersKept ==
    ASSUME TypeOK, Asleep, Asleep', NoRoomWithoutProducer,
           queue' = queue, notFull' \subseteq notFull,
           \A th \in Threads : pc[th] = "run" => pc'[th] = "run"
    PROVE  NoRoomWithoutProducer'
  <1>1. InRun \subseteq InRun'
    BY DEF InRun
  <1>2. Len(queue) \in Nat
    BY LenProperties DEF TypeOK
  <1>3. notFull # {} => MaxQueueSize - Len(queue) <= Cardinality(InRun)
    BY DEF NoRoomWithoutProducer, InRun
  <1>4. notFull' # {} => MaxQueueSize - Len(queue') <= Cardinality(InRun')
    BY <1>1, <1>2, <1>3, InRunFinite, CountGrows
  <1> QED
    BY <1>4 DEF NoRoomWithoutProducer, InRun

\* A thread that leaves run() with its task queued takes a place with it.
LEMMA ProducerPushes ==
    ASSUME IInv, Asleep, Asleep', NoRoomWithoutProducer, NEW th \in Threads, RunPushes(th)
    PROVE  NoRoomWithoutProducer'
  <1>1. /\ Len(queue) \in Nat
        /\ Len(queue') = Len(queue) + 1
    <2>1. Head(todo[th]) \in Tasks
      BY HeadTailProperties DEF RunPushes, TypeOK, IInv
    <2> QED
      BY <2>1, LenProperties, AppendProperties DEF RunPushes, TypeOK, IInv
  <1>2. SUFFICES ASSUME notFull' # {}
                 PROVE  MaxQueueSize - Len(queue') <= Cardinality(InRun')
    BY DEF NoRoomWithoutProducer, InRun
  <1>3. notFull' = notFull /\ \A t \in Threads : t # th => pc'[t] = pc[t]
    BY DEF RunPushes, TypeOK, IInv
  <1>4. InRun \ {th} \subseteq InRun'
    BY <1>3 DEF InRun
  <1>5. MaxQueueSize - Len(queue) <= Cardinality(InRun)
    BY <1>2, <1>3 DEF NoRoomWithoutProducer, InRun
  <1>6. /\ Cardinality(InRun) \in Nat /\ Cardinality(InRun') \in Nat
        /\ Cardinality(InRun) - 1 <= Cardinality(InRun')
    BY <1>4, InRunFinite, CountShrinksByOne
  <1> QED
    BY <1>1, <1>5, <1>6

\* A pop wakes a thread for the place.
LEMMA ProducerForPop ==
    ASSUME TypeOK, Asleep, Asleep', NoRoomWithoutProducer, NEW w \in Workers, TakePops(w)
    PROVE  NoRoomWithoutProducer'
  <1>1. /\ Len(queue) \in Nat
        /\ Len(queue') = Len(queue) - 1
    BY LenProperties, HeadTailProperties DEF TakePops, TypeOK
  <1>2. SUFFICES ASSUME notFull' # {}
                 PROVE  MaxQueueSize - Len(queue') <= Cardinality(InRun')
    BY DEF NoRoomWithoutProducer, InRun
  <1>3. MaxQueueSize > 0
    BY <1>2, NotifyShrinks DEF TakePops, NotifyPopped, Asleep
  <1>4. PICK th \in notFull : notFull' = notFull \ {th}
    BY <1>2, <1>3, NotifyWakesOne DEF TakePops, NotifyPopped
  <1>5. /\ th \in Threads /\ pc[th] = "run" /\ pc[w] = "take"
        /\ \A t \in Threads : t # w => pc'[t] = pc[t]
    BY <1>4 DEF Asleep, TypeOK, TakePops
  <1>6. th \notin InRun /\ InRun \cup {th} \subseteq InRun'
    BY <1>4, <1>5 DEF InRun
  <1>7. MaxQueueSize - Len(queue) <= Cardinality(InRun)
    BY <1>4 DEF NoRoomWithoutProducer, InRun
  <1>8. /\ Cardinality(InRun) \in Nat /\ Cardinality(InRun') \in Nat
        /\ Cardinality(InRun) + 1 <= Cardinality(InRun')
    BY <1>6, InRunFinite, CountGrowsByOne
  <1> QED
    BY <1>1, <1>7, <1>8

LEMMA NextProducers ==
    IInv /\ Asleep /\ NoRoomWithoutProducer /\ [Next]_vars => NoRoomWithoutProducer'
  <1> SUFFICES ASSUME IInv, Asleep, NoRoomWithoutProducer, [Next]_vars
               PROVE  NoRoomWithoutProducer'
    OBVIOUS
  <1>0. TypeOK /\ Asleep'
    BY NextAsleep DEF IInv
  <1>1. CASE OwnerNext
    <2>1. CASE Start \/ Started \/ Joined \/ JoinFails
      BY <1>0, <2>1, ProducersKept DEF Start, Started, Joined, JoinFails
    <2>2. CASE Stop
      BY <2>2 DEF Stop, NoRoomWithoutProducer
    <2>3. ASSUME NEW w \in Workers, EmplaceThread(w) \/ StartThread(w) PROVE NoRoomWithoutProducer'
      <3>1. pc[w] \in {"none", "new"} /\ \A t \in Threads : t # w => pc'[t] = pc[t]
        BY <1>0, <2>3 DEF EmplaceThread, StartThread, TypeOK
      <3> QED
        BY <1>0, <2>3, <3>1, ProducersKept DEF EmplaceThread, StartThread
    <2> QED
      BY <1>1, <2>1, <2>2, <2>3 DEF OwnerNext
  <1>2. ASSUME NEW th \in Threads, Run(th) PROVE NoRoomWithoutProducer'
    <2>1. CASE CallRun(th)
      <3>1. pc[th] = "task" /\ \A t \in Threads : t # th => pc'[t] = pc[t]
        BY <1>0, <2>1 DEF CallRun, TypeOK
      <3> QED
        BY <1>0, <2>1, <3>1, ProducersKept DEF CallRun
    <2>2. CASE RunWaits(th)
      <3>1. Len(queue') \in Nat /\ Len(queue') >= MaxQueueSize
        BY <1>0, <2>2, LenProperties DEF RunWaits, isFull, TypeOK
      <3>2. Cardinality(InRun') \in Nat
        BY <1>0, InRunFinite, FS_CardinalityType
      <3> QED
        BY <3>1, <3>2 DEF NoRoomWithoutProducer, InRun
    <2>3. CASE RunDrops(th)
      BY <2>3 DEF RunDrops, Asleep, NoRoomWithoutProducer
    <2> QED
      BY <1>0, <1>2, <2>1, <2>2, <2>3, ProducerPushes DEF Run
  <1>3. ASSUME NEW w \in Workers, Work(w) PROVE NoRoomWithoutProducer'
    <2>1. CASE Loop(w) \/ TakeWaits(w) \/ TakeStopped(w) \/ TaskEnds(w)
      <3>1. /\ queue' = queue /\ notFull' = notFull
            /\ pc[w] # "run" /\ \A t \in Threads : t # w => pc'[t] = pc[t]
        BY <1>0, <2>1 DEF Loop, TakeWaits, TakeStopped, TaskEnds, TypeOK
      <3> QED
        BY <1>0, <3>1, ProducersKept
    <2> QED
      BY <1>0, <1>3, <2>1, ProducerForPop DEF Work
  <1>4. ASSUME NEW th \in Threads, SpuriousWakeup(th) PROVE NoRoomWithoutProducer'
    BY <1>0, <1>4, ProducersKept DEF SpuriousWakeup
  <1>5. CASE UNCHANGED vars
    BY <1>0, <1>5, ProducersKept DEF vars
  <1> QED
    BY <1>1, <1>2, <1>3, <1>4, <1>5 DEF Next

LEMMA Wakeups == Spec => [](Asleep /\ NoTaskWithoutWorker /\ NoRoomWithoutProducer)
  <1>1. Init => NoTaskWithoutWorker /\ NoRoomWithoutProducer
    BY DEF Init, NoTaskWithoutWorker, NoRoomWithoutProducer
  <1>2. IInv => TypeOK
    BY DEF IInv
  <1> QED
    BY <1>1, <1>2, InitAsleep, Invariance, NextAsleep, NextWorkers, NextProducers, PTL DEF Spec

\* The single notify() of a push is enough, for any number of workers, whatever
\* the order of pushes, pops, nested run() and spurious wakeups
\* (ThreadPool.cc:86, 94-97).
THEOREM NoTaskWithoutWorkerHolds == Spec => []NoTaskWithoutWorker
  BY Wakeups, PTL

\* The single notify() of a pop is enough, for any number of threads in run()
\* (ThreadPool.cc:77-80, 104-107).
THEOREM NoRoomWithoutProducerHolds == Spec => []NoRoomWithoutProducer
  BY Wakeups, PTL

------------------------------------------------------------------------------
(* No task is submitted, executed or dropped twice.                        *)

\* The tasks that run() has been given, and those that a thread will give it.
Handed == Elements(submitted) \cup inline \cup dropped
Coming == UNION {Elements(todo[th]) : th \in Threads}

\* A task that is still to be submitted is so by one thread and once, and what
\* a task submits is not known before the task is executed.
Once ==
    /\ \A th \in Threads : Distinct(todo[th])
    /\ \A th, other \in Threads : th # other => Elements(todo[th]) \cap Elements(todo[other]) = {}
    /\ Coming \cap Handed = {}
    /\ Distinct(submitted)
    /\ Elements(submitted) \cap (inline \cup dropped) = {}
    /\ inline \cap dropped = {}
    /\ \A t \in Tasks \ (Elements(begun) \cup inline) :
          Elements(Children[t]) \cap (Coming \cup Handed) = {}

\* The pool runs from start() to stop(), and nobody is in run() before start().
Running ==
    /\ running <=> owner \in {"starting", "started"}
    /\ owner = "new" => threads = <<>> /\ \A th \in Threads : pc[th] # "run"
    /\ dropped # {} => owner \in {"joining", "stopped", "aborted"}

LEMMA InitRunning == Init => Running
  BY DEF Init, Running, Threads

LEMMA NextRunning == TypeOK /\ Running /\ [Next]_vars => Running'
  <1> SUFFICES ASSUME TypeOK, Running, [Next]_vars PROVE Running'
    OBVIOUS
  <1>1. CASE OwnerNext
    BY <1>1 DEF OwnerNext, Start, EmplaceThread, StartThread, Started, Stop, Joined, JoinFails,
                clientVars, TypeOK, Running
  <1>2. ASSUME NEW th \in Threads, Run(th) PROVE Running'
    <2>1. CASE CallRun(th)
      BY <2>1 DEF CallRun, ThreadsEmpty, TypeOK, Running
    <2>2. CASE RunWaits(th)
      BY <2>2 DEF RunWaits, clientVars, TypeOK, Running
    <2>3. CASE RunDrops(th)
      <3>1. owner \in {"joining", "stopped", "aborted"}
        BY <2>3 DEF RunDrops, TypeOK, Running
      <3> QED
        BY <2>3, <3>1 DEF RunDrops, Running
    <2>4. CASE RunPushes(th)
      BY <2>4 DEF RunPushes, TypeOK, Running
    <2> QED
      BY <1>2, <2>1, <2>2, <2>3, <2>4 DEF Run
  <1>3. ASSUME NEW w \in Workers, Work(w) PROVE Running'
    <2>1. /\ UNCHANGED <<running, owner, threads, dropped>>
          /\ \A th \in Threads : pc'[th] = "run" => pc[th] = "run"
      BY <1>3 DEF Work, Loop, TakeWaits, TakePops, TakeStopped, TaskEnds, clientVars, TypeOK, Threads
    <2> QED
      BY <2>1 DEF Running
  <1>4. ASSUME NEW th \in Threads, SpuriousWakeup(th) PROVE Running'
    BY <1>4 DEF SpuriousWakeup, clientVars, Running
  <1>5. CASE UNCHANGED vars
    BY <1>5 DEF vars, Running
  <1> QED
    BY <1>1, <1>2, <1>3, <1>4, <1>5 DEF Next

\* OnceAssumption in terms of the sets of tasks.
LEMMA OnceSets ==
    /\ \A p \in Producers : Distinct(Program[p])
    /\ \A p, q \in Producers : p # q => Elements(Program[p]) \cap Elements(Program[q]) = {}
    /\ \A t \in Tasks : Distinct(Children[t])
    /\ \A t, u \in Tasks : t # u => Elements(Children[t]) \cap Elements(Children[u]) = {}
    /\ \A p \in Producers, t \in Tasks : Elements(Program[p]) \cap Elements(Children[t]) = {}
  <1>1. ASSUME NEW p \in Producers PROVE Distinct(Program[p])
    BY OnceAssumption DEF Distinct
  <1>2. ASSUME NEW t \in Tasks PROVE Distinct(Children[t])
    BY OnceAssumption DEF Distinct
  <1>3. ASSUME NEW p \in Producers, NEW q \in Producers, p # q,
               NEW i \in 1 .. Len(Program[p]), NEW j \in 1 .. Len(Program[q]),
               Program[p][i] = Program[q][j]
        PROVE  FALSE
    BY <1>3, OnceAssumption
  <1>4. ASSUME NEW t \in Tasks, NEW u \in Tasks, t # u,
               NEW i \in 1 .. Len(Children[t]), NEW j \in 1 .. Len(Children[u]),
               Children[t][i] = Children[u][j]
        PROVE  FALSE
    BY <1>4, OnceAssumption
  <1>5. ASSUME NEW p \in Producers, NEW t \in Tasks,
               NEW i \in 1 .. Len(Program[p]), NEW j \in 1 .. Len(Children[t]),
               Program[p][i] = Children[t][j]
        PROVE  FALSE
    BY <1>5, OnceAssumption
  <1>6. \A p, q \in Producers : p # q => Elements(Program[p]) \cap Elements(Program[q]) = {}
    BY <1>3, Zenon DEF Elements
  <1>7. \A t, u \in Tasks : t # u => Elements(Children[t]) \cap Elements(Children[u]) = {}
    BY <1>4, Zenon DEF Elements
  <1>8. \A p \in Producers, t \in Tasks : Elements(Program[p]) \cap Elements(Children[t]) = {}
    BY <1>5, Zenon DEF Elements
  <1> QED
    BY <1>1, <1>2, <1>6, <1>7, <1>8

\* At first a producer has its program to submit and nothing has been handed over.
LEMMA InitOnce == Init => Once
  <1> SUFFICES ASSUME Init PROVE Once
    OBVIOUS
  <1>1. /\ Elements(submitted) = {} /\ Elements(begun) = {} /\ Distinct(submitted)
        /\ inline = {} /\ dropped = {}
    BY EmptyElements DEF Init
  <1>2. \A th \in Threads : \/ th \in Producers /\ todo[th] = Program[th]
                            \/ Elements(todo[th]) = {} /\ Distinct(todo[th])
    BY EmptyElements DEF Init
  <1>3. \A th \in Threads : Distinct(todo[th])
    BY <1>2, OnceSets, Zenon
  <1>4. ASSUME NEW th \in Threads, NEW other \in Threads, th # other
        PROVE  Elements(todo[th]) \cap Elements(todo[other]) = {}
    BY <1>2, <1>4, OnceSets
  <1>5. ASSUME NEW t \in Tasks, NEW th \in Threads
        PROVE  Elements(Children[t]) \cap Elements(todo[th]) = {}
    BY <1>2, OnceSets
  <1>6. \A t \in Tasks : Elements(Children[t]) \cap Coming = {}
    BY <1>5 DEF Coming
  <1> QED
    BY <1>1, <1>3, <1>4, <1>6 DEF Once, Handed

\* A thread gets other tasks to submit: some of those it had, and new ones.
LEMMA TodoGets ==
    ASSUME TypeOK, Once, NEW th \in Threads, NEW E, E \cap Coming = {},
           NEW n, Distinct(n), Elements(n) \subseteq Elements(todo[th]) \cup E,
           todo' = [todo EXCEPT ![th] = n]
    PROVE  /\ \A t \in Threads : Distinct(todo'[t])
           /\ \A t, other \in Threads : t # other => Elements(todo'[t]) \cap Elements(todo'[other]) = {}
           /\ Coming' \subseteq Coming \cup E
           /\ \A x \in Elements(todo[th]) \ Elements(n) : x \notin Coming'
  <1>1. \A t \in Threads : todo'[t] = IF t = th THEN n ELSE todo[t]
    BY DEF TypeOK
  <1>2. \A t \in Threads : Elements(todo[t]) \subseteq Coming
    BY DEF Coming
  <1>3. \A t \in Threads : Distinct(todo'[t])
    BY <1>1 DEF Once
  <1>4. ASSUME NEW t \in Threads, NEW other \in Threads, t # other
        PROVE  Elements(todo'[t]) \cap Elements(todo'[other]) = {}
    <2>1. \A u, v \in Threads : u # v => Elements(todo[u]) \cap Elements(todo[v]) = {}
      BY DEF Once
    <2>2. CASE t = th
      BY <1>1, <1>2, <1>4, <2>1, <2>2
    <2>3. CASE other = th
      BY <1>1, <1>2, <1>4, <2>1, <2>3
    <2>4. CASE t # th /\ other # th
      BY <1>1, <1>4, <2>1, <2>4
    <2> QED
      BY <2>2, <2>3, <2>4
  <1>5. \A x : x \in Coming' <=> \E t \in Threads : x \in Elements(todo'[t])
    BY Zenon DEF Coming
  <1>6. Coming' \subseteq Coming \cup E
    BY <1>1, <1>2, <1>5
  <1>7. ASSUME NEW x \in Elements(todo[th]), x \notin Elements(n), NEW t \in Threads
        PROVE  x \notin Elements(todo'[t])
    <2>1. CASE t = th
      BY <1>1, <1>7, <2>1
    <2>2. CASE t # th
      <3>1. Elements(todo[th]) \cap Elements(todo[t]) = {}
        BY <2>2 DEF Once
      <3> QED
        BY <1>1, <2>2, <3>1
    <2> QED
      BY <2>1, <2>2
  <1> QED
    BY <1>3, <1>4, <1>5, <1>6, <1>7

\* The next task of a thread leaves its todo list for `submitted`, or is dropped.
LEMMA HandOver ==
    ASSUME TypeOK, Once, NEW th \in Threads, todo[th] # <<>>,
           todo' = [todo EXCEPT ![th] = Tail(@)], begun' = begun, inline' = inline,
           \/ submitted' = Append(submitted, Head(todo[th])) /\ dropped' = dropped
           \/ submitted' = submitted /\ dropped' = dropped \cup {Head(todo[th])}
    PROVE  Once'
  <1> DEFINE task == Head(todo[th])
  <1>1. /\ todo[th] \in Seq(Tasks) /\ submitted \in Seq(Tasks) /\ task \in Tasks
        /\ Tail(todo[th]) \in Seq(Tasks)
    BY HeadTailProperties DEF TypeOK
  <1>2. /\ Elements(todo[th]) = {task} \cup Elements(Tail(todo[th]))
        /\ Distinct(Tail(todo[th])) /\ task \notin Elements(Tail(todo[th]))
    BY <1>1, TailElements DEF Once
  <1>3. todo' = [todo EXCEPT ![th] = Tail(todo[th])]
    OBVIOUS
  <1>4. /\ \A t \in Threads : Distinct(todo'[t])
        /\ \A t, other \in Threads : t # other => Elements(todo'[t]) \cap Elements(todo'[other]) = {}
        /\ Coming' \subseteq Coming
        /\ task \notin Coming'
    <2> DEFINE rest == Tail(todo[th])
               new == {}
    <2>1. new \cap Coming = {} /\ Elements(rest) \subseteq Elements(todo[th]) \cup new
      BY <1>2
    <2>2. todo' = [todo EXCEPT ![th] = rest] /\ Distinct(rest)
      BY <1>2, <1>3
    <2> HIDE DEF rest, new, task
    <2>3. /\ \A t \in Threads : Distinct(todo'[t])
          /\ \A t, other \in Threads : t # other => Elements(todo'[t]) \cap Elements(todo'[other]) = {}
          /\ Coming' \subseteq Coming \cup new
          /\ \A x \in Elements(todo[th]) \ Elements(rest) : x \notin Coming'
      BY <2>1, <2>2, TodoGets
    <2> QED
      BY <1>2, <2>3 DEF new, rest
  <1>5. task \in Coming
    BY <1>2 DEF Coming
  <1>6. Elements(Append(submitted, task)) = Elements(submitted) \cup {task}
    BY <1>1, AppendElements
  <1>7. /\ task \notin Elements(submitted) /\ task \notin inline /\ task \notin dropped
        /\ Handed' = Handed \cup {task}
    BY <1>5, <1>6 DEF Once, Handed
  <1>8. Distinct(submitted')
    <2>1. Distinct(submitted)
      BY DEF Once
    <2>2. Distinct(Append(submitted, task))
      BY <1>1, <1>7, <2>1, AppendElements
    <2> QED
      BY <2>1, <2>2
  <1>9. /\ Elements(submitted') \cap (inline' \cup dropped') = {}
        /\ inline' \cap dropped' = {}
    <2>1. Elements(submitted) \cap (inline \cup dropped) = {} /\ inline \cap dropped = {}
      BY DEF Once
    <2>2. task \notin Elements(submitted) /\ task \notin inline /\ task \notin dropped
      BY <1>7
    <2>3. CASE submitted' = Append(submitted, task) /\ dropped' = dropped /\ inline' = inline
      <3>1. Elements(submitted') = Elements(submitted) \cup {task}
        BY <1>6, <2>3
      <3> HIDE DEF task
      <3> QED
        BY <2>1, <2>2, <2>3, <3>1
    <2>4. CASE submitted' = submitted /\ dropped' = dropped \cup {task} /\ inline' = inline
      <3>1. Elements(submitted') = Elements(submitted)
        BY <2>4
      <3> HIDE DEF task
      <3> QED
        BY <2>1, <2>2, <2>4, <3>1
    <2> QED
      BY <2>3, <2>4
  <1>10. Coming' \cap Handed' = {}
    BY <1>4, <1>7 DEF Once
  <1>11. \A t \in Tasks \ (Elements(begun') \cup inline') :
            Elements(Children[t]) \cap (Coming' \cup Handed') = {}
    BY <1>4, <1>5, <1>7 DEF Once
  <1> QED
    BY <1>4, <1>8, <1>9, <1>10, <1>11 DEF Once

\* What a task submits is known once the task is executed, and not before.
LEMMA ChildrenNew ==
    ASSUME TypeOK, Once, NEW task \in Tasks, task \notin Elements(begun) \cup inline
    PROVE  /\ Elements(Children[task]) \cap Coming = {}
           /\ Elements(Children[task]) \cap Handed = {}
           /\ Distinct(Children[task]) /\ Children[task] \in Seq(Tasks)
           /\ \A t \in Tasks \ {task} : Elements(Children[t]) \cap Elements(Children[task]) = {}
  BY OnceSets DEF Once

\* run() executes a task itself: what the task submits comes before the rest.
LEMMA ExecutedInline ==
    ASSUME IInv, Once, NEW th \in Threads, CallRun(th), UNCHANGED pc
    PROVE  Once'
  <1> DEFINE task == Head(todo[th])
             rest == Tail(todo[th])
             first == Children[task]
             n == first \o rest
  <1>0. TypeOK
    BY DEF IInv
  <1>1. /\ todo[th] \in Seq(Tasks) /\ todo[th] # <<>> /\ task \in Tasks /\ rest \in Seq(Tasks)
        /\ begun \in Seq(Tasks) /\ queue \in Seq(Tasks) /\ submitted = begun \o queue
    BY <1>0, HeadTailProperties DEF TypeOK, CallRun, IInv, FirstInFirstOut
  <1>2. /\ todo' = [todo EXCEPT ![th] = n]
        /\ inline' = inline \cup {task}
        /\ UNCHANGED <<submitted, begun, dropped>>
    <2>1. pc' # [pc EXCEPT ![th] = "run"]
      BY <1>0 DEF CallRun, TypeOK
    <2> QED
      BY <2>1 DEF CallRun
  <1>3. /\ Elements(todo[th]) = {task} \cup Elements(rest)
        /\ Distinct(rest) /\ task \notin Elements(rest)
    BY <1>1, TailElements DEF Once
  <1>4. task \in Coming
    BY <1>3 DEF Coming
  <1>5. task \notin Elements(submitted) /\ task \notin inline /\ task \notin dropped
    BY <1>4 DEF Once, Handed
  <1>6. task \notin Elements(begun) \cup inline
    <2>1. Elements(submitted) = Elements(begun) \cup Elements(queue)
      BY <1>1, ConcatElements
    <2> QED
      BY <1>5, <2>1
  <1> HIDE DEF task
  <1>7. /\ Elements(first) \cap Coming = {} /\ Elements(first) \cap Handed = {}
        /\ Distinct(first) /\ first \in Seq(Tasks)
        /\ \A t \in Tasks \ {task} : Elements(Children[t]) \cap Elements(first) = {}
    BY <1>0, <1>1, <1>6, ChildrenNew
  <1> HIDE DEF first, rest
  <1>8. Elements(rest) \subseteq Coming
    BY <1>3 DEF Coming
  <1>9. Elements(n) = Elements(first) \cup Elements(rest) /\ Distinct(n)
    BY <1>1, <1>3, <1>7, <1>8, ConcatElements
  <1>10. task \notin Elements(n)
    BY <1>3, <1>4, <1>7, <1>9
  <1> HIDE DEF n
  <1>11. /\ \A t \in Threads : Distinct(todo'[t])
         /\ \A t, other \in Threads : t # other => Elements(todo'[t]) \cap Elements(todo'[other]) = {}
         /\ Coming' \subseteq Coming \cup Elements(first)
         /\ \A x \in Elements(todo[th]) \ Elements(n) : x \notin Coming'
    <2>1. Elements(n) \subseteq Elements(todo[th]) \cup Elements(first)
      BY <1>3, <1>9
    <2> QED
      BY <1>0, <1>2, <1>7, <1>9, <2>1, TodoGets
  <1>12. task \notin Coming'
    BY <1>3, <1>10, <1>11
  <1>13. Handed' = Handed \cup {task}
    BY <1>2 DEF Handed
  <1>14. Coming' \cap Handed' = {}
    BY <1>7, <1>11, <1>12, <1>13 DEF Once
  <1>15. /\ Distinct(submitted')
         /\ Elements(submitted') \cap (inline' \cup dropped') = {}
         /\ inline' \cap dropped' = {}
    <2>1. /\ Distinct(submitted) /\ Elements(submitted) \cap (inline \cup dropped) = {}
          /\ inline \cap dropped = {}
      BY DEF Once
    <2> QED
      BY <1>2, <1>5, <2>1
  <1>16. ASSUME NEW t \in Tasks \ (Elements(begun') \cup inline')
         PROVE  Elements(Children[t]) \cap (Coming' \cup Handed') = {}
    <2>1. /\ t \in Tasks \ {task}
          /\ Elements(Children[t]) \cap (Coming \cup Handed) = {}
      BY <1>2 DEF Once
    <2> QED
      BY <1>4, <1>7, <1>11, <1>13, <2>1
  <1> QED
    BY <1>11, <1>14, <1>15, <1>16 DEF Once

\* A worker takes a task from the queue: it has that task's tasks to submit.
LEMMA ExecutedByWorker ==
    ASSUME IInv, Once, NEW w \in Workers, TakePops(w)
    PROVE  Once'
  <1> DEFINE task == Head(queue)
             first == Children[task]
  <1>0. TypeOK /\ w \in Threads
    BY DEF IInv, Threads
  <1>1. /\ queue \in Seq(Tasks) /\ queue # <<>> /\ task \in Tasks
        /\ begun \in Seq(Tasks) /\ submitted = begun \o queue
    BY <1>0, HeadTailProperties DEF TypeOK, TakePops, IInv, FirstInFirstOut
  <1>2. /\ todo' = [todo EXCEPT ![w] = first]
        /\ begun' = Append(begun, task)
        /\ UNCHANGED <<submitted, inline, dropped>>
    BY DEF TakePops
  <1>3. /\ task \in Elements(queue)
        /\ Elements(submitted) = Elements(begun) \cup Elements(queue)
        /\ Elements(begun) \cap Elements(queue) = {}
    <2>1. Distinct(begun \o queue)
      BY <1>1 DEF Once
    <2> QED
      BY <1>1, <2>1, TailElements, ConcatElements
  <1>4. task \notin Elements(begun) \cup inline
    BY <1>3 DEF Once
  <1>5. Elements(begun') = Elements(begun) \cup {task}
    BY <1>1, <1>2, AppendElements
  <1> HIDE DEF task
  <1>6. /\ Elements(first) \cap Coming = {} /\ Elements(first) \cap Handed = {}
        /\ Distinct(first)
        /\ \A t \in Tasks \ {task} : Elements(Children[t]) \cap Elements(first) = {}
    BY <1>0, <1>1, <1>4, ChildrenNew
  <1> HIDE DEF first
  <1>7. /\ \A t \in Threads : Distinct(todo'[t])
        /\ \A t, other \in Threads : t # other => Elements(todo'[t]) \cap Elements(todo'[other]) = {}
        /\ Coming' \subseteq Coming \cup Elements(first)
    <2>1. Elements(first) \subseteq Elements(todo[w]) \cup Elements(first)
      OBVIOUS
    <2> QED
      BY <1>0, <1>2, <1>6, <2>1, TodoGets
  <1>8. Handed' = Handed
    BY <1>2 DEF Handed
  <1>9. Coming' \cap Handed' = {}
    BY <1>6, <1>7, <1>8 DEF Once
  <1>10. ASSUME NEW t \in Tasks \ (Elements(begun') \cup inline')
         PROVE  Elements(Children[t]) \cap (Coming' \cup Handed') = {}
    <2>1. /\ t \in Tasks \ {task}
          /\ Elements(Children[t]) \cap (Coming \cup Handed) = {}
      BY <1>2, <1>5 DEF Once
    <2> QED
      BY <1>6, <1>7, <1>8, <2>1
  <1> QED
    BY <1>2, <1>7, <1>9, <1>10 DEF Once

LEMMA NextOnce == IInv /\ Once /\ [Next]_vars => Once'
  <1> SUFFICES ASSUME IInv, Once, [Next]_vars PROVE Once'
    OBVIOUS
  <1>0. TypeOK
    BY DEF IInv
  <1>1. CASE UNCHANGED <<todo, submitted, begun, inline, dropped>>
    <2>1. Coming' = Coming
      BY <1>1 DEF Coming
    <2>2. Handed' = Handed
      BY <1>1 DEF Handed
    <2> QED
      BY <1>1, <2>1, <2>2 DEF Once
  <1>2. CASE OwnerNext
    BY <1>1, <1>2 DEF OwnerNext, Start, EmplaceThread, StartThread, Started, Stop, Joined, JoinFails, clientVars
  <1>3. ASSUME NEW th \in Threads, Run(th) PROVE Once'
    <2>1. CASE CallRun(th)
      BY <1>1, <2>1, ExecutedInline DEF CallRun
    <2>2. CASE RunWaits(th)
      BY <1>1, <2>2 DEF RunWaits, clientVars
    <2>3. CASE RunDrops(th)
      BY <1>0, <2>3, HandOver DEF RunDrops, IInv
    <2>4. CASE RunPushes(th)
      BY <1>0, <2>4, HandOver DEF RunPushes, IInv
    <2> QED
      BY <1>3, <2>1, <2>2, <2>3, <2>4 DEF Run
  <1>4. ASSUME NEW w \in Workers, Work(w) PROVE Once'
    <2>1. CASE TakePops(w)
      BY <2>1, ExecutedByWorker
    <2>2. CASE Loop(w) \/ TakeStopped(w) \/ TaskEnds(w)
      BY <1>1, <2>2 DEF Loop, TakeStopped, TaskEnds, clientVars
    <2>3. CASE TakeWaits(w)
      BY <1>1, <2>3 DEF TakeWaits, clientVars
    <2> QED
      BY <1>4, <2>1, <2>2, <2>3 DEF Work
  <1>5. ASSUME NEW th \in Threads, SpuriousWakeup(th) PROVE Once'
    BY <1>1, <1>5 DEF SpuriousWakeup, clientVars
  <1>6. CASE UNCHANGED vars
    BY <1>1, <1>6 DEF vars
  <1> QED
    BY <1>2, <1>3, <1>4, <1>5, <1>6 DEF Next

\* Each call of run() has one outcome: its task is queued once, executed by
\* run() itself or dropped, and a task is dropped only by a pool that has been
\* stopped, for any threads and any nesting of tasks (ThreadPool.cc:68-88).
THEOREM NoTaskTwiceHolds == Spec => []NoTaskTwice
  <1>1. IInv => TypeOK
    BY DEF IInv
  <1>2. Once /\ Running => NoTaskTwice
    BY DEF Once, Running, NoTaskTwice, Distinct, Elements
  <1> QED
    BY <1>1, <1>2, InitRunning, InitOnce, NextRunning, NextOnce, Invariance, PTL DEF Spec
=============================================================================
