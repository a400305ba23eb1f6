------------------------- MODULE LoopThreads_proofs -------------------------
(***************************************************************************)
(* Proofs about Threads and LoopThreads, for pools of any size, any other  *)
(* threads and any functors.                                               *)
(***************************************************************************)
EXTENDS LoopThreads, SequenceLemmas, FiniteSetTheorems

USE ObjectsAssumption, OrderAssumption, TasksAssumption

------------------------------------------------------------------------------
(* The handshake of each thread.                                           *)

ThreadTypes ==
    /\ owner \in [Threads -> {"new", "latch", "waiting", "started", "joining", "joined", "destroyed"}]
    /\ count \in [Threads -> 0..1]
    /\ tid \in [Threads -> BOOLEAN]
    /\ thread \in [Threads -> {"none", "created", "tidSet", "running", "ended"}]

\* The latch is down exactly when the new thread has left it, and start() does not
\* return before that.
Handshakes ==
    \A t \in Threads :
        /\ owner[t] = "new" => thread[t] = "none"
        /\ thread[t] = "none" => owner[t] \in {"new", "destroyed"}
        /\ count[t] = IF thread[t] \in {"running", "ended"} THEN 0 ELSE 1
        /\ thread[t] \in {"tidSet", "running", "ended"} => tid[t]
        /\ thread[t] \in {"created", "tidSet"} => owner[t] \in {"latch", "waiting"}
        /\ owner[t] \in {"started", "joining", "joined"} => thread[t] \in {"running", "ended"}

\* A loop thread is never destroyed while the process runs, nor does it end.
NoWorkerEnds == \A t \in Workers : owner[t] # "destroyed" /\ thread[t] # "ended"

ThreadInv == ThreadTypes /\ Handshakes /\ NoWorkerEnds

LEMMA InitThreads == ThreadsInit => ThreadInv
  <1> SUFFICES ASSUME ThreadsInit PROVE ThreadInv
    OBVIOUS
  <1>1. ThreadTypes
    BY DEF ThreadsInit, ThreadTypes
  <1>2. Handshakes
    BY DEF ThreadsInit, Handshakes
  <1>3. NoWorkerEnds
    BY DEF ThreadsInit, NoWorkerEnds
  <1> QED
    BY <1>1, <1>2, <1>3 DEF ThreadInv

\* A step of one thread, in start(), wait(), join() or runInThread().
LEMMA ThreadStep ==
    ASSUME ThreadInv, NEW t \in Threads,
           Start(t) \/ StartFails(t) \/ LatchWait(t) \/ LatchSpurious(t) \/ Handshake(t) \/ Join(t)
    PROVE  ThreadInv'
  <1> USE DEF ThreadInv
  <1>1. ASSUME Start(t) PROVE ThreadInv'
    <2>1. ThreadTypes'
      BY <1>1 DEF Start, ThreadTypes
    <2>2. Handshakes'
      BY <1>1 DEF Start, ThreadTypes, Handshakes
    <2>3. NoWorkerEnds'
      BY <1>1 DEF Start, ThreadTypes, NoWorkerEnds
    <2> QED
      BY <2>1, <2>2, <2>3
  <1>2. ASSUME StartFails(t) PROVE ThreadInv'
    BY <1>2 DEF StartFails, threadVars, ThreadTypes, Handshakes, NoWorkerEnds
  <1>3. ASSUME LatchWait(t) PROVE ThreadInv'
    <2>1. ThreadTypes'
      BY <1>3 DEF LatchWait, ThreadTypes
    <2>2. Handshakes'
      BY <1>3 DEF LatchWait, LatchUp, ThreadTypes, Handshakes
    <2>3. NoWorkerEnds'
      BY <1>3 DEF LatchWait, ThreadTypes, NoWorkerEnds
    <2> QED
      BY <2>1, <2>2, <2>3
  <1>4. ASSUME LatchSpurious(t) PROVE ThreadInv'
    <2>1. ThreadTypes'
      BY <1>4 DEF LatchSpurious, ThreadTypes
    <2>2. Handshakes'
      BY <1>4 DEF LatchSpurious, ThreadTypes, Handshakes
    <2>3. NoWorkerEnds'
      BY <1>4 DEF LatchSpurious, ThreadTypes, NoWorkerEnds
    <2> QED
      BY <2>1, <2>2, <2>3
  <1>5. ASSUME SetTid(t) PROVE ThreadInv'
    <2>1. ThreadTypes'
      BY <1>5 DEF SetTid, ThreadTypes
    <2>2. Handshakes'
      BY <1>5 DEF SetTid, ThreadTypes, Handshakes
    <2>3. NoWorkerEnds'
      BY <1>5 DEF SetTid, ThreadTypes, NoWorkerEnds
    <2> QED
      BY <2>1, <2>2, <2>3
  <1>6. ASSUME CountDown(t) PROVE ThreadInv'
    <2>0. count[t] = 1
      BY <1>6 DEF CountDown, ThreadTypes, Handshakes
    <2>1. ThreadTypes'
      BY <1>6, <2>0 DEF CountDown, ThreadTypes
    <2>2. Handshakes'
      BY <1>6, <2>0 DEF CountDown, ThreadTypes, Handshakes
    <2>3. NoWorkerEnds'
      BY <1>6 DEF CountDown, ThreadTypes, NoWorkerEnds
    <2> QED
      BY <2>1, <2>2, <2>3
  <1>7. ASSUME Join(t) PROVE ThreadInv'
    <2>1. ThreadTypes'
      BY <1>7 DEF Join, ThreadTypes
    <2>2. Handshakes'
      BY <1>7 DEF Join, ThreadTypes, Handshakes
    <2>3. NoWorkerEnds'
      BY <1>7 DEF Join, ThreadTypes, NoWorkerEnds
    <2> QED
      BY <2>1, <2>2, <2>3
  <1> QED
    BY <1>1, <1>2, <1>3, <1>4, <1>5, <1>6, <1>7 DEF Handshake

\* What only a thread on its own does.
LEMMA PlainStep ==
    ASSUME ThreadInv, NEW t \in Plain, FuncReturns(t) \/ Joined(t) \/ Destroy(t)
    PROVE  ThreadInv'
  <1> USE DEF ThreadInv
  <1>0. t \in Threads /\ t \notin Workers
    OBVIOUS
  <1>1. ASSUME FuncReturns(t) PROVE ThreadInv'
    <2>1. ThreadTypes'
      BY <1>1 DEF FuncReturns, ThreadTypes
    <2>2. Handshakes'
      BY <1>0, <1>1 DEF FuncReturns, ThreadTypes, Handshakes
    <2>3. NoWorkerEnds'
      BY <1>0, <1>1 DEF FuncReturns, ThreadTypes, NoWorkerEnds
    <2> QED
      BY <2>1, <2>2, <2>3
  <1>2. ASSUME Joined(t) PROVE ThreadInv'
    <2>1. ThreadTypes'
      BY <1>2 DEF Joined, ThreadTypes
    <2>2. Handshakes'
      BY <1>0, <1>2 DEF Joined, ThreadTypes, Handshakes
    <2>3. NoWorkerEnds'
      BY <1>0, <1>2 DEF Joined, ThreadTypes, NoWorkerEnds
    <2> QED
      BY <2>1, <2>2, <2>3
  <1>3. ASSUME Destroy(t) PROVE ThreadInv'
    <2>1. ThreadTypes'
      BY <1>3 DEF Destroy, ThreadTypes
    <2>2. Handshakes'
      BY <1>0, <1>3 DEF Destroy, ThreadTypes, Handshakes
    <2>3. NoWorkerEnds'
      BY <1>0, <1>3 DEF Destroy, ThreadTypes, NoWorkerEnds
    <2> QED
      BY <2>1, <2>2, <2>3
  <1> QED
    BY <1>1, <1>2, <1>3

------------------------------------------------------------------------------
(* The pool: its loops are those of its first threads, in order.           *)

PoolTypes ==
    /\ numThreads \in 0..Len(Pool)
    /\ main \in {"new", "starting", "waitLoop", "onCond", "started", "destroying", "destroyed"}
    /\ failed \in BOOLEAN
    /\ loops \in Seq(Workers)
    /\ next \in Nat
    /\ published \in SUBSET Workers

\* While start() runs there is another thread to make.
LoopsInOrder ==
    /\ Len(loops) <= numThreads
    /\ main = "new" => loops = <<>>
    /\ main \in {"starting", "waitLoop", "onCond"} => Len(loops) < numThreads
    /\ \A i \in 1 .. Len(loops) : loops[i] = Pool[i] /\ loops[i] \in published
    /\ next = 0 \/ next < Len(loops)

\* A loop that threadFunc() has made is there.
LoopsRun == \A t \in published : thread[t] = "running"

PoolInv == PoolTypes /\ LoopsInOrder /\ LoopsRun

LEMMA InitPool == Init => PoolInv
  <1> SUFFICES ASSUME Init PROVE PoolInv
    OBVIOUS
  <1>1. <<>> \in Seq(Workers) /\ Len(<<>>) = 0
    BY EmptySeq
  <1>2. PoolTypes
    BY <1>1 DEF Init, PoolTypes
  <1>3. LoopsInOrder
    <2>1. numThreads \in Nat /\ loops = <<>> /\ next = 0 /\ main = "new"
      BY LenProperties DEF Init
    <2> QED
      BY <1>1, <2>1 DEF LoopsInOrder
  <1> QED
    BY <1>2, <1>3 DEF Init, PoolInv, LoopsRun

\* The thread that start() is making is one of the pool.
LEMMA NewThreadIs ==
    ASSUME PoolInv, main \in {"starting", "waitLoop", "onCond"}
    PROVE  NewThread \in Workers /\ NewThread = Pool[Len(loops) + 1] /\ Len(loops) \in Nat
  <1>1. /\ Len(loops) \in Nat /\ Len(Pool) \in Nat /\ Len(loops) < numThreads
        /\ numThreads \in 0 .. Len(Pool)
    BY LenProperties DEF PoolInv, PoolTypes, LoopsInOrder
  <1>2. Len(loops) + 1 \in 1 .. Len(Pool)
    BY <1>1
  <1>3. Pool[Len(loops) + 1] \in Workers
    BY <1>2, ElementOfSeq
  <1> QED
    BY <1>1, <1>3 DEF NewThread

\* No step of a thread stops a thread that runs, but that of a thread on its own.
StaysRunning == \A u \in Workers : thread[u] = "running" => thread'[u] = "running"

LEMMA ThreadStepRuns ==
    ASSUME ThreadInv, NEW t \in Threads,
           \/ Start(t) \/ StartFails(t) \/ LatchWait(t) \/ LatchSpurious(t) \/ Handshake(t) \/ Join(t)
           \/ t \in Plain /\ (FuncReturns(t) \/ Joined(t) \/ Destroy(t))
    PROVE  StaysRunning
  <1> SUFFICES ASSUME NEW u \in Workers, thread[u] = "running" PROVE thread'[u] = "running"
    BY DEF StaysRunning
  <1>1. u \in Threads /\ u \notin Plain
    OBVIOUS
  <1>2. owner[u] # "new"
    BY <1>1 DEF ThreadInv, Handshakes
  <1>3. CASE Start(t) \/ StartFails(t) \/ LatchWait(t) \/ LatchSpurious(t)
    BY <1>1, <1>2, <1>3 DEF Start, StartFails, LatchWait, LatchSpurious, threadVars, ThreadInv, ThreadTypes
  <1>4. CASE Handshake(t) \/ Join(t)
    BY <1>1, <1>4 DEF Handshake, SetTid, CountDown, Join, ThreadInv, ThreadTypes
  <1>5. CASE t \in Plain /\ (FuncReturns(t) \/ Joined(t) \/ Destroy(t))
    BY <1>1, <1>5 DEF FuncReturns, Joined, Destroy, ThreadInv, ThreadTypes
  <1> QED
    BY <1>3, <1>4, <1>5

\* Steps that leave the pool alone.
LEMMA SamePool ==
    ASSUME PoolInv, StaysRunning, UNCHANGED poolVars
    PROVE  PoolInv'
  <1>1. PoolTypes' /\ LoopsInOrder'
    BY DEF PoolInv, PoolTypes, LoopsInOrder, poolVars
  <1>2. LoopsRun'
    BY DEF PoolInv, PoolTypes, LoopsRun, StaysRunning, poolVars
  <1> QED
    BY <1>1, <1>2 DEF PoolInv

\* All threads as they were.
LEMMA SameThreads ==
    ASSUME ThreadInv, UNCHANGED threadVars
    PROVE  ThreadInv' /\ StaysRunning
  <1>1. ThreadTypes' /\ Handshakes' /\ NoWorkerEnds'
    BY DEF threadVars, ThreadInv, ThreadTypes, Handshakes, NoWorkerEnds
  <1>2. StaysRunning
    BY DEF threadVars, StaysRunning
  <1> QED
    BY <1>1, <1>2 DEF ThreadInv

\* EventLoopThreadPool::start.
LEMMA StartPool ==
    ASSUME ThreadInv, PoolInv, PoolStart \/ Starting \/ SpuriousLoop
    PROVE  ThreadInv' /\ PoolInv'
  <1> USE DEF PoolInv
  <1>0. Len(loops) \in Nat /\ numThreads \in Nat
    BY LenProperties DEF PoolTypes
  <1>1. ASSUME PoolStart PROVE ThreadInv' /\ PoolInv'
    <2>1. /\ main = "new" /\ main' \in {"starting", "started"}
          /\ main' = "starting" => numThreads # 0
          /\ UNCHANGED <<threadVars, numThreads, failed, loops, next, published>>
      BY <1>1 DEF PoolStart
    <2>2. ThreadInv' /\ StaysRunning
      BY <2>1, SameThreads
    <2>3. PoolTypes'
      BY <2>1 DEF PoolTypes
    <2>4. LoopsInOrder'
      BY <1>0, <2>1, EmptySeq DEF LoopsInOrder
    <2>5. LoopsRun'
      BY <2>1, <2>2 DEF LoopsRun, StaysRunning, PoolTypes
    <2> QED
      BY <2>2, <2>3, <2>4, <2>5
  <1>2. ASSUME StartLoop PROVE ThreadInv' /\ PoolInv'
    <2>1. /\ main = "starting" /\ main' = "waitLoop" /\ failed' \in BOOLEAN
          /\ Start(NewThread) \/ StartFails(NewThread)
          /\ UNCHANGED <<numThreads, loops, next, published>>
      BY <1>2 DEF StartLoop, PoolTypes
    <2>2. NewThread \in Threads
      BY <2>1, NewThreadIs
    <2>3. ThreadInv' /\ StaysRunning
      BY <2>1, <2>2, ThreadStep, ThreadStepRuns
    <2>4. PoolTypes' /\ LoopsInOrder'
      BY <2>1 DEF PoolTypes, LoopsInOrder
    <2>5. LoopsRun'
      BY <2>1, <2>3 DEF LoopsRun, StaysRunning, PoolTypes
    <2> QED
      BY <2>3, <2>4, <2>5
  <1>3. ASSUME WaitLoop PROVE ThreadInv' /\ PoolInv'
    <2>1. main = "waitLoop" /\ UNCHANGED <<threadVars, numThreads, failed, next, published>>
      BY <1>3 DEF WaitLoop
    <2>2. ThreadInv' /\ StaysRunning
      BY <2>1, SameThreads
    <2>3. LoopsRun'
      BY <2>1, <2>2 DEF LoopsRun, StaysRunning, PoolTypes
    <2>4. CASE NewThread \notin published
      <3>1. main' = "onCond" /\ loops' = loops
        BY <1>3, <2>4 DEF WaitLoop
      <3> QED
        BY <2>1, <2>2, <2>3, <3>1 DEF PoolTypes, LoopsInOrder
    <2>5. CASE NewThread \in published
      <3> DEFINE n == Len(loops)
      <3>1. /\ loops' = Append(loops, NewThread)
            /\ main' \in {"starting", "started"}
            /\ main' = "starting" => Len(loops') < numThreads
        BY <1>3, <2>5 DEF WaitLoop
      <3>2. NewThread \in Workers /\ NewThread = Pool[n + 1] /\ n \in Nat /\ n < numThreads
        BY <2>1, NewThreadIs DEF LoopsInOrder
      <3>3. /\ loops' \in Seq(Workers) /\ Len(loops') = n + 1 /\ loops'[n + 1] = NewThread
            /\ \A i \in 1 .. n : loops'[i] = loops[i]
        BY <3>1, <3>2, AppendProperties DEF PoolTypes
      <3>4. PoolTypes'
        BY <2>1, <3>1, <3>3 DEF PoolTypes
      <3>5. \A i \in 1 .. Len(loops') : loops'[i] = Pool[i] /\ loops'[i] \in published
        BY <2>5, <3>2, <3>3 DEF LoopsInOrder
      <3>6. /\ Len(loops') <= numThreads
            /\ next = 0 \/ next < Len(loops')
        BY <1>0, <3>2, <3>3 DEF LoopsInOrder, PoolTypes
      <3>7. LoopsInOrder'
        BY <2>1, <3>1, <3>5, <3>6 DEF LoopsInOrder
      <3> QED
        BY <2>2, <2>3, <3>4, <3>7
    <2> QED
      BY <2>4, <2>5
  <1>4. ASSUME SpuriousLoop PROVE ThreadInv' /\ PoolInv'
    <2>1. /\ main = "onCond" /\ main' = "waitLoop"
          /\ UNCHANGED <<threadVars, numThreads, failed, loops, next, published>>
      BY <1>4 DEF SpuriousLoop
    <2>2. ThreadInv' /\ StaysRunning
      BY <2>1, SameThreads
    <2>3. PoolTypes' /\ LoopsInOrder'
      BY <2>1 DEF PoolTypes, LoopsInOrder
    <2>4. LoopsRun'
      BY <2>1, <2>2 DEF LoopsRun, StaysRunning, PoolTypes
    <2> QED
      BY <2>2, <2>3, <2>4
  <1> QED
    BY <1>1, <1>2, <1>3, <1>4 DEF Starting

LEMMA PublishPool ==
    ASSUME ThreadInv, PoolInv, NEW t \in Workers, Publish(t)
    PROVE  ThreadInv' /\ PoolInv'
  <1> USE DEF PoolInv
  <1>1. /\ thread[t] = "running" /\ published' = published \cup {t}
        /\ main' = main \/ (main = "onCond" /\ main' = "waitLoop")
        /\ UNCHANGED <<threadVars, numThreads, failed, loops, next>>
    BY DEF Publish
  <1>2. ThreadInv' /\ StaysRunning
    BY <1>1, SameThreads
  <1>3. PoolTypes' /\ LoopsInOrder'
    BY <1>1 DEF PoolTypes, LoopsInOrder
  <1>4. LoopsRun'
    BY <1>1 DEF LoopsRun, threadVars
  <1> QED
    BY <1>2, <1>3, <1>4

\* getNextLoop() stays inside loops_.
LEMMA DispatchPool ==
    ASSUME ThreadInv, PoolInv, Dispatch
    PROVE  ThreadInv' /\ PoolInv'
  <1> USE DEF PoolInv
  <1>1. /\ main = "started" /\ next' = IF loops = <<>> THEN next ELSE Advance
        /\ UNCHANGED <<threadVars, numThreads, main, failed, loops, published>>
    BY DEF Dispatch
  <1>2. ThreadInv' /\ StaysRunning
    BY <1>1, SameThreads
  <1>3. next' \in Nat /\ (next' = 0 \/ next' < Len(loops))
    <2>1. Len(loops) \in Nat /\ next \in Nat
      BY LenProperties DEF PoolTypes
    <2> QED
      BY <1>1, <2>1 DEF Advance, LoopsInOrder
  <1>4. PoolTypes' /\ LoopsInOrder'
    BY <1>1, <1>3 DEF PoolTypes, LoopsInOrder
  <1>5. LoopsRun'
    BY <1>1, <1>2 DEF LoopsRun, StaysRunning, PoolTypes
  <1> QED
    BY <1>2, <1>4, <1>5

LEMMA DestroyPoolStep ==
    ASSUME ThreadInv, PoolInv, DestroyPool
    PROVE  ThreadInv' /\ PoolInv'
  <1> USE DEF PoolInv
  <1>1. /\ main' \in {"destroyed", "destroying"}
        /\ UNCHANGED <<threadVars, numThreads, failed, loops, next, published>>
    BY DEF DestroyPool
  <1>2. ThreadInv' /\ StaysRunning
    BY <1>1, SameThreads
  <1>3. PoolTypes' /\ LoopsInOrder'
    BY <1>1 DEF PoolTypes, LoopsInOrder
  <1>4. LoopsRun'
    BY <1>1, <1>2 DEF LoopsRun, StaysRunning, PoolTypes
  <1> QED
    BY <1>2, <1>3, <1>4

LEMMA NextPool ==
    ASSUME ThreadInv, PoolInv, [Next]_vars
    PROVE  ThreadInv' /\ PoolInv'
  <1>1. CASE PoolStart \/ Starting \/ SpuriousLoop
    BY <1>1, StartPool
  <1>2. CASE Dispatch
    BY <1>2, DispatchPool
  <1>3. CASE DestroyPool
    BY <1>3, DestroyPoolStep
  <1>4. ASSUME NEW t \in Workers, LoopThread(t) \/ JoinLoop(t)
        PROVE  ThreadInv' /\ PoolInv'
    <2>1. CASE Publish(t)
      BY <2>1, PublishPool
    <2>2. CASE (Handshake(t) \/ Join(t)) /\ UNCHANGED poolVars
      <3>1. t \in Threads
        OBVIOUS
      <3> QED
        BY <2>2, <3>1, ThreadStep, ThreadStepRuns, SamePool
    <2> QED
      BY <1>4, <2>1, <2>2 DEF LoopThread, JoinLoop
  <1>5. ASSUME NEW t \in Threads, (LatchWait(t) \/ LatchSpurious(t)) /\ UNCHANGED poolVars
        PROVE  ThreadInv' /\ PoolInv'
    BY <1>5, ThreadStep, ThreadStepRuns, SamePool
  <1>6. ASSUME NEW t \in Plain, PlainNext(t)
        PROVE  ThreadInv' /\ PoolInv'
    <2>1. t \in Threads /\ UNCHANGED poolVars
      BY <1>6 DEF PlainNext
    <2>2. CASE FuncReturns(t) \/ Joined(t) \/ Destroy(t)
      BY <2>1, <2>2, PlainStep, ThreadStepRuns, SamePool
    <2>3. CASE Start(t) \/ StartFails(t) \/ Join(t) \/ Handshake(t)
      BY <2>1, <2>3, ThreadStep, ThreadStepRuns, SamePool
    <2> QED
      BY <1>6, <2>2, <2>3 DEF PlainNext
  <1>7. ASSUME UNCHANGED threadVars, UNCHANGED poolVars
        PROVE  ThreadInv' /\ PoolInv'
    BY <1>7, SameThreads, SamePool
  <1>8. ASSUME NEW l \in Loops, Turn(l)
        PROVE  UNCHANGED threadVars /\ UNCHANGED poolVars
    BY <1>8 DEF Turn, PushEnds, Wakeup, HandleWakeup, DoPendingFunctors, RunFunctor, EndTurn
  <1>9. CASE UNCHANGED vars
    BY <1>7, <1>9 DEF vars
  <1> QED
    BY <1>1, <1>2, <1>3, <1>4, <1>5, <1>6, <1>7, <1>8, <1>9 DEF Next, Latch

------------------------------------------------------------------------------
(* The loops and what is queued on them.                                   *)

Calls == Tasks \X Loops \X {"push", "wake"}

LoopTypes ==
    /\ turn \in [Loops -> {"none", "poll", "swap", "run"}]
    /\ counter \in [Loops -> BOOLEAN]
    /\ pending \in [Loops -> Seq(Tasks)]
    /\ functors \in [Loops -> Seq(Tasks)]
    /\ pushing \in [Loops -> {<<>>} \cup Calls]
    /\ todo \in Seq(Tasks)
    /\ ran \in SUBSET Tasks /\ IsFiniteSet(ran)
    /\ raced \in SUBSET Loops
    /\ crashed \in BOOLEAN

LEMMA InitLoops == Init => LoopTypes
  <1> SUFFICES ASSUME Init PROVE LoopTypes
    OBVIOUS
  <1>1. <<>> \in Seq(Tasks)
    BY EmptySeq
  <1>2. /\ turn \in [Loops -> {"none", "poll", "swap", "run"}]
        /\ counter \in [Loops -> BOOLEAN]
        /\ raced \in SUBSET Loops /\ crashed \in BOOLEAN
    BY DEF Init
  <1>3. /\ pending \in [Loops -> Seq(Tasks)] /\ functors \in [Loops -> Seq(Tasks)]
        /\ todo \in Seq(Tasks)
    BY <1>1 DEF Init
  <1>4. pushing \in [Loops -> {<<>>} \cup Calls]
    BY DEF Init
  <1>5. ran \in SUBSET Tasks /\ IsFiniteSet(ran)
    BY FS_EmptySet DEF Init
  <1> QED
    BY <1>2, <1>3, <1>4, <1>5 DEF LoopTypes

\* getNextLoop() and getLoopForHash() return a loop.
LEMMA LoopForHashIs ==
    ASSUME PoolTypes, NEW hash \in Nat
    PROVE  LoopForHash(hash) \in Loops
  <1>1. Len(loops) \in Nat /\ (loops # <<>> => Len(loops) # 0)
    BY EmptySeq, LenProperties DEF PoolTypes
  <1>2. loops # <<>> => (hash % Len(loops)) + 1 \in 1 .. Len(loops)
    BY <1>1
  <1>3. loops # <<>> => loops[(hash % Len(loops)) + 1] \in Workers
    BY <1>2, ElementOfSeq DEF PoolTypes
  <1> QED
    BY <1>3 DEF LoopForHash, Loops

NextLoop == IF loops = <<>> THEN Base ELSE loops[next + 1]

LEMMA NextLoopIs ==
    ASSUME PoolInv
    PROVE  /\ NextLoop \in Loops
           /\ loops # <<>> => next + 1 \in 1 .. Len(loops)
  <1>1. Len(loops) \in Nat /\ (loops # <<>> => Len(loops) # 0)
    BY EmptySeq, LenProperties DEF PoolInv, PoolTypes
  <1>2. loops # <<>> => next + 1 \in 1 .. Len(loops)
    BY <1>1 DEF PoolInv, PoolTypes, LoopsInOrder
  <1>3. loops # <<>> => loops[next + 1] \in Workers
    BY <1>2, ElementOfSeq DEF PoolInv, PoolTypes
  <1> QED
    BY <1>2, <1>3 DEF NextLoop, Loops

\* A call that a loop thread is in.
LEMMA CallIs ==
    ASSUME LoopTypes, NEW x \in Loops, pushing[x] # <<>>
    PROVE  /\ pushing[x][1] \in Tasks /\ pushing[x][2] \in Loops
           /\ pushing[x] = <<pushing[x][1], pushing[x][2], pushing[x][3]>>
  BY DEF LoopTypes, Calls

LEMMA CallAt ==
    ASSUME NEW a, NEW b, NEW c, NEW d, NEW e, e = <<a, b, c>>
    PROVE  [e EXCEPT ![3] = d] = <<a, b, d>>
  OBVIOUS

LEMMA DispatchLoops ==
    ASSUME PoolInv, LoopTypes, Dispatch
    PROVE  LoopTypes'
  <1>1. todo \in Seq(Tasks) /\ todo # <<>>
    BY DEF Dispatch, LoopTypes
  <1>2. Head(todo) \in Tasks /\ Tail(todo) \in Seq(Tasks)
    BY <1>1, HeadTailProperties
  <1>3. /\ pushing' = [pushing EXCEPT ![Base] = <<Head(todo), NextLoop, "push">>]
        /\ todo' = Tail(todo) /\ turn' = [turn EXCEPT ![Base] = "swap"]
        /\ UNCHANGED <<counter, pending, functors, ran, raced, crashed>>
    BY DEF Dispatch, NextLoop
  <1>4. <<Head(todo), NextLoop, "push">> \in Calls
    BY <1>2, NextLoopIs DEF Calls
  <1> QED
    BY <1>2, <1>3, <1>4 DEF LoopTypes

LEMMA TurnLoops ==
    ASSUME PoolInv, LoopTypes, NEW l \in Loops, Turn(l)
    PROVE  LoopTypes'
  <1>1. ASSUME PushEnds(l) PROVE LoopTypes'
    <2> DEFINE task == pushing[l][1]
               k    == pushing[l][2]
    <2>1. pushing[l] # <<>> /\ task \in Tasks /\ k \in Loops
      BY <1>1, CallIs DEF PushEnds, InPush
    <2>2. pushing' \in [Loops -> {<<>>} \cup Calls]
      <3>1. pushing[l] \in Calls /\ pushing' = [pushing EXCEPT ![l] = [pushing[l] EXCEPT ![3] = "wake"]]
        BY <1>1, <2>1 DEF PushEnds, LoopTypes
      <3>2. [pushing[l] EXCEPT ![3] = "wake"] \in Calls
        <4>1. pushing[l] = <<task, k, pushing[l][3]>>
          BY <2>1, CallIs
        <4>2. [pushing[l] EXCEPT ![3] = "wake"] = <<task, k, "wake">>
          BY <4>1, CallAt
        <4> QED
          BY <2>1, <4>2 DEF Calls
      <3> QED
        BY <3>1, <3>2 DEF LoopTypes
    <2>3. raced' \in SUBSET Loops /\ crashed' \in BOOLEAN
      BY <1>1, <2>1 DEF PushEnds, RaceIf, LoopTypes
    <2>4. pending' \in [Loops -> Seq(Tasks)]
      <3>1. pending' = [pending EXCEPT ![k] = Append(pending[k], task)] \/ pending' = pending
        BY <1>1 DEF PushEnds
      <3> HIDE DEF task, k
      <3>2. pending \in [Loops -> Seq(Tasks)] /\ pending[k] \in Seq(Tasks)
        BY <2>1 DEF LoopTypes
      <3>3. Append(pending[k], task) \in Seq(Tasks)
        BY <2>1, <3>2, AppendProperties
      <3> QED
        BY <3>1, <3>2, <3>3
    <2>5. UNCHANGED <<turn, counter, functors, ran, todo>>
      BY <1>1 DEF PushEnds
    <2> QED
      BY <2>2, <2>3, <2>4, <2>5 DEF LoopTypes
  <1>2. ASSUME Wakeup(l) PROVE LoopTypes'
    BY <1>2 DEF Wakeup, LoopTypes
  <1>3. ASSUME HandleWakeup(l) PROVE LoopTypes'
    BY <1>3 DEF HandleWakeup, LoopTypes
  <1>4. ASSUME DoPendingFunctors(l) PROVE LoopTypes'
    <2>1. /\ turn' = [turn EXCEPT ![l] = "run"]
          /\ pending' = [pending EXCEPT ![l] = <<>>]
          /\ UNCHANGED <<counter, pushing, ran, todo>>
      BY <1>4 DEF DoPendingFunctors
    <2>2. raced' \in SUBSET Loops /\ crashed' \in BOOLEAN
      BY <1>4 DEF DoPendingFunctors, RaceIf, LoopTypes
    <2>3. functors' \in [Loops -> Seq(Tasks)]
      <3>1. \A x \in Pushers(l) : Append(pending[l], pushing[x][1]) \in Seq(Tasks)
        <4> TAKE x \in Pushers(l)
        <4>1. x \in Loops /\ pushing[x] # <<>>
          BY DEF Pushers, InPush
        <4>2. pushing[x][1] \in Tasks /\ pending[l] \in Seq(Tasks)
          BY <4>1, CallIs DEF LoopTypes
        <4> QED
          BY <4>2, AppendProperties
      <3>2. pending[l] \in Seq(Tasks) /\ <<>> \in Seq(Tasks)
        BY EmptySeq DEF LoopTypes
      <3>3. PICK batch \in {pending[l]} \cup
                (IF l \in raced'
                 THEN {<<>>} \cup {Append(pending[l], pushing[x][1]) : x \in Pushers(l)} ELSE {}) :
              functors' = [functors EXCEPT ![l] = batch]
        BY <1>4, Zenon DEF DoPendingFunctors
      <3>4. batch \in Seq(Tasks)
        BY <3>1, <3>2, <3>3
      <3> QED
        BY <3>3, <3>4 DEF LoopTypes
    <2>4. <<>> \in Seq(Tasks)
      BY EmptySeq
    <2> QED
      BY <2>1, <2>2, <2>3, <2>4 DEF LoopTypes
  <1>5. ASSUME RunFunctor(l) PROVE LoopTypes'
    <2> DEFINE task == Head(functors[l])
    <2>1. functors[l] \in Seq(Tasks) /\ functors[l] # <<>>
      BY <1>5 DEF RunFunctor, LoopTypes
    <2>2. task \in Tasks /\ Tail(functors[l]) \in Seq(Tasks)
      BY <2>1, HeadTailProperties
    <2>3. functors' \in [Loops -> Seq(Tasks)]
      BY <1>5, <2>2 DEF RunFunctor, LoopTypes
    <2>4. /\ ran' = ran \cup {task}
          /\ \/ pushing' = pushing
             \/ /\ Child[task] # <<>>
                /\ pushing' = [pushing EXCEPT ![l] =
                       <<Head(Child[task]), LoopForHash(Cardinality(ran)), "push">>]
          /\ UNCHANGED <<turn, counter, pending, raced, crashed, todo>>
      BY <1>5 DEF RunFunctor
    <2> HIDE DEF task
    <2>5. ran' \in SUBSET Tasks /\ IsFiniteSet(ran')
      BY <2>2, <2>4, FS_AddElement DEF LoopTypes
    <2>6. LoopForHash(Cardinality(ran)) \in Loops
      <3>1. Cardinality(ran) \in Nat
        BY FS_CardinalityType DEF LoopTypes
      <3> QED
        BY <3>1, LoopForHashIs DEF PoolInv
    <2>7. pushing' \in [Loops -> {<<>>} \cup Calls]
      <3>1. Child[task] # <<>> => Head(Child[task]) \in Tasks
        BY <2>2, HeadTailProperties
      <3>2. Child[task] # <<>> => <<Head(Child[task]), LoopForHash(Cardinality(ran)), "push">> \in Calls
        BY <2>6, <3>1 DEF Calls
      <3> QED
        BY <2>4, <3>2 DEF LoopTypes
    <2> QED
      BY <2>3, <2>4, <2>5, <2>7 DEF LoopTypes
  <1>6. ASSUME EndTurn(l) PROVE LoopTypes'
    BY <1>6 DEF EndTurn, LoopTypes
  <1> QED
    BY <1>1, <1>2, <1>3, <1>4, <1>5, <1>6 DEF Turn

LEMMA NextLoops ==
    ASSUME PoolInv, LoopTypes, [Next]_vars
    PROVE  LoopTypes'
  <1>0. Base \in Loops /\ Workers \subseteq Loops
    BY DEF Loops
  <1>1. CASE Dispatch
    BY <1>1, DispatchLoops
  <1>2. CASE \E l \in Loops : Turn(l)
    BY <1>2, TurnLoops
  <1>3. ASSUME turn' = turn \/ \E t \in Loops : turn' = [turn EXCEPT ![t] = "poll"],
               UNCHANGED <<counter, pending, functors, pushing, ran, raced, crashed, todo>>
        PROVE  LoopTypes'
    BY <1>3 DEF LoopTypes
  <1>4. CASE PoolStart \/ Starting
    <2>1. /\ turn' = turn \/ turn' = [turn EXCEPT ![Base] = "poll"]
          /\ UNCHANGED <<counter, pending, functors, pushing, ran, raced, crashed, todo>>
      BY <1>4 DEF PoolStart, Starting, StartLoop, WaitLoop, loopVars
    <2> QED
      BY <1>0, <1>3, <2>1
  <1>5. CASE SpuriousLoop \/ DestroyPool \/ UNCHANGED vars
    BY <1>3, <1>5 DEF SpuriousLoop, DestroyPool, vars, loopVars
  <1>6. ASSUME NEW t \in Workers, LoopThread(t) \/ JoinLoop(t) PROVE LoopTypes'
    <2>1. /\ turn' = turn \/ turn' = [turn EXCEPT ![t] = "poll"]
          /\ UNCHANGED <<counter, pending, functors, pushing, ran, raced, crashed, todo>>
      BY <1>6 DEF LoopThread, JoinLoop, Publish, loopVars
    <2> QED
      BY <1>0, <1>3, <2>1
  <1>7. CASE \/ \E t \in Threads : Latch(t)
             \/ \E t \in Threads : LatchSpurious(t) /\ UNCHANGED <<poolVars, loopVars, todo, handed>>
             \/ \E t \in Plain : PlainNext(t)
    <2>1. UNCHANGED <<turn, counter, pending, functors, pushing, ran, raced, crashed, todo>>
      BY <1>7 DEF Latch, PlainNext, loopVars
    <2> QED
      BY <1>3, <2>1
  <1> QED
    BY <1>1, <1>2, <1>4, <1>5, <1>6, <1>7 DEF Next

------------------------------------------------------------------------------
(* The share of each loop.                                                 *)

\* Every loop has been handed out q times, those before next_ once more; nothing
\* is handed out before start() returns.
Even(q) == \A i \in 1 .. Len(loops) : handed[loops[i]] = IF i <= next THEN q + 1 ELSE q

Shares ==
    /\ handed \in [Loops -> Nat]
    /\ main \in {"new", "starting", "waitLoop", "onCond"} =>
          next = 0 /\ \A l \in Loops : handed[l] = 0
    /\ \E q \in Nat : Even(q)

LEMMA InitShares == Init => Shares
  <1> SUFFICES ASSUME Init PROVE Shares
    OBVIOUS
  <1>1. Len(loops) = 0
    BY EmptySeq DEF Init
  <1>2. Even(0)
    BY <1>1 DEF Even
  <1> QED
    BY <1>2 DEF Init, Shares

LEMMA DispatchShares ==
    ASSUME PoolInv, Shares, Dispatch
    PROVE  Shares'
  <1> DEFINE n == Len(loops)
  <1>1. /\ main = "started" /\ main' = main /\ loops' = loops
        /\ next' = IF loops = <<>> THEN next ELSE Advance
        /\ handed' = [handed EXCEPT ![NextLoop] = @ + 1]
    BY DEF Dispatch, NextLoop
  <1>2. handed \in [Loops -> Nat] /\ NextLoop \in Loops
    BY NextLoopIs DEF Shares
  <1>3. handed' \in [Loops -> Nat]
    BY <1>1, <1>2
  <1>4. PICK q \in Nat : Even(q)
    BY DEF Shares
  <1>5. CASE loops = <<>>
    <2>1. n = 0
      BY <1>5, EmptySeq
    <2>2. Even(q)'
      BY <1>1, <2>1 DEF Even
    <2> QED
      BY <1>1, <1>3, <2>2 DEF Shares
  <1>6. CASE loops # <<>>
    <2>1. /\ NextLoop = loops[next + 1] /\ next + 1 \in 1 .. n
          /\ n \in Nat /\ next \in Nat
      BY <1>6, NextLoopIs, LenProperties DEF NextLoop, PoolInv, PoolTypes
    <2>2. next' = IF next + 1 >= n THEN 0 ELSE next + 1
      BY <1>1, <1>6 DEF Advance
    <2>3. \A i \in 1 .. n : loops[i] \in Loops
      BY DEF PoolInv, PoolTypes, Loops
    <2>4. \A i, j \in 1 .. n : loops[i] = loops[j] => i = j
      <3>1. Len(Pool) \in Nat /\ n \in Nat /\ n <= Len(Pool) /\ DOMAIN Pool = 1 .. Len(Pool)
        BY LenProperties DEF PoolInv, PoolTypes, LoopsInOrder
      <3>2. \A i \in 1 .. n : i \in DOMAIN Pool /\ loops[i] = Pool[i]
        BY <3>1 DEF PoolInv, LoopsInOrder
      <3> QED
        BY <3>2 DEF IsInjective
    <2>5. \A i \in 1 .. n : handed'[loops[i]] = IF i = next + 1 THEN handed[loops[i]] + 1
                                                ELSE handed[loops[i]]
      <3> TAKE i \in 1 .. n
      <3>1. CASE i = next + 1
        BY <1>1, <1>2, <2>1, <2>3, <3>1
      <3>2. CASE i # next + 1
        <4>1. loops[i] # NextLoop
          BY <2>1, <2>4, <3>2
        <4> QED
          BY <1>1, <1>2, <2>3, <3>2, <4>1
      <3> QED
        BY <3>1, <3>2
    <2>6. \A i \in 1 .. n : handed'[loops[i]] = IF i <= next + 1 THEN q + 1 ELSE q
      <3> TAKE i \in 1 .. n
      <3>1. handed[loops[i]] = IF i <= next THEN q + 1 ELSE q
        BY <1>4 DEF Even
      <3>2. handed'[loops[i]] = IF i = next + 1 THEN handed[loops[i]] + 1 ELSE handed[loops[i]]
        BY <2>5
      <3> QED
        BY <2>1, <3>1, <3>2
    <2>7. CASE next + 1 >= n
      <3>1. \A i \in 1 .. n : handed'[loops[i]] = q + 1
        BY <2>1, <2>6, <2>7
      <3>2. Even(q + 1)'
        BY <1>1, <2>2, <2>7, <3>1 DEF Even
      <3> QED
        BY <1>1, <1>3, <3>2 DEF Shares
    <2>8. CASE ~(next + 1 >= n)
      <3>1. Even(q)'
        BY <1>1, <2>2, <2>6, <2>8 DEF Even
      <3> QED
        BY <1>1, <1>3, <3>1 DEF Shares
    <2> QED
      BY <2>7, <2>8
  <1> QED
    BY <1>5, <1>6

LEMMA NextShares ==
    ASSUME PoolInv, PoolInv', Shares, [Next]_vars
    PROVE  Shares'
  <1>1. CASE Dispatch
    BY <1>1, DispatchShares
  <1>2. ASSUME UNCHANGED <<handed, loops, next>>,
               \/ main' = main
               \/ main' \in {"started", "destroying", "destroyed"}
               \/ main \in {"new", "starting", "waitLoop", "onCond"}
        PROVE  Shares'
    BY <1>2 DEF Shares, Even
  <1>3. CASE PoolStart \/ StartLoop \/ SpuriousLoop \/ DestroyPool \/ UNCHANGED vars
    BY <1>2, <1>3 DEF PoolStart, StartLoop, SpuriousLoop, DestroyPool, vars, poolVars
  <1>4. ASSUME WaitLoop PROVE Shares'
    <2>1. main = "waitLoop" /\ UNCHANGED <<handed, next>>
      BY <1>4 DEF WaitLoop
    <2>2. next = 0 /\ \A l \in Loops : handed[l] = 0
      BY <2>1 DEF Shares
    <2>3. \A i \in 1 .. Len(loops') : loops'[i] \in Loops
      BY DEF PoolInv, PoolTypes, Loops
    <2>4. Even(0)'
      BY <2>1, <2>2, <2>3 DEF Even
    <2> QED
      BY <2>1, <2>2, <2>4 DEF Shares
  <1>5. ASSUME NEW t \in Workers, LoopThread(t) \/ JoinLoop(t) PROVE Shares'
    BY <1>2, <1>5 DEF LoopThread, JoinLoop, Publish, poolVars
  <1>6. CASE \/ \E t \in Threads : Latch(t)
             \/ \E t \in Threads : LatchSpurious(t) /\ UNCHANGED <<poolVars, loopVars, todo, handed>>
             \/ \E t \in Plain : PlainNext(t)
    BY <1>2, <1>6 DEF Latch, PlainNext, poolVars
  <1>7. ASSUME NEW l \in Loops, Turn(l) PROVE Shares'
    BY <1>2, <1>7 DEF Turn, PushEnds, Wakeup, HandleWakeup, DoPendingFunctors, RunFunctor, EndTurn, poolVars
  <1> QED
    BY <1>1, <1>3, <1>4, <1>5, <1>6, <1>7 DEF Next, Starting

------------------------------------------------------------------------------

IInv == ThreadInv /\ PoolInv /\ LoopTypes /\ Shares

LEMMA InvAlways == Spec => []IInv
  <1>1. Init => IInv
    BY InitThreads, InitPool, InitLoops, InitShares DEF Init, IInv
  <1>2. IInv /\ [Next]_vars => IInv'
    BY NextPool, NextLoops, NextShares DEF IInv
  <1> QED
    BY <1>1, <1>2, PTL DEF Spec

\* No thread uses what is gone: a new thread writes into the Thread that started
\* it only while start() waits for it, start() returns with tid_ set, and a loop
\* that is handed out is on the stack of a thread that runs.
THEOREM PointersLiveHolds == Spec => []PointersLive
  <1>1. ASSUME IInv PROVE PointersLive
    <2>1. TypeOK
      BY <1>1 DEF IInv, ThreadInv, ThreadTypes, PoolInv, PoolTypes, LoopTypes, Calls, Shares, TypeOK
    <2>2. \A t \in Threads :
             /\ thread[t] \in {"created", "tidSet"} => owner[t] \in {"latch", "waiting"}
             /\ owner[t] \in {"started", "joining", "joined"} => tid[t]
      BY <1>1 DEF IInv, ThreadInv, Handshakes
    <2>3. \A t \in Workers : thread[t] = "running" => owner[t] # "destroyed"
      BY <1>1 DEF IInv, ThreadInv, NoWorkerEnds
    <2>4. \A l \in Range(loops) : l \in published /\ thread[l] = "running"
      <3>1. \A i \in 1 .. Len(loops) : loops[i] \in published
        BY <1>1 DEF IInv, PoolInv, LoopsInOrder
      <3>2. Range(loops) = {loops[i] : i \in 1 .. Len(loops)}
        BY <1>1, LenProperties DEF IInv, PoolInv, PoolTypes, Range
      <3> QED
        BY <1>1, <3>1, <3>2 DEF IInv, PoolInv, LoopsRun
    <2> QED
      BY <2>1, <2>2, <2>3, <2>4 DEF PointersLive
  <1> QED
    BY <1>1, InvAlways, PTL

\* getNextLoop() hands out evenly the loops of a pool of any size, once start()
\* has made them all (EventLoopThreadPool.cc:49-57).
THEOREM LoopsBalancedHolds == Spec => []LoopsBalanced
  <1>1. ASSUME IInv PROVE LoopsBalanced
    <2>1. PICK q \in Nat : Even(q)
      BY <1>1 DEF IInv, Shares
    <2>2. Range(loops) = {loops[i] : i \in 1 .. Len(loops)}
      BY <1>1, LenProperties DEF IInv, PoolInv, PoolTypes, Range
    <2>3. \A k \in Range(loops) : handed[k] = q \/ handed[k] = q + 1
      BY <2>1, <2>2 DEF Even
    <2>4. \A m, n \in Nat : (m = q \/ m = q + 1) /\ (n = q \/ n = q + 1) => m - n \in -1..1
      OBVIOUS
    <2>5. \A k \in Range(loops) : handed[k] \in Nat
      BY <2>3
    <2> QED
      BY <2>3, <2>4, <2>5, Zenon DEF LoopsBalanced
  <1> QED
    BY <1>1, InvAlways, PTL
=============================================================================
