-------------------------------- MODULE Threads --------------------------------
(***************************************************************************)
(* base::Thread and base::CountDownLatch: the handshake between the thread *)
(* that calls start() and the thread it creates.                           *)
(*                                                                         *)
(* The new thread writes tid_ and counts latch_ down through pointers into *)
(* the Thread object (struct ThreadData); start() returns when the latch   *)
(* is down, and from then on the object may be destroyed at any time.      *)
(***************************************************************************)
EXTENDS Integers

CONSTANT Threads    \* the Thread objects

VARIABLES
    owner,     \* what the thread that uses the object is doing with it: "new",
               \* "latch" (evaluates the while of wait()), "waiting" (in the wait
               \* set of condition_), "started", "joining", "joined", "destroyed"
    count,     \* count_ of latch_
    tid,       \* tid_ > 0
    thread     \* the thread that was created: "none", "created", "tidSet",
               \* "running" (has left the latch), "ended"

threadVars == <<owner, count, tid, thread>>

ThreadsInit ==
    /\ owner = [t \in Threads |-> "new"]
    /\ count = [t \in Threads |-> 1]
    /\ tid = [t \in Threads |-> FALSE]
    /\ thread = [t \in Threads |-> "none"]

\* start() up to a successful pthread_create.
Start(t) ==
    /\ owner[t] = "new"
    /\ owner' = [owner EXCEPT ![t] = "latch"]
    /\ thread' = [thread EXCEPT ![t] = "created"]
    /\ UNCHANGED <<count, tid>>

\* pthread_create fails: started_ is false again and start() returns as if
\* nothing had happened.
StartFails(t) ==
    /\ owner[t] = "new"
    /\ UNCHANGED threadVars

\* The condition of the while in CountDownLatch::wait.
LatchUp(t) == count[t] > 0

\* wait() goes to sleep, or start() returns.
LatchWait(t) ==
    /\ owner[t] = "latch"
    /\ owner' = [owner EXCEPT ![t] = IF LatchUp(t) THEN "waiting" ELSE "started"]
    /\ UNCHANGED <<count, tid, thread>>

LatchSpurious(t) ==
    /\ owner[t] = "waiting"
    /\ owner' = [owner EXCEPT ![t] = "latch"]
    /\ UNCHANGED <<count, tid, thread>>

SetTid(t) ==
    /\ thread[t] = "created"
    /\ tid' = [tid EXCEPT ![t] = TRUE]
    /\ thread' = [thread EXCEPT ![t] = "tidSet"]
    /\ UNCHANGED <<owner, count>>

\* countDown(), with notifyAll() when the count is down.
CountDown(t) ==
    /\ thread[t] = "tidSet"
    /\ count' = [count EXCEPT ![t] = @ - 1]
    /\ owner' = [owner EXCEPT ![t] = IF count[t] = 1 /\ @ = "waiting" THEN "latch" ELSE @]
    /\ thread' = [thread EXCEPT ![t] = "running"]
    /\ UNCHANGED tid

\* func_() returns and the thread with it.
FuncReturns(t) ==
    /\ thread[t] = "running"
    /\ thread' = [thread EXCEPT ![t] = "ended"]
    /\ UNCHANGED <<owner, count, tid>>

Join(t) ==
    /\ owner[t] = "started"
    /\ owner' = [owner EXCEPT ![t] = "joining"]
    /\ UNCHANGED <<count, tid, thread>>

Joined(t) ==
    /\ owner[t] = "joining"
    /\ thread[t] = "ended"
    /\ owner' = [owner EXCEPT ![t] = "joined"]
    /\ UNCHANGED <<count, tid, thread>>

\* ~Thread, which detaches a thread that nobody has joined.
Destroy(t) ==
    /\ owner[t] \in {"new", "started", "joined"}
    /\ owner' = [owner EXCEPT ![t] = "destroyed"]
    /\ UNCHANGED <<count, tid, thread>>

\* The new thread's part of the handshake.
Handshake(t) == SetTid(t) \/ CountDown(t)
================================================================================
