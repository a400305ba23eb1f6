---------------------------- MODULE AsyncLogging ----------------------------
(***************************************************************************)
(* base::AsyncLogging: threads append lines to a buffer in memory, and one *)
(* log thread takes the buffers, writes them to a LogFile and gives two    *)
(* empty buffers back for the next turn.  base::Logger, behind LOG, starts *)
(* it in pthread_once; an application may also hold an AsyncLogging itself *)
(* and append to it from any thread.                                       *)
(*                                                                         *)
(* A buffer is the sequence of its lines, NoBuffer a null pointer.  What a *)
(* thread does under mutex_ is one step.                                   *)
(***************************************************************************)
EXTENDS Integers, Sequences, SequencesExt

CONSTANTS
    Loggers,       \* threads that execute LOG
    Appenders,     \* threads that call append()
    Lines,         \* the lines they append, each at most once
    Program,       \* the lines of each appender, in order
    Stops,         \* whether some thread calls stop()
    NoBuffer,      \* a BufferPtr without a buffer
    Room,          \* lines that fit in a buffer of kLargeBuffer bytes
    MaxBacklog,    \* 25: with more buffers to write, all but Kept are dropped
    Kept,          \* 2
    FlushEveryN,   \* flushEveryN_ of LogFile
    TooLong,       \* lines that do not fit in an empty buffer
    MaxFailures    \* how often the log file cannot be opened or written

ASSUME ThreadsAssumption == Loggers \cap Appenders = {}
ASSUME ProgramAssumption == Program \in [Appenders -> Seq(Lines)]
ASSUME OnceAssumption ==
    \A th, other \in Appenders :
        \A i \in 1 .. Len(Program[th]), j \in 1 .. Len(Program[other]) :
            Program[th][i] = Program[other][j] => th = other /\ i = j
ASSUME NoBufferAssumption == NoBuffer \notin Seq(Lines)
ASSUME StopsAssumption   == Stops \in BOOLEAN
ASSUME RoomAssumption    == Room \in Nat \ {0}
ASSUME BacklogAssumption == Kept = 2 /\ MaxBacklog \in Nat /\ MaxBacklog >= Kept
ASSUME FaultAssumption   == TooLong \subseteq Lines /\ MaxFailures \in Nat
ASSUME FlushAssumption   == FlushEveryN \in Nat \ {0}

VARIABLES
    running,       \* running_
    latch,         \* count_ of latch_
    once,          \* once_control_: "new", "running" or "done"
    caller,        \* where a thread of Loggers is: "log", "latch", "asleep" or "logged"
    todo,          \* lines an appender has still to append
    stopper,       \* the thread that calls stop(): "none", "joining" or "stopped"
    currentBuffer, nextBuffer, buffers,        \* the members, guarded by mutex_
    pc,            \* the log thread: "none", "failed" if pthread_create failed, "begin",
                   \* "top", "lock", "waiting", "write", "refill", "exited" or "aborted"
    newBuffer1, newBuffer2, buffersToWrite,    \* the locals of threadFunc()
    written,       \* how many of buffersToWrite are written
    count,         \* count_ of LogFile
    stdio,         \* lines in the buffer of the FILE
    file,          \* lines in the file
    appended,      \* all lines given to append(), in order
    failures,      \* how often the log file failed
    lost           \* lines that were dropped

shared == <<currentBuffer, nextBuffer, buffers>>
locals == <<newBuffer1, newBuffer2, buffersToWrite, written>>
output == <<count, stdio, file, failures>>
callers == <<latch, once, caller, stopper>>
history == <<appended, lost>>
vars == <<running, callers, todo, shared, pc, locals, output, history>>

Init ==
    /\ running = FALSE
    /\ latch = 1
    /\ once = "new"
    /\ caller = [th \in Loggers |-> "log"]
    /\ todo = Program
    /\ stopper = "none"
    /\ currentBuffer = <<>> /\ nextBuffer = <<>> /\ buffers = <<>>
    /\ pc = "none"
    /\ newBuffer1 = NoBuffer /\ newBuffer2 = NoBuffer
    /\ buffersToWrite = <<>> /\ written = 0
    /\ count = 0 /\ stdio = <<>> /\ file = <<>> /\ failures = 0
    /\ appended = <<>> /\ lost = {}

Alive == pc # "aborted"

------------------------------------------------------------------------------
(* The callers.                                                            *)

\* LOG: the first thread in pthread_once runs once_init, which calls start(): it
\* sets running_ and creates the log thread, or in silence does not.  The others
\* wait.
LogStarts(th) ==
    /\ caller[th] = "log" /\ once = "new"
    /\ once' = "running"
    /\ caller' = [caller EXCEPT ![th] = "latch"]
    /\ running' = TRUE
    /\ pc' \in {"begin", "failed"}
    /\ UNCHANGED <<latch, stopper, todo, shared, locals, output, history>>

\* latch_.wait() in start(): while(count_ > 0) condition_.wait().  The constructor
\* sets count_ to 1 and nothing calls countDown().
LatchWait(th) ==
    /\ caller[th] = "latch"
    /\ caller' = [caller EXCEPT ![th] = IF latch > 0 THEN "asleep" ELSE "logged"]
    /\ once' = IF latch > 0 THEN once ELSE "done"
    /\ UNCHANGED <<running, latch, stopper, todo, shared, pc, locals, output, history>>

\* condition_.wait() may return without a notification.
SpuriousWakeup(th) ==
    /\ caller[th] = "asleep"
    /\ caller' = [caller EXCEPT ![th] = "latch"]
    /\ UNCHANGED <<running, latch, once, stopper, todo, shared, pc, locals, output, history>>

\* Variant of PutAside: the full buffer is not kept.
PutAsideForgotten == UNCHANGED buffers

\* buffers_.push_back(currentBuffer_).
PutAside == buffers' = Append(buffers, currentBuffer)

\* append(): to the current buffer, or to the next one when it is full.  The
\* next one is nextBuffer_, or a new one when that is in use.  A line that is
\* too long for any buffer takes a new one all the same and is left out.
AppendLine(th) ==
    /\ todo[th] # <<>>
    /\ LET line == Head(todo[th])
           fits == line \notin TooLong
       IN
       /\ IF fits /\ Len(currentBuffer) < Room
          THEN /\ currentBuffer' = Append(currentBuffer, line)
               /\ UNCHANGED <<nextBuffer, buffers>>
          ELSE /\ PutAside
               /\ currentBuffer' = IF fits THEN <<line>> ELSE <<>>
               /\ nextBuffer' = NoBuffer
       /\ appended' = Append(appended, line)
       /\ lost' = IF fits THEN lost ELSE lost \cup {line}
    /\ todo' = [todo EXCEPT ![th] = Tail(@)]
    /\ UNCHANGED <<running, callers, pc, locals, output>>

\* Variant of ClearRunning: the log thread is only notified.
ClearRunningForgotten == UNCHANGED running

\* running_ = false.
ClearRunning == running' = FALSE

\* stop(), also called by the destructor, in a thread that did not call start():
\* cond_.notify() comes too, which is not needed since the wait is timed; then join().
Stop ==
    /\ Stops /\ stopper = "none" /\ running
    /\ ClearRunning
    /\ stopper' = "joining"
    /\ UNCHANGED <<latch, once, caller, todo, shared, pc, locals, output, history>>

\* thread_.join() returns.
Stopped ==
    /\ stopper = "joining" /\ pc = "exited"
    /\ stopper' = "stopped"
    /\ UNCHANGED <<running, latch, once, caller, todo, shared, pc, locals, output, history>>

\* assert(started_) of thread_.join(): there is no log thread.
JoinFails ==
    /\ stopper = "joining" /\ pc = "failed"
    /\ pc' = "aborted"
    /\ UNCHANGED <<running, callers, todo, shared, locals, output, history>>

------------------------------------------------------------------------------
(* The log thread.                                                         *)

\* Whether the file fails now; it may MaxFailures times.
Broken(b) ==
    /\ b => failures < MaxFailures
    /\ failures' = IF b THEN failures + 1 ELSE failures

\* fflush(): all lines reach the file, or if it fails some do and the rest stays
\* in the FILE.
Flush(lines, b) ==
    \E n \in IF b THEN 0 .. Len(lines) ELSE {Len(lines)} :
        /\ file' = file \o SubSeq(lines, 1, n)
        /\ stdio' = SubSeq(lines, n + 1, Len(lines))

\* assert(running_ == true), then the file is opened (if it cannot be, setbuffer()
\* gets a null pointer) and the two buffers are made.
Begin ==
    /\ pc = "begin"
    /\ \E b \in BOOLEAN :
        /\ Broken(b)
        /\ pc' = IF running /\ ~b THEN "top" ELSE "aborted"
    /\ newBuffer1' = <<>> /\ newBuffer2' = <<>>
    /\ UNCHANGED <<running, callers, todo, shared, buffersToWrite, written, history>>
    /\ UNCHANGED <<count, stdio, file>>

\* while(running_); after it, output.flush().
Top ==
    /\ pc = "top"
    /\ IF running
       THEN pc' = "lock" /\ UNCHANGED output
       ELSE /\ pc' = "exited"
            /\ UNCHANGED count
            /\ \E b \in BOOLEAN : Broken(b) /\ Flush(stdio, b)
    /\ UNCHANGED <<running, callers, todo, shared, locals, history>>

\* cond_.waitForSeconds() releases mutex_.
Wait ==
    /\ pc = "lock" /\ buffers = <<>>
    /\ pc' = "waiting"
    /\ UNCHANGED <<running, callers, todo, shared, locals, output, history>>

\* Variant of GiveBack: nextBuffer_ is replaced even if it is there.
GiveBackBoth ==
    /\ currentBuffer' = newBuffer1 /\ newBuffer1' = NoBuffer
    /\ nextBuffer' = newBuffer2 /\ newBuffer2' = NoBuffer

\* currentBuffer_ is replaced by newBuffer1, and a missing nextBuffer_ by newBuffer2.
GiveBack ==
    /\ currentBuffer' = newBuffer1 /\ newBuffer1' = NoBuffer
    /\ IF nextBuffer = NoBuffer
       THEN nextBuffer' = newBuffer2 /\ newBuffer2' = NoBuffer
       ELSE UNCHANGED <<nextBuffer, newBuffer2>>

\* Variant of WaitEnds: a wait without a time limit.
WaitEndsNotified == pc = "waiting" /\ buffers # <<>>

\* waitForSeconds() returns at any time: notified, timed out, without reason, or at
\* once because pthread_cond_timedwait does not take a tv_nsec of a second or more.
WaitEnds == pc = "waiting"

\* The rest of the critical section.
TakeBuffers ==
    /\ WaitEnds \/ (pc = "lock" /\ buffers # <<>>)
    /\ buffersToWrite' = Append(buffers, currentBuffer)
    /\ buffers' = buffersToWrite
    /\ GiveBack
    /\ written' = 0
    /\ pc' = "write"
    /\ UNCHANGED <<running, callers, todo, output, history>>

LinesOf(bs) == ToSet(FlattenSeq(bs))

\* With more than MaxBacklog buffers to write all but the first Kept are dropped.
Drop ==
    /\ pc = "write" /\ written = 0
    /\ Len(buffersToWrite) > MaxBacklog
    /\ buffersToWrite' = SubSeq(buffersToWrite, 1, Kept)
    /\ lost' = lost \cup LinesOf(SubSeq(buffersToWrite, Kept + 1, Len(buffersToWrite)))
    /\ UNCHANGED <<running, callers, todo, shared, pc, newBuffer1, newBuffer2, written, output, appended>>

\* ++count_; count_ >= flushEveryN_.
MustFlush == count + 1 >= FlushEveryN

\* AppendFile::append() takes n lines of the data; only a file that fails takes
\* fewer than all, and what it does not take is left out.
AppendFile(data, n, b) ==
    /\ n < Len(data) => b
    /\ lost' = lost \cup ToSet(SubSeq(data, n + 1, Len(data)))

\* output.append() of the next buffer, which flushes once in FlushEveryN calls; a
\* FILE whose own buffer is full writes a part of its lines before that.
WriteBuffer ==
    /\ pc = "write"
    /\ written > 0 \/ Len(buffersToWrite) <= MaxBacklog
    /\ written < Len(buffersToWrite)
    /\ written' = written + 1
    /\ LET data == buffersToWrite[written + 1] IN
       \E b \in BOOLEAN, n \in 0 .. Len(data) :
          /\ Broken(b) /\ AppendFile(data, n, b)
          /\ Flush(stdio \o SubSeq(data, 1, n), b \/ ~MustFlush)
    /\ count' = IF MustFlush THEN 0 ELSE count + 1
    /\ UNCHANGED <<running, callers, todo, shared, pc, newBuffer1, newBuffer2, buffersToWrite, appended>>

\* buffersToWrite.resize(2).
AllWritten ==
    /\ pc = "write" /\ written = Len(buffersToWrite)
    /\ buffersToWrite' = IF Len(buffersToWrite) > 2 THEN SubSeq(buffersToWrite, 1, 2) ELSE buffersToWrite
    /\ pc' = "refill"
    /\ UNCHANGED <<running, callers, todo, shared, newBuffer1, newBuffer2, written, output, history>>

Missing == {b \in {1, 2} : <<newBuffer1, newBuffer2>>[b] = NoBuffer}

\* A missing newBuffer1 and newBuffer2 are taken from the end of buffersToWrite,
\* which the assertions say is not empty; then clear() and flush().
Refill ==
    /\ pc = "refill"
    /\ newBuffer1' = IF 1 \in Missing THEN <<>> ELSE newBuffer1
    /\ newBuffer2' = IF 2 \in Missing THEN <<>> ELSE newBuffer2
    /\ buffersToWrite' = <<>>
    /\ written' = 0
    /\ \E b \in BOOLEAN : Broken(b) /\ Flush(stdio, b)
    /\ pc' = "top"
    /\ UNCHANGED <<running, callers, todo, shared, count, history>>

------------------------------------------------------------------------------
LogThread ==
    \/ Begin \/ Top \/ Wait \/ TakeBuffers
    \/ Drop \/ WriteBuffer \/ AllWritten \/ Refill

Next ==
    /\ Alive
    /\ \/ \E th \in Loggers : LogStarts(th) \/ LatchWait(th) \/ SpuriousWakeup(th)
       \/ \E th \in Appenders : AppendLine(th)
       \/ Stop
       \/ Stopped \/ JoinFails
       \/ LogThread

Spec == Init /\ [][Next]_vars

\* The threads are scheduled, and a timed wait ends.
Fairness ==
    /\ WF_vars(Alive /\ LogThread)
    /\ WF_vars(Alive /\ (Stopped \/ JoinFails))
    /\ \A th \in Loggers : WF_vars(Alive /\ (LogStarts(th) \/ LatchWait(th)))

FairSpec == Spec /\ Fairness

------------------------------------------------------------------------------
(* Properties.                                                             *)

Buffer == Seq(Lines)

\* The variables have the types of the members and locals.
TypeOK ==
    /\ running \in BOOLEAN
    /\ latch \in Nat
    /\ once \in {"new", "running", "done"}
    /\ caller \in [Loggers -> {"log", "latch", "asleep", "logged"}]
    /\ todo \in [Appenders -> Seq(Lines)]
    /\ stopper \in {"none", "joining", "stopped"}
    /\ currentBuffer \in Buffer
    /\ nextBuffer \in Buffer \cup {NoBuffer}
    /\ buffers \in Seq(Buffer)
    /\ pc \in {"none", "failed", "begin", "top", "lock", "waiting", "write", "refill",
              "exited", "aborted"}
    /\ newBuffer1 \in Buffer \cup {NoBuffer} /\ newBuffer2 \in Buffer \cup {NoBuffer}
    /\ buffersToWrite \in Seq(Buffer)
    /\ written \in 0 .. Len(buffersToWrite) \/ pc = "refill"
    /\ count \in 0 .. FlushEveryN - 1
    /\ stdio \in Buffer /\ file \in Buffer
    /\ failures \in 0 .. MaxFailures
    /\ appended \in Buffer
    /\ lost \subseteq Lines

\* The two spare buffers always come back: at the top of the loop both are there
\* and empty, because newBuffer2 is given away only when append() has used
\* nextBuffer_ and so left a second buffer to write, and that is never dropped.
\* These are the assertions of threadFunc() (AsyncLogging.cc:60-62, 80, 96, 103).
SpareBuffersReturn ==
    /\ pc \in {"top", "lock", "waiting"} =>
          newBuffer1 = <<>> /\ newBuffer2 = <<>> /\ buffersToWrite = <<>>
    /\ pc = "write" => buffersToWrite # <<>>
    /\ pc = "refill" => Cardinality(Missing) <= Len(buffersToWrite)

\* No line is lost, repeated or moved before another on its way through the
\* buffers, except those that are dropped with a backlog, by a file that fails or
\* for their length: what is in the file, then in the FILE, then with the log
\* thread, then in buffers_ and currentBuffer_, is what was appended, in that
\* order (AsyncLogging.cc:24-46, 64-112, LogFile.cc:32-41, FileUtil.cc:21-40).
Unwritten ==
    FlattenSeq(IF pc = "write" THEN SubSeq(buffersToWrite, written + 1, Len(buffersToWrite))
               ELSE <<>>)
    \o FlattenSeq(buffers) \o currentBuffer

Log == file \o stdio \o Unwritten

LogIntact ==
    /\ TypeOK
    /\ ToSet(Log) = ToSet(appended) \ lost
    /\ \A i, j \in 1 .. Len(Log) : i < j =>
          \E p, q \in 1 .. Len(appended) :
              p < q /\ appended[p] = Log[i] /\ appended[q] = Log[j]

\* A line reaches the file, also when the current buffer never fills up, unless
\* it is dropped, the log is stopped, the file fails or the log thread was not
\* created (AsyncLogging.cc:66-70, 110, Thread.cc:162-166).
EveryLineWritten ==
    \A line \in Lines :
        line \in ToSet(appended) ~>
            \/ line \in ToSet(file) \cup lost
            \/ pc # "none" /\ ~running
            \/ failures > 0
            \/ pc = "failed"

\* stop() returns although it sets running_ and notifies without mutex_, unless
\* the log thread finds running_ unset when it begins, or was not created
\* (AsyncLogging.h:34-39, AsyncLogging.cc:50, Thread.cc:176).
StopReturns == stopper = "joining" ~> (stopper = "stopped" \/ pc = "aborted")

=============================================================================
