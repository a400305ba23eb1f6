----------------------------- MODULE MCEventLoop -----------------------------
(* A small instance of EventLoop for TLC: the eventfd, one other descriptor  *)
(* with one other channel, two functors.                                     *)
EXTENDS EventLoop

CONSTANTS
    MaxPending   \* bound of the instance on the queued functors and on eventfd_

\* State constraint: user code that queues more is left out.
Bound == Len(pendingFunctors) <= MaxPending /\ eventfd <= MaxPending
=============================================================================
