----------------------------- MODULE MCLoopThreads -----------------------------
(* A small instance of LoopThreads for TLC: up to two loop threads and a      *)
(* Thread on its own; three tasks are handed out, and one of them queues a    *)
(* fourth on the loop that its hash selects.                                  *)
EXTENDS LoopThreads, TLC

CONSTANTS l1, l2, p, a, b, c, d

MCThreads == {l1, l2, p}
MCPool    == <<l1, l2>>
MCTasks   == {a, b, c, d}
MCProgram == <<a, b, c>>
MCChild   == [t \in MCTasks |-> IF t = a THEN <<d>> ELSE <<>>]
=============================================================================
