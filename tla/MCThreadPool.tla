---------------------------- MODULE MCThreadPool ----------------------------
(* A small instance of ThreadPool for TLC: two producers; the tasks a and c  *)
(* submit a task each when they are executed, so that both workers can end   *)
(* up inside run().                                                          *)
EXTENDS ThreadPool, TLC

CONSTANTS p1, p2, a, b, c, d, e

MCProducers == {p1, p2}
MCTasks     == {a, b, c, d, e}
MCProgram   == p1 :> <<a, b>> @@ p2 :> <<c>>
MCChildren  == [t \in MCTasks |-> CASE t = a -> <<d>> [] t = c -> <<e>> [] OTHER -> <<>>]
=============================================================================
