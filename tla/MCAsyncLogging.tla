--------------------------- MODULE MCAsyncLogging ---------------------------
(* Small instances of AsyncLogging for TLC.                                  *)
EXTENDS AsyncLogging, TLC

CONSTANTS a1, a2, l1, l2, l3, l4, l5

MCLines   == {l1, l2, l3, l4, l5}
MCProgram == IF Appenders = {} THEN <<>> ELSE a1 :> <<l1, l2, l3>> @@ a2 :> <<l4, l5>>
=============================================================================
