---------------------------- MODULE MCTimerQueue ----------------------------
(* Small instances of TimerQueue for TLC.  A second has two ticks, so that   *)
(* the odd delays have a fraction; a delay of 4 overflows addTime.           *)
EXTENDS TimerQueue

MCWhens == {-1, 1}
MCClockSteps == {-2, 3}
=============================================================================
