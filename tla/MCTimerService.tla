---------------------------- MODULE MCTimerService ----------------------------
(* TimerService with one timer more than the table holds.                  *)
EXTENDS TimerService

ShortDelays == {0, 2}
SomeIntervals == {0, 1}
=============================================================================
