----------------------------- MODULE MCTimerTasks -----------------------------
(* TimerTasks with three tasks, and room for two of their timers.          *)
EXTENDS TimerTasks

ASSUME InstanceAssumption == TasksFit

ThreeTasks == 1..3
SomeDelays == {0, 1, 2}
Once == {0}
=============================================================================
