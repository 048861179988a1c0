--------------------------- MODULE MCTaskScheduler ---------------------------
(* TaskScheduler with one graphics task, submitted again and again (the    *)
(* hardest case for the properties about resubmission), and one audio task *)
(* for the build in which the audio thread submits too.                    *)
EXTENDS TaskScheduler

CONSTANTS p0, a0

OnePool == {p0}
OneAudio == {a0}
=============================================================================
