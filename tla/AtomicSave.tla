------------------------------ MODULE AtomicSave ------------------------------
(***************************************************************************)
(* What saving the game promises: once an image has been stored, a restart *)
(* finds either it or the one being saved, whole; a save reported done is  *)
(* stored; one reported failed has left the old image.  The first save of  *)
(* all has nothing to fall back on: until an image is stored, any image    *)
(* whose save was tried may turn up.                                       *)
(***************************************************************************)
CONSTANTS Images, NOTHING

VARIABLES
    stored,        (* the image a restart finds, or NOTHING                  *)
    saving,        (* the image being saved, or NOTHING                      *)
    old,           (* what was stored when that save began                   *)
    tried,         (* images whose save was tried                            *)
    result         (* what the last save reported                            *)

Init ==
    /\ stored = NOTHING /\ saving = NOTHING /\ old = NOTHING
    /\ tried = {} /\ result = NOTHING

Begin(v) ==
    /\ saving = NOTHING
    /\ saving' = v /\ old' = stored /\ tried' = tried \union {v}
    /\ result' = NOTHING
    /\ UNCHANGED stored

Store ==
    /\ saving # NOTHING /\ stored' = saving
    /\ UNCHANGED <<saving, old, tried, result>>

Adopt ==
    /\ stored = NOTHING /\ stored' \in tried
    /\ UNCHANGED <<saving, old, tried, result>>

End == saving' = NOTHING /\ old' = NOTHING /\ UNCHANGED <<stored, tried>>

Succeed == saving # NOTHING /\ stored = saving /\ result' = "done" /\ End
Fail == saving # NOTHING /\ stored = old /\ result' = "failed" /\ End
Crash == result' = NOTHING /\ End

Next ==
    \/ \E v \in Images : Begin(v)
    \/ Store \/ Adopt \/ Succeed \/ Fail \/ Crash

Spec == Init /\ [][Next]_<<stored, saving, old, tried, result>>
=============================================================================
