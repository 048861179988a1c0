------------------------------- MODULE PcmStream -------------------------------
(***************************************************************************)
(* What the audio output promises: the blocks it is given are handed to    *)
(* the device whole, each once, in order; at most Limit of them wait.      *)
(* AudioOutput implements this.                                            *)
(***************************************************************************)
EXTENDS Sequences, Naturals

CONSTANTS
    Sounds,        (* what a block may hold                                  *)
    Limit          (* blocks that may wait                                   *)

VARIABLES
    waiting,       (* the blocks given and not yet handed to the device      *)
    heard          (* what the device was handed last                        *)

Init == waiting = << >> /\ heard \in Sounds

Give(s) ==
    /\ Len(waiting) < Limit
    /\ waiting' = Append(waiting, s)
    /\ UNCHANGED heard

(* A block the device refuses is lost.                                     *)
Hear ==
    /\ waiting # << >>
    /\ waiting' = Tail(waiting)
    /\ heard' \in {Head(waiting), heard}

Next == Hear \/ \E s \in Sounds : Give(s)

Spec == Init /\ [][Next]_<<waiting, heard>> /\ WF_<<waiting, heard>>(Hear)
=============================================================================
