-------------------------------- MODULE MCSaves --------------------------------
(* Saves.  Its three parts share no state, so their interleavings show       *)
(* nothing: a behaviour is one of one of them, and part says of which.  The  *)
(* EEPROM has two blocks of three values and two faults, the settings two    *)
(* backends, two qualities and three faults, the serial thread a queue of    *)
(* two requests, three presses and two saves.                                *)
EXTENDS Saves, TLC

VARIABLES part

settingsVars ==
    <<settingsDisk, settings, pending, saveFailed, recovered, hadPrevious,
      settingsPc, settingsFaults, settingsSaving, settingsResult, settingsWas,
      settingsTried>>
serialVars ==
    <<requests, controllers, answers, serial, game, lock, next, hold, buffer,
      saveFile, returned, press, down, previous, open, gate, ready, pad, stored,
      saving, old, serialTried, serialResult, menuPress, atCall, calls>>

ThreeBytes == {0, 1, 2}
BlockSymmetry == Permutations(Blocks)

MCInit ==
    /\ Init /\ Settings!Init /\ Serial!Init
    /\ part \in {"game", "settings", "serial"}

MCNext ==
    /\ UNCHANGED part
    /\ \/ part = "game" /\ Next /\ UNCHANGED <<settingsVars, serialVars>>
       \/ part = "settings" /\ Settings!Next /\ UNCHANGED <<vars, serialVars>>
       \/ part = "serial" /\ Serial!Next /\ UNCHANGED <<vars, settingsVars>>

MCSpec == MCInit /\ [][MCNext]_<<part, vars, settingsVars, serialVars>>
=============================================================================
