--------------------------------- MODULE Saves ---------------------------------
(***************************************************************************)
(* What the program keeps on the memory stick: the saved game, the         *)
(* settings, and the serial thread, which saves the game on request.  The  *)
(* serial thread sees the store through AtomicSave, and otherwise the      *)
(* three share no state: their files have different names.                 *)
(***************************************************************************)
EXTENDS EepromStore

CONSTANTS          (* SettingsStore                                          *)
    Backends, Qualities, SettingsCanFail, SettingsMaxFaults

CONSTANTS          (* SerialThread                                           *)
    Requests, SaveFiles, MaxPresses, MaxSaves, MaxLock

VARIABLES          (* SettingsStore                                          *)
    settingsDisk, settings, pending, saveFailed, recovered, hadPrevious,
    settingsPc, settingsFaults, settingsSaving, settingsResult, settingsWas,
    settingsTried

VARIABLES          (* SerialThread                                           *)
    requests, controllers, answers, serial, game, lock, next, hold, buffer,
    saveFile, returned, press, down, previous, open, gate, ready, pad, stored,
    saving, old, serialTried, serialResult, menuPress, atCall, calls

Settings == INSTANCE SettingsStore WITH
    CanFail <- SettingsCanFail, MaxFaults <- SettingsMaxFaults,
    disk <- settingsDisk, pc <- settingsPc, faults <- settingsFaults,
    saving <- settingsSaving, result <- settingsResult,
    wasStored <- settingsWas, tried <- settingsTried

Serial == INSTANCE SerialThread WITH
    Saves <- SaveFiles, tried <- serialTried, result <- serialResult

(* There is a setting to save, and a file that is torn or missing holds    *)
(* neither settings nor a saved game.                                      *)
ASSUME SavesAssumption ==
    /\ Backends # {} /\ Qualities # {}
    /\ {TORN, NONE} \cap [backend : Backends, quality : Qualities] = {}
    /\ NONE \notin SaveFiles \union {"done", "failed"}
-----------------------------------------------------------------------------
(* The settings are never lost or mixed (SettingsStore.tla).               *)
SettingsAreAtomic == Settings!SettingsAreAtomic

(* The menu shows what is stored, or that it is not (SettingsStore.tla).   *)
ShownIsStored == Settings!ShownIsStored

(* The game sees no press meant for the menu (SerialThread.tla).           *)
MenuKeepsItsPresses == Serial!MenuKeepsItsPresses

(* What a save or a load returns is true (SerialThread.tla).               *)
ReturnIsTrue == Serial!ReturnIsTrue
=============================================================================
