----------------------------- MODULE SettingsStore -----------------------------
(***************************************************************************)
(* The settings file of psp/settings.c: the graphics backend and quality   *)
(* of the settings menu, written at once or at the next boundary between   *)
(* two frames, and read at the start.  Like the saved game it lives in a   *)
(* file, a backup and a temporary file, with other steps and other rules   *)
(* of recovery, and without a checksum: what tells a torn file is that its *)
(* last line has no end.  A write that stops after the line of the backend *)
(* therefore leaves a file that can be read, without the quality.  Only    *)
(* the graphics thread calls it.                                           *)
(*   Each file operation is a step, which may fail when CanFail names it;  *)
(* the power may go before and after it.  A rename onto a file that exists *)
(* fails.  Lines the program does not know are kept as they are, and left  *)
(* out here, as is the path of the files.                                  *)
(***************************************************************************)
EXTENDS Naturals

CONSTANTS
    Backends, Qualities,
    CanFail,       (* the file operations that may fail                      *)
    MaxFaults,     (* bound: operations that fail                            *)
    TORN, NONE     (* contents of a file that is not a settings file         *)

VARIABLES
    disk,          (* what each file holds                                   *)
    settings,      (* sGraphicsBackend, sGraphicsQuality                     *)
    pending,       (* sQualityPending                                        *)
    saveFailed,    (* sBackendSaveFailed                                     *)
    recovered,     (* sRecoveredBackup                                       *)
    hadPrevious,
    pc,            (* the next operation                                     *)
    faults,        (* failed operations so far                               *)
    saving, result, wasStored, tried        (* history, for the refinement   *)

vars == <<disk, settings, pending, saveFailed, recovered, hadPrevious, pc, faults,
          saving, result, wasStored, tried>>
file == <<settings, pending, saveFailed, recovered, saving, result, wasStored, tried>>

Values == [backend : Backends, quality : Qualities]
Default == CHOOSE v \in Values : TRUE
Files == {"settings", "bak", "tmp"}

Valid(f) == disk[f] \in Values
Exists(f) == disk[f] # NONE

(* What a restart finds; a temporary file alone was never reported saved.  *)
Stored == IF Valid("settings") THEN disk["settings"]
          ELSE IF Valid("bak") THEN disk["bak"] ELSE NONE

Init ==
    /\ disk = [f \in Files |-> NONE] /\ settings = Default
    /\ pending = FALSE /\ saveFailed = FALSE /\ recovered = FALSE
    /\ hadPrevious = FALSE /\ pc = "init" /\ faults = 0
    /\ saving = NONE /\ result = NONE /\ wasStored = NONE /\ tried = {}
-----------------------------------------------------------------------------
Works == UNCHANGED faults
Fails(op) == op \in CanFail /\ faults < MaxFaults /\ faults' = faults + 1

Goto(op) == pc' = op
Removed(f) == [disk EXCEPT ![f] = NONE]

(* A removal fails by itself when there is no such file.                   *)
Remove(f, good, bad) ==
    \/ Works /\ disk' = Removed(f) /\ Goto(good)
    \/ Fails("remove") /\ UNCHANGED disk /\ Goto(bad)

MayRename(from, to) == Exists(from) /\ ~Exists(to)

Rename(from, to, good, bad) ==
    \/ /\ MayRename(from, to) /\ Works /\ Goto(good)
       /\ disk' = [disk EXCEPT ![to] = disk[from], ![from] = NONE]
    \/ /\ UNCHANGED disk /\ Goto(bad)
       /\ \/ ~MayRename(from, to) /\ Works
          \/ Fails("rename")

(* PspSettings_Init.                                                       *)
ReadAtStart ==
    /\ pc = "init" /\ Goto("run")
    /\ settings' = IF Stored # NONE THEN Stored
                   ELSE IF Valid("tmp") THEN disk["tmp"] ELSE Default
    /\ recovered' = (~Valid("settings") /\ Valid("bak"))
    /\ pending' = FALSE /\ saveFailed' = FALSE
    /\ UNCHANGED <<disk, hadPrevious, faults, saving, result, wasStored, tried>>
-----------------------------------------------------------------------------
(* psp_settings_save_backend begins to save v.                             *)
BeginSave(v) ==
    /\ Goto("remove_tmp") /\ hadPrevious' = FALSE
    /\ saving' = v /\ tried' = tried \union {v} /\ wasStored' = Stored /\ result' = NONE
    /\ UNCHANGED <<disk, recovered, faults>>

(* PspSettings_SetGraphicsQuality: saved at the next boundary.             *)
SetQuality(q) ==
    /\ pc = "run" /\ (q # settings.quality \/ saveFailed)
    /\ settings' = [settings EXCEPT !.quality = q] /\ pending' = TRUE
    /\ UNCHANGED <<disk, saveFailed, recovered, hadPrevious, pc, faults, saving, result,
                   wasStored, tried>>

(* PspSettings_SetGraphicsBackend: a failed save is tried again when the   *)
(* same backend is chosen.                                                 *)
SetBackend(b) ==
    /\ pc = "run" /\ (b # settings.backend \/ saveFailed)
    /\ settings' = [settings EXCEPT !.backend = b]
    /\ BeginSave(settings') /\ UNCHANGED <<pending, saveFailed>>

(* PspSettings_Apply.                                                      *)
Apply ==
    /\ pc = "run" /\ pending /\ pending' = FALSE
    /\ BeginSave(settings) /\ UNCHANGED <<settings, saveFailed>>

(* The temporary file, torn until its last byte is written.                *)
RemoveTmp ==
    /\ pc = "remove_tmp" /\ Remove("tmp", "open_tmp", "open_tmp")
    /\ UNCHANGED <<file, hadPrevious>>

OpenTmp ==
    /\ pc = "open_tmp"
    /\ \/ Works /\ disk' = [disk EXCEPT !["tmp"] = TORN] /\ Goto("write_tmp")
       \/ Fails("open") /\ UNCHANGED disk /\ Goto("fail")
    /\ UNCHANGED <<file, hadPrevious>>

(* What is read of a file that ends after the line of the backend.         *)
Short(v) == [v EXCEPT !.quality = Default.quality]

WriteTmp ==
    /\ pc = "write_tmp"
    /\ \/ Works /\ disk' = [disk EXCEPT !["tmp"] = saving] /\ Goto("previous")
       \/ /\ Fails("write") /\ Goto("drop_tmp")
          /\ disk' \in {disk, [disk EXCEPT !["tmp"] = Short(saving)]}
       \/ Fails("close") /\ disk' = [disk EXCEPT !["tmp"] = saving] /\ Goto("drop_tmp")
    /\ UNCHANGED <<file, hadPrevious>>

(* Variant: an unreadable file is kept as the backup.                      *)
PreviousAlways ==
    /\ pc = "previous"
    /\ \/ Works /\ Goto(IF ~Exists("settings") THEN "rename_tmp" ELSE "remove_bak")
       \/ Fails("probe") /\ Goto("rename_tmp")
    /\ UNCHANGED <<disk, file, hadPrevious>>

(* What becomes of the file there is: one that Init could not read is      *)
(* removed, for the backup is all there is; any other one becomes the      *)
(* backup.  A file that cannot be opened now is taken for none.            *)
Previous ==
    /\ pc = "previous"
    /\ \/ /\ Works
          /\ Goto(IF ~Exists("settings") THEN "rename_tmp"
                  ELSE IF recovered THEN "remove_unread" ELSE "remove_bak")
       \/ Fails("probe") /\ Goto("rename_tmp")
    /\ UNCHANGED <<disk, file, hadPrevious>>

RemoveUnread ==
    /\ pc = "remove_unread" /\ Remove("settings", "rename_tmp", "drop_tmp")
    /\ UNCHANGED <<file, hadPrevious>>

RemoveBak ==
    /\ pc = "remove_bak" /\ Remove("bak", "keep_previous", "keep_previous")
    /\ UNCHANGED <<file, hadPrevious>>

KeepPrevious ==
    /\ pc = "keep_previous" /\ Rename("settings", "bak", "rename_tmp", "drop_tmp")
    /\ hadPrevious' = (pc' = "rename_tmp")
    /\ UNCHANGED file

RenameTmp ==
    /\ pc = "rename_tmp"
    /\ Rename("tmp", "settings",
              IF hadPrevious \/ recovered THEN "drop_bak" ELSE "succeed",
              IF hadPrevious THEN "restore" ELSE "drop_tmp")
    /\ UNCHANGED <<file, hadPrevious>>

Restore ==
    /\ pc = "restore" /\ Rename("bak", "settings", "drop_tmp", "drop_tmp")
    /\ UNCHANGED <<file, hadPrevious>>

DropTmp ==
    /\ pc = "drop_tmp" /\ Remove("tmp", "fail", "fail")
    /\ UNCHANGED <<file, hadPrevious>>

DropBak ==
    /\ pc = "drop_bak" /\ Remove("bak", "succeed", "succeed")
    /\ UNCHANGED <<file, hadPrevious>>

End(r) ==
    /\ Goto("run") /\ saving' = NONE /\ wasStored' = NONE /\ result' = r
    /\ saveFailed' = (r = "failed")
    /\ UNCHANGED <<disk, settings, pending, hadPrevious, faults, tried>>

Succeed == pc = "succeed" /\ recovered' = FALSE /\ End("done")

(* Variant: the caller does not learn of the failure.                      *)
FailQuietly ==
    /\ pc = "fail" /\ UNCHANGED recovered
    /\ Goto("run") /\ saving' = NONE /\ wasStored' = NONE /\ result' = "failed"
    /\ saveFailed' = FALSE
    /\ UNCHANGED <<disk, settings, pending, hadPrevious, faults, tried>>

Fail == pc = "fail" /\ UNCHANGED recovered /\ End("failed")

(* The power goes, and comes back.  When it goes in the middle of the last *)
(* rename, the new file may have its name and not its contents; of those,  *)
(* less than a sector, it has all or nothing.                              *)
Crash ==
    /\ pc # "init" /\ Goto("init") /\ settings' = Default
    /\ \/ UNCHANGED disk
       \/ /\ pc = "rename_tmp" /\ MayRename("tmp", "settings")
          /\ disk' = [disk EXCEPT !["settings"] = TORN, !["tmp"] = NONE]
    /\ pending' = FALSE /\ saveFailed' = FALSE /\ recovered' = FALSE
    /\ hadPrevious' = FALSE /\ saving' = NONE /\ result' = NONE /\ wasStored' = NONE
    /\ UNCHANGED <<faults, tried>>
-----------------------------------------------------------------------------
Save ==
    \/ RemoveTmp \/ OpenTmp \/ WriteTmp \/ Previous \/ RemoveUnread \/ RemoveBak
    \/ KeepPrevious \/ RenameTmp \/ Restore \/ DropTmp \/ DropBak \/ Succeed \/ Fail

Next ==
    \/ ReadAtStart \/ Apply \/ Save \/ Crash
    \/ \E q \in Qualities : SetQuality(q)
    \/ \E b \in Backends : SetBackend(b)

Spec == Init /\ [][Next]_vars
-----------------------------------------------------------------------------
(* Whatever operation fails and wherever the power goes, settings that     *)
(* were once stored are never lost or mixed, and a restart finds the       *)
(* settings of the last save reported done, or of the one under way.       *)
Promise == INSTANCE AtomicSave WITH
    Images <- Values, NOTHING <- NONE, stored <- Stored, old <- wasStored

SettingsAreAtomic == Promise!Spec

(* Between two saves a restart finds what the menu shows, unless the menu  *)
(* shows that the save failed or a change waits for the boundary.          *)
ShownIsStored ==
    pc = "run" /\ ~pending /\ ~saveFailed /\ Stored # NONE => settings = Stored

=============================================================================
