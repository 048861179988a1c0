------------------------------ MODULE EepromStore ------------------------------
(***************************************************************************)
(* The saved game: eeprom_store.c, which keeps the image of an EEPROM in a *)
(* file with a checksum, and Save_WriteEeprom and Save_ReadEeprom in       *)
(* sys_save.c, which write the blocks that changed since the last save in  *)
(* one transaction.  Each file operation is a step; before and after each  *)
(* of them the power may go.                                               *)
(*                                                                         *)
(* A file holds an image, or is TORN: shorter, longer or corrupt, which    *)
(* its header, its length and its checksum tell.  A rename onto a file     *)
(* that exists fails, as it does on a memory stick.  One thread calls the  *)
(* store (the serial thread), so its lock is left out, and so are the      *)
(* failures of a transaction's writes, whose addresses are always valid.   *)
(***************************************************************************)
EXTENDS Naturals

CONSTANTS
    Blocks,        (* the blocks of the EEPROM                               *)
    Bytes,         (* what a block may hold; 0 when it was never written     *)
    CanFail,       (* the file operations that may fail                      *)
    MaxFaults,     (* bound: operations that fail                            *)
    TORN, NONE     (* contents of a file that is not an image                *)

ASSUME StoreAssumption ==
    /\ 0 \in Bytes /\ Blocks # {}
    /\ MaxFaults \in Nat
    /\ TORN # NONE /\ {TORN, NONE} \cap [Blocks -> Bytes] = {}

Images == [Blocks -> Bytes]
Blank == [b \in Blocks |-> 0]
Files == {"primary", "bak", "tmp"}

VARIABLES
    disk,          (* what each file holds                                   *)
    image, before, (* the store's image, and the one to go back to           *)
    initialized,
    sPrevSaveData,
    request,       (* the save file being written, or NONE                   *)
    recovering,    (* the file Init recovers the image from                  *)
    hadPrimary,
    pc,            (* the next operation                                     *)
    faults,        (* failed operations so far                               *)
    result,        (* of the last save: SI_SAVE_SUCCESS or SI_SAVE_FAILED    *)
    wasStored, tried        (* history, for the refinement                   *)

ram == <<image, before, initialized, sPrevSaveData>>
locals == <<request, recovering, hadPrimary>>
history == <<wasStored, tried, result>>
vars == <<disk, ram, locals, pc, faults, history>>

Valid(f) == disk[f] \in Images

Init ==
    /\ disk = [f \in Files |-> NONE]
    /\ image = Blank /\ before = Blank /\ sPrevSaveData = Blank
    /\ initialized = FALSE
    /\ request = NONE /\ recovering = "bak" /\ hadPrimary = FALSE
    /\ pc = "init" /\ faults = 0
    /\ wasStored = NONE /\ tried = {} /\ result = NONE

(* The image a restart finds: the primary, or else the backup.  A valid    *)
(* temporary file alone is a first save that was not reported done; Init   *)
(* may still find it.                                                      *)
Stored == IF Valid("primary") THEN disk["primary"]
          ELSE IF Valid("bak") THEN disk["bak"] ELSE NONE

Works == UNCHANGED faults
Fails(op) == op \in CanFail /\ faults < MaxFaults /\ faults' = faults + 1

(* One file operation, then the next.                                      *)
Remove(f) ==
    \/ Works /\ disk' = [disk EXCEPT ![f] = NONE]
    \/ Fails("remove") /\ UNCHANGED disk

MayRename(from, to) == disk[from] # NONE /\ disk[to] = NONE
Renamed(from, to) == [disk EXCEPT ![to] = disk[from], ![from] = NONE]
-----------------------------------------------------------------------------
(* PspEepromStore_Init, then Save_ReadEeprom.                              *)
Load(v) ==
    /\ image' = v /\ sPrevSaveData' = v /\ initialized' = TRUE

InitRead ==
    /\ pc = "init"
    /\ \/ /\ Valid("primary")
          /\ Load(disk["primary"]) /\ pc' = "run"
          /\ UNCHANGED recovering
       \/ \E f \in {"bak", "tmp"} :
            /\ Valid(f) /\ ~Valid("primary")
            /\ f = "tmp" => ~Valid("bak")
            /\ Load(disk[f]) /\ recovering' = f /\ pc' = "init_remove"
       \/ /\ \A f \in Files : ~Valid(f)
          /\ pc' = "run"
          /\ IF \E f \in Files : disk[f] # NONE
               THEN UNCHANGED <<image, sPrevSaveData, initialized>>
               ELSE Load(Blank)
          /\ UNCHANGED recovering
    /\ UNCHANGED <<disk, before, request, hadPrimary, faults, history>>

InitRemove ==
    /\ pc = "init_remove" /\ pc' = "init_rename"
    /\ Remove("primary")
    /\ UNCHANGED <<ram, locals, history>>

(* Its failure is ignored.  CanFail names it by the file.                  *)
InitRename ==
    /\ pc = "init_rename" /\ pc' = "run"
    /\ \/ /\ MayRename(recovering, "primary") /\ Works
          /\ disk' = Renamed(recovering, "primary")
       \/ /\ ~MayRename(recovering, "primary") /\ Works
          /\ UNCHANGED disk
       \/ Fails(recovering) /\ UNCHANGED disk
    /\ UNCHANGED <<ram, locals, history>>

-----------------------------------------------------------------------------
(* Save_WriteEeprom: the blocks that differ from sPrevSaveData are written *)
(* to the image; nothing is committed when none of them changes it.  While *)
(* the store is not initialized a save starts with PspEepromStore_Init,    *)
(* which finds what it found before, and fails.  What the game saves is    *)
(* never blank: it has a checksum.                                         *)
Update(v) == [b \in Blocks |-> IF v[b] # sPrevSaveData[b] THEN v[b]
                                                          ELSE image[b]]

BeginSave(v) ==
    /\ pc = "run" /\ initialized
    /\ before' = image /\ image' = Update(v)
    /\ request' = v /\ result' = NONE
    /\ wasStored' = Stored /\ tried' = tried \union {v}
    /\ pc' = IF Update(v) = image THEN "succeed" ELSE "remove_tmp"
    /\ UNCHANGED <<disk, initialized, sPrevSaveData, recovering, hadPrimary,
                   faults>>

(* eeprom_write_file: until the last byte is written, the file is torn.    *)
RemoveTmp ==
    /\ pc = "remove_tmp" /\ pc' = "open_tmp"
    /\ Remove("tmp")
    /\ UNCHANGED <<ram, locals, history>>

OpenTmp ==
    /\ pc = "open_tmp"
    /\ \/ /\ Works /\ pc' = "write_tmp"
          /\ disk' = [disk EXCEPT !["tmp"] = TORN]
       \/ /\ Fails("open") /\ pc' = "fail"
          /\ UNCHANGED disk
    /\ UNCHANGED <<ram, locals, history>>

WriteTmp ==
    /\ pc = "write_tmp"
    /\ \/ /\ Works /\ pc' = "read_primary"
          /\ disk' = [disk EXCEPT !["tmp"] = image]
       \/ /\ Fails("write") /\ pc' = "fail"
          /\ UNCHANGED disk
       \/ /\ Fails("close") /\ pc' = "fail"
          /\ disk' = [disk EXCEPT !["tmp"] = image]
    /\ UNCHANGED <<ram, locals, history>>

(* eeprom_commit, once the new image is in the temporary file.  Variant:   *)
(* the old image is not kept while the new one takes its place.            *)
ReadPrimaryOnce ==
    /\ pc = "read_primary"
    /\ hadPrimary' = FALSE
    /\ pc' = "remove_primary"
    /\ UNCHANGED <<disk, ram, request, recovering, faults, history>>

ReadPrimary ==
    /\ pc = "read_primary"
    /\ hadPrimary' = Valid("primary")
    /\ pc' = IF Valid("primary") THEN "remove_bak" ELSE "remove_primary"
    /\ UNCHANGED <<disk, ram, request, recovering, faults, history>>

RemovePrimary ==
    /\ pc = "remove_primary" /\ pc' = "rename_tmp"
    /\ Remove("primary")
    /\ UNCHANGED <<ram, locals, history>>

RemoveBak ==
    /\ pc = "remove_bak" /\ pc' = "keep_primary"
    /\ Remove("bak")
    /\ UNCHANGED <<ram, locals, history>>

(* The primary becomes the backup.                                         *)
KeepPrimary ==
    /\ pc = "keep_primary"
    /\ \/ /\ MayRename("primary", "bak") /\ Works
          /\ disk' = Renamed("primary", "bak") /\ pc' = "rename_tmp"
       \/ /\ \/ ~MayRename("primary", "bak") /\ Works
             \/ Fails("rename")
          /\ pc' = "fail" /\ UNCHANGED disk
    /\ UNCHANGED <<ram, locals, history>>

RenameTmp ==
    /\ pc = "rename_tmp"
    /\ \/ /\ MayRename("tmp", "primary") /\ Works
          /\ disk' = Renamed("tmp", "primary") /\ pc' = "drop_bak"
       \/ /\ \/ ~MayRename("tmp", "primary") /\ Works
             \/ Fails("rename")
          /\ pc' = IF hadPrimary THEN "restore" ELSE "fail"
          /\ UNCHANGED disk
    /\ UNCHANGED <<ram, locals, history>>

(* Its failure is ignored.                                                 *)
Restore ==
    /\ pc = "restore" /\ pc' = "fail"
    /\ \/ /\ MayRename("bak", "primary") /\ Works
          /\ disk' = Renamed("bak", "primary")
       \/ Fails("rename") /\ UNCHANGED disk
    /\ UNCHANGED <<ram, locals, history>>

DropBak ==
    /\ pc = "drop_bak" /\ pc' = "succeed"
    /\ Remove("bak")
    /\ UNCHANGED <<ram, locals, history>>

EndSave ==
    /\ request' = NONE /\ wasStored' = NONE /\ pc' = "run"
    /\ UNCHANGED <<disk, before, initialized, recovering, hadPrimary, faults,
                   tried>>

Succeed ==
    /\ pc = "succeed" /\ EndSave
    /\ sPrevSaveData' = request /\ result' = "done"
    /\ UNCHANGED image

(* Variant: the image is not taken back.                                   *)
FailKeepingImage ==
    /\ pc = "fail" /\ EndSave /\ result' = "failed"
    /\ UNCHANGED <<image, sPrevSaveData>>

Fail ==
    /\ pc = "fail" /\ EndSave /\ result' = "failed"
    /\ image' = before
    /\ UNCHANGED sPrevSaveData

(* The power goes, and comes back.  When it goes in the middle of the last *)
(* rename, the new file may have its name and not its contents.            *)
Crash ==
    /\ pc' = "init" /\ pc # "init"
    /\ \/ UNCHANGED disk
       \/ /\ pc = "rename_tmp" /\ MayRename("tmp", "primary")
          /\ disk' = [disk EXCEPT !["primary"] = TORN, !["tmp"] = NONE]
    /\ image' = Blank /\ before' = Blank /\ sPrevSaveData' = Blank
    /\ initialized' = FALSE
    /\ request' = NONE /\ recovering' = "bak" /\ hadPrimary' = FALSE
    /\ wasStored' = NONE /\ result' = NONE
    /\ UNCHANGED <<faults, tried>>
-----------------------------------------------------------------------------
Commit ==
    \/ RemoveTmp \/ OpenTmp \/ WriteTmp \/ ReadPrimary \/ RemovePrimary
    \/ RemoveBak \/ KeepPrimary \/ RenameTmp \/ Restore \/ DropBak

Next ==
    \/ InitRead \/ InitRemove \/ InitRename
    \/ \E v \in Images \ {Blank} : BeginSave(v)
    \/ Commit \/ Succeed \/ Fail \/ Crash

Spec == Init /\ [][Next]_vars
-----------------------------------------------------------------------------
Steps == {"init", "init_remove", "init_rename", "run", "remove_tmp",
          "open_tmp", "write_tmp", "read_primary", "remove_primary",
          "remove_bak", "keep_primary", "rename_tmp", "restore", "drop_bak",
          "succeed", "fail"}

TypeOK ==
    /\ disk \in [Files -> Images \union {TORN, NONE}]
    /\ image \in Images /\ before \in Images /\ sPrevSaveData \in Images
    /\ initialized \in BOOLEAN /\ hadPrimary \in BOOLEAN
    /\ request \in Images \union {NONE} /\ recovering \in {"bak", "tmp"}
    /\ pc \in Steps /\ faults \in 0..MaxFaults
    /\ wasStored \in Images \union {NONE} /\ tried \subseteq Images
    /\ result \in {NONE, "done", "failed"}

(* Between two saves the image is what a restart finds, and sPrevSaveData  *)
(* is the image, so that the next save leaves out no block that differs.   *)
ImageIsStored ==
    pc = "run" /\ initialized
        => /\ image = IF Stored = NONE THEN Blank ELSE Stored
           /\ sPrevSaveData = image

(* Whatever operation fails and wherever the power goes, the saved game is *)
(* never lost, mixed or rolled back, and the result of a save is true.     *)
Promise == INSTANCE AtomicSave WITH
    NOTHING <- NONE, stored <- Stored, saving <- request, old <- wasStored

SavesAreAtomic == Promise!Spec
=============================================================================
