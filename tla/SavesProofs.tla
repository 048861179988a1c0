------------------------------ MODULE SavesProofs ------------------------------
(* What the memory stick holds.  The saved game: eeprom_store.c implements *)
(* AtomicSave, and memory agrees with the files.  The settings:            *)
(* psp_settings.c implements AtomicSave too, and the menu shows what is    *)
(* stored.  The serial thread: what it answers is true, and no press meant *)
(* for the menu reaches the game.  In each part the inductive invariant    *)
(* says what each step leaves behind, wherever the power goes.             *)
EXTENDS Saves, Sequences, TLAPS

Saving == pc \in {"remove_tmp", "open_tmp", "write_tmp", "read_primary",
                  "remove_primary", "remove_bak", "keep_primary", "rename_tmp",
                  "restore", "drop_bak", "succeed", "fail"}
Recovering == pc \in {"init_remove", "init_rename"}

(* What the game has in memory of an image that is, or is not, stored.     *)
Shown(s) == IF s = NONE THEN Blank ELSE s

(* The backup is never torn; the temporary file, once whole, is an image   *)
(* that was to be saved; and a torn primary has a backup, unless it is     *)
(* all there is, in which case nothing is ever saved again.                *)
DiskInv ==
    /\ disk["bak"] # TORN
    /\ Valid("tmp") => disk["tmp"] \in tried
    /\ disk["primary"] = TORN /\ ~Valid("bak") =>
         disk["tmp"] = NONE /\ ~initialized

(* Only a store that was read can be written, and only a save has a        *)
(* request.                                                                *)
PhaseInv ==
    /\ pc = "init" => ~initialized
    /\ Saving \/ Recovering => initialized
    /\ Saving <=> request # NONE

(* Recovery takes the one file that is whole.                              *)
RecoveryInv ==
    Recovering => /\ Valid(recovering) /\ ~Valid("primary")
                  /\ recovering = "tmp" => ~Valid("bak")
                  /\ image = disk[recovering] /\ sPrevSaveData = image

(* A save has the new image in memory, and the old one to go back to.      *)
SaveInv ==
    Saving => /\ request = image /\ request \in tried
              /\ before = Shown(wasStored) /\ sPrevSaveData = before

(* What a restart would find at each step of a save, and where.            *)
StageInv ==
    /\ Saving /\ pc \notin {"drop_bak", "succeed"} => Stored = wasStored
    /\ pc \in {"drop_bak", "succeed"} => Stored = request
    /\ pc = "drop_bak" => Valid("primary")
    /\ pc \in {"read_primary", "remove_primary", "remove_bak", "keep_primary",
               "rename_tmp"} => disk["tmp"] = image
    /\ pc = "remove_primary" => ~hadPrimary /\ ~Valid("primary")
    /\ pc \in {"remove_bak", "keep_primary"} => hadPrimary /\ Valid("primary")
    /\ pc = "rename_tmp" => ~Valid("primary")
    /\ pc = "restore" \/ (pc = "rename_tmp" /\ hadPrimary) =>
         disk["primary"] = NONE /\ Valid("bak")

IInv == /\ TypeOK /\ DiskInv /\ PhaseInv /\ RecoveryInv /\ SaveInv /\ StageInv
        /\ ImageIsStored
-----------------------------------------------------------------------------
(* What a file holds is an image, torn or nothing.                          *)
LEMMA Facts ==
    /\ Blank \in Images /\ NONE \notin Images /\ TORN \notin Images
    /\ TORN # NONE
  BY StoreAssumption DEF Images, Blank

(* The memory stick is empty.                                               *)
LEMMA Initially == Init => IInv
  <1> SUFFICES ASSUME Init PROVE IInv
    OBVIOUS
  <1> USE Facts DEF Init, Valid, Files, Saving, Recovering
  <1>1. TypeOK
    <2>1. disk \in [Files -> Images \union {TORN, NONE}]
      OBVIOUS
    <2>2. faults \in 0..MaxFaults
      BY StoreAssumption
    <2> QED
      BY <2>1, <2>2, Zenon DEF TypeOK, Steps
  <1>2. DiskInv
    BY DEF DiskInv
  <1>3. PhaseInv
    BY DEF PhaseInv
  <1>4. RecoveryInv /\ SaveInv /\ StageInv
    BY DEF RecoveryInv, SaveInv, StageInv
  <1>5. ImageIsStored
    BY DEF ImageIsStored
  <1> QED
    BY <1>1, <1>2, <1>3, <1>4, <1>5 DEF IInv

(* Init changes no file; what it loads is what a restart finds.             *)
LEMMA InitReadKeeps == ASSUME IInv, InitRead PROVE IInv'
  <1> USE DEF IInv, InitRead, Load, history, Valid, Files, Saving, Recovering
  <1>1. TypeOK'
    BY Facts DEF TypeOK, Steps
  <1>2. DiskInv'
    BY Facts DEF DiskInv
  <1>3. ImageIsStored'
    <2>1. UNCHANGED disk /\ Stored' = Stored
      BY DEF Stored
    <2>2. CASE Valid("primary")
      BY <2>1, <2>2, Facts DEF Stored, ImageIsStored
    <2>3. CASE ~Valid("primary") /\ (Valid("bak") \/ Valid("tmp"))
      BY <2>3 DEF ImageIsStored
    <2>4. CASE \A f \in Files : ~Valid(f)
      BY <2>1, <2>4, Facts DEF Stored, ImageIsStored, PhaseInv
    <2> QED
      BY <2>2, <2>3, <2>4
  <1>4. PhaseInv' /\ RecoveryInv' /\ SaveInv' /\ StageInv'
    BY DEF PhaseInv, RecoveryInv, SaveInv, StageInv
  <1> QED
    BY <1>1, <1>2, <1>3, <1>4

(* What Init removes is not whole.                                          *)
LEMMA InitRemoveKeeps == ASSUME IInv, InitRemove PROVE IInv'
  <1> USE DEF IInv, InitRemove, Remove, Works, Fails, ram, locals, history,
              Valid, Files, Saving, Recovering
  <1>1. TypeOK'
    BY StoreAssumption DEF TypeOK, Steps
  <1>2. DiskInv'
    BY DEF TypeOK, DiskInv
  <1>3. RecoveryInv'
    BY Facts DEF TypeOK, RecoveryInv
  <1>4. PhaseInv' /\ SaveInv' /\ StageInv' /\ ImageIsStored'
    BY DEF PhaseInv, SaveInv, StageInv, ImageIsStored
  <1> QED
    BY <1>1, <1>2, <1>3, <1>4

(* The recovered file becomes the primary, which is out of the way unless   *)
(* the backup stays.                                                        *)
LEMMA InitRenameKeeps ==
    ASSUME IInv, InitRename, "tmp" \notin CanFail PROVE IInv'
  <1> USE DEF IInv, InitRename, MayRename, Renamed, Works, Fails, ram, locals,
              history, Valid, Files, Saving, Recovering
  <1>1. TypeOK'
    BY StoreAssumption DEF TypeOK, Steps
  <1>2. DiskInv'
    BY Facts DEF TypeOK, DiskInv, RecoveryInv
  <1>3. ImageIsStored'
    BY Facts DEF TypeOK, DiskInv, RecoveryInv, ImageIsStored, Stored
  <1>4. PhaseInv' /\ RecoveryInv' /\ SaveInv' /\ StageInv'
    BY DEF PhaseInv, RecoveryInv, SaveInv, StageInv
  <1> QED
    BY <1>1, <1>2, <1>3, <1>4

(* The temporary file counts for nothing while an image is stored.          *)
LEMMA RemoveTmpKeeps == ASSUME IInv, RemoveTmp PROVE IInv'
  <1> USE DEF IInv, RemoveTmp, Remove, Works, Fails, ram, locals, history,
              Valid, Files, Saving, Recovering
  <1>1. TypeOK'
    BY StoreAssumption DEF TypeOK, Steps
  <1>2. DiskInv'
    BY Facts DEF TypeOK, DiskInv
  <1>3. StageInv'
    BY DEF TypeOK, StageInv, Stored
  <1>4. PhaseInv' /\ RecoveryInv' /\ SaveInv' /\ ImageIsStored'
    BY DEF PhaseInv, RecoveryInv, SaveInv, ImageIsStored
  <1> QED
    BY <1>1, <1>2, <1>3, <1>4

(* A torn temporary file is nobody's image.                                 *)
LEMMA OpenTmpKeeps == ASSUME IInv, OpenTmp PROVE IInv'
  <1> USE DEF IInv, OpenTmp, Works, Fails, ram, locals, history, Valid, Files,
              Saving, Recovering
  <1>1. TypeOK'
    BY StoreAssumption DEF TypeOK, Steps
  <1>2. DiskInv'
    BY Facts DEF TypeOK, DiskInv, PhaseInv
  <1>3. StageInv'
    BY DEF TypeOK, StageInv, Stored
  <1>4. PhaseInv' /\ RecoveryInv' /\ SaveInv' /\ ImageIsStored'
    BY DEF PhaseInv, RecoveryInv, SaveInv, ImageIsStored
  <1> QED
    BY <1>1, <1>2, <1>3, <1>4

(* The whole new image is in the temporary file, and tried.                 *)
LEMMA WriteTmpKeeps == ASSUME IInv, WriteTmp PROVE IInv'
  <1> USE DEF IInv, WriteTmp, Works, Fails, ram, locals, history, Valid, Files,
              Saving, Recovering
  <1>1. TypeOK'
    BY StoreAssumption DEF TypeOK, Steps
  <1>2. DiskInv'
    BY DEF TypeOK, DiskInv, SaveInv, PhaseInv
  <1>3. StageInv'
    BY DEF TypeOK, StageInv, Stored
  <1>4. PhaseInv' /\ RecoveryInv' /\ SaveInv' /\ ImageIsStored'
    BY DEF PhaseInv, RecoveryInv, SaveInv, ImageIsStored
  <1> QED
    BY <1>1, <1>2, <1>3, <1>4

(* Whether there is an old image in the primary.                            *)
LEMMA ReadPrimaryKeeps == ASSUME IInv, ReadPrimary PROVE IInv'
  <1> USE DEF IInv, ReadPrimary, ram, history, Valid, Files, Saving, Recovering
  <1>1. TypeOK'
    BY DEF TypeOK, Steps
  <1>2. StageInv'
    BY DEF StageInv, Stored
  <1>3. DiskInv' /\ PhaseInv' /\ RecoveryInv' /\ SaveInv' /\ ImageIsStored'
    BY DEF DiskInv, PhaseInv, RecoveryInv, SaveInv, ImageIsStored
  <1> QED
    BY <1>1, <1>2, <1>3

(* The primary removed is not whole: the backup, if any, stays.             *)
LEMMA RemovePrimaryKeeps == ASSUME IInv, RemovePrimary PROVE IInv'
  <1> USE DEF IInv, RemovePrimary, Remove, Works, Fails, ram, locals, history,
              Valid, Files, Saving, Recovering
  <1>1. TypeOK'
    BY StoreAssumption DEF TypeOK, Steps
  <1>2. DiskInv'
    BY DEF TypeOK, DiskInv
  <1>3. StageInv'
    BY Facts DEF TypeOK, StageInv, Stored
  <1>4. PhaseInv' /\ RecoveryInv' /\ SaveInv' /\ ImageIsStored'
    BY DEF PhaseInv, RecoveryInv, SaveInv, ImageIsStored
  <1> QED
    BY <1>1, <1>2, <1>3, <1>4

(* The primary is whole: the backup is not needed.                          *)
LEMMA RemoveBakKeeps == ASSUME IInv, RemoveBak PROVE IInv'
  <1> USE DEF IInv, RemoveBak, Remove, Works, Fails, ram, locals, history,
              Valid, Files, Saving, Recovering
  <1>1. TypeOK'
    BY StoreAssumption DEF TypeOK, Steps
  <1>2. DiskInv'
    BY Facts DEF TypeOK, DiskInv, StageInv
  <1>3. StageInv'
    BY DEF TypeOK, StageInv, Stored
  <1>4. PhaseInv' /\ RecoveryInv' /\ SaveInv' /\ ImageIsStored'
    BY DEF PhaseInv, RecoveryInv, SaveInv, ImageIsStored
  <1> QED
    BY <1>1, <1>2, <1>3, <1>4

(* The old image goes on in the backup.                                     *)
LEMMA KeepPrimaryKeeps == ASSUME IInv, KeepPrimary PROVE IInv'
  <1> USE DEF IInv, KeepPrimary, MayRename, Renamed, Works, Fails, ram, locals,
              history, Valid, Files, Saving, Recovering
  <1>1. TypeOK'
    BY StoreAssumption DEF TypeOK, Steps
  <1>2. DiskInv'
    BY Facts DEF TypeOK, DiskInv, PhaseInv
  <1>3. StageInv'
    BY Facts DEF TypeOK, StageInv, Stored
  <1>4. PhaseInv' /\ RecoveryInv' /\ SaveInv' /\ ImageIsStored'
    BY DEF PhaseInv, RecoveryInv, SaveInv, ImageIsStored
  <1> QED
    BY <1>1, <1>2, <1>3, <1>4

(* The new image is the primary, or the old one is where it was.            *)
LEMMA RenameTmpKeeps == ASSUME IInv, RenameTmp PROVE IInv'
  <1> USE DEF IInv, RenameTmp, MayRename, Renamed, Works, Fails, ram, locals,
              history, Valid, Files, Saving, Recovering
  <1>1. TypeOK'
    BY StoreAssumption DEF TypeOK, Steps
  <1>2. DiskInv'
    BY Facts DEF TypeOK, DiskInv, StageInv
  <1>3. StageInv'
    BY DEF TypeOK, SaveInv, StageInv, Stored
  <1>4. PhaseInv' /\ RecoveryInv' /\ SaveInv' /\ ImageIsStored'
    BY DEF PhaseInv, RecoveryInv, SaveInv, ImageIsStored
  <1> QED
    BY <1>1, <1>2, <1>3, <1>4

(* The old image is found in either place.                                  *)
LEMMA RestoreKeeps == ASSUME IInv, Restore PROVE IInv'
  <1> USE DEF IInv, Restore, MayRename, Renamed, Works, Fails, ram, locals,
              history, Valid, Files, Saving, Recovering
  <1>1. TypeOK'
    BY StoreAssumption DEF TypeOK, Steps
  <1>2. DiskInv'
    BY Facts DEF TypeOK, DiskInv
  <1>3. StageInv'
    BY Facts DEF TypeOK, StageInv, Stored
  <1>4. PhaseInv' /\ RecoveryInv' /\ SaveInv' /\ ImageIsStored'
    BY DEF PhaseInv, RecoveryInv, SaveInv, ImageIsStored
  <1> QED
    BY <1>1, <1>2, <1>3, <1>4

(* The new image is the primary: the old one is not needed.                 *)
LEMMA DropBakKeeps == ASSUME IInv, DropBak PROVE IInv'
  <1> USE DEF IInv, DropBak, Remove, Works, Fails, ram, locals, history, Valid,
              Files, Saving, Recovering
  <1>1. TypeOK'
    BY StoreAssumption DEF TypeOK, Steps
  <1>2. DiskInv'
    BY Facts DEF TypeOK, DiskInv, StageInv
  <1>3. StageInv'
    BY DEF TypeOK, StageInv, Stored
  <1>4. PhaseInv' /\ RecoveryInv' /\ SaveInv' /\ ImageIsStored'
    BY DEF PhaseInv, RecoveryInv, SaveInv, ImageIsStored
  <1> QED
    BY <1>1, <1>2, <1>3, <1>4

(* What is stored is what is in memory.                                     *)
LEMMA SucceedKeeps == ASSUME IInv, Succeed PROVE IInv'
  <1> USE DEF IInv, Succeed, EndSave, Valid, Files, Saving, Recovering
  <1>1. TypeOK'
    BY DEF TypeOK, PhaseInv, Steps
  <1>2. ImageIsStored'
    BY DEF PhaseInv, SaveInv, StageInv, ImageIsStored, Stored
  <1>3. DiskInv' /\ PhaseInv' /\ RecoveryInv' /\ SaveInv' /\ StageInv'
    BY DEF DiskInv, PhaseInv, RecoveryInv, SaveInv, StageInv
  <1> QED
    BY <1>1, <1>2, <1>3

(* The image taken back is what is stored.                                  *)
LEMMA FailKeeps == ASSUME IInv, Fail PROVE IInv'
  <1> USE DEF IInv, Fail, EndSave, Valid, Files, Saving, Recovering
  <1>1. TypeOK'
    BY DEF TypeOK, Steps
  <1>2. ImageIsStored'
    BY DEF SaveInv, StageInv, ImageIsStored, Stored, Shown
  <1>3. DiskInv' /\ PhaseInv' /\ RecoveryInv' /\ SaveInv' /\ StageInv'
    BY DEF DiskInv, PhaseInv, RecoveryInv, SaveInv, StageInv
  <1> QED
    BY <1>1, <1>2, <1>3

(* Memory is lost; a rename cut short leaves the backup.                    *)
LEMMA CrashKeeps == ASSUME IInv, Crash PROVE IInv'
  <1> USE DEF IInv, Crash, MayRename, Valid, Files, Saving, Recovering
  <1>1. TypeOK'
    BY Facts DEF TypeOK, Steps
  <1>2. DiskInv'
    BY DEF TypeOK, DiskInv, StageInv
  <1>3. PhaseInv' /\ RecoveryInv' /\ SaveInv' /\ StageInv' /\ ImageIsStored'
    BY DEF PhaseInv, RecoveryInv, SaveInv, StageInv, ImageIsStored
  <1> QED
    BY <1>1, <1>2, <1>3

(* The blocks that differ from the last save are all that differ from the   *)
(* image, so that the new image is the whole request; if it is the old image*)
(* it is stored already.                                                    *)
LEMMA BeginSaveKeeps ==
    ASSUME IInv, NEW v \in Images \ {Blank}, BeginSave(v) PROVE IInv'
  <1>1. Update(v) = v
    <2>1. image = sPrevSaveData
      BY DEF IInv, ImageIsStored, BeginSave
    <2>2. v = [b \in Blocks |-> v[b]] /\ image = [b \in Blocks |-> image[b]]
      BY DEF IInv, TypeOK, Images
    <2>3. Update(v) = [b \in Blocks |-> v[b]]
      BY <2>1 DEF Update
    <2> QED
      BY <2>2, <2>3
  <1>2. image = Shown(Stored) /\ sPrevSaveData = image
    BY DEF IInv, ImageIsStored, BeginSave, Shown
  <1>3. /\ pc = "run" /\ before' = image /\ image' = v /\ request' = v
        /\ wasStored' = Stored /\ tried' = tried \union {v} /\ result' = NONE
        /\ pc' = IF v = image THEN "succeed" ELSE "remove_tmp"
        /\ UNCHANGED <<disk, initialized, sPrevSaveData, recovering, hadPrimary,
                       faults>>
    BY <1>1 DEF BeginSave
  <1>4. Stored' = Stored
    BY <1>3 DEF Stored, Valid
  <1> USE Facts
      DEF IInv, Valid, Files, Steps, Saving, Recovering, Shown
  <1>5. Stored \in Images \union {NONE}
    BY DEF Stored
  <1>6. TypeOK'
    BY <1>3, <1>5 DEF TypeOK
  <1>7. DiskInv'
    BY <1>3 DEF TypeOK, DiskInv
  <1>8. PhaseInv'
    BY <1>3 DEF PhaseInv, BeginSave
  <1>9. RecoveryInv' /\ ImageIsStored'
    BY <1>3 DEF RecoveryInv, ImageIsStored
  <1>10. SaveInv'
    BY <1>2, <1>3 DEF SaveInv
  <1>11. StageInv'
    BY <1>2, <1>3, <1>4 DEF StageInv
  <1> QED
    BY <1>6, <1>7, <1>8, <1>9, <1>10, <1>11

(* One lemma for each operation; only the recovery from the temporary file  *)
(* needs its rename to work.                                                *)
LEMMA Inductive ==
    ASSUME "tmp" \notin CanFail PROVE IInv /\ [Next]_vars => IInv'
  <1> SUFFICES ASSUME IInv, [Next]_vars PROVE IInv'
    OBVIOUS
  <1>1. CASE InitRead \/ InitRemove \/ InitRename
    BY <1>1, InitReadKeeps, InitRemoveKeeps, InitRenameKeeps
  <1>2. CASE \E v \in Images \ {Blank} : BeginSave(v)
    BY <1>2, BeginSaveKeeps
  <1>3. CASE Commit
    BY <1>3, RemoveTmpKeeps, OpenTmpKeeps, WriteTmpKeeps, ReadPrimaryKeeps,
       RemovePrimaryKeeps, RemoveBakKeeps, KeepPrimaryKeeps, RenameTmpKeeps,
       RestoreKeeps, DropBakKeeps DEF Commit
  <1>4. CASE Succeed \/ Fail \/ Crash
    BY <1>4, SucceedKeeps, FailKeeps, CrashKeeps
  <1>5. CASE UNCHANGED vars
    BY <1>5 DEF IInv, TypeOK, DiskInv, PhaseInv, RecoveryInv, SaveInv, StageInv,
       ImageIsStored, Saving, Recovering, Valid, Stored, Files, Steps, vars,
       ram, locals, history
  <1> QED
    BY <1>1, <1>2, <1>3, <1>4, <1>5 DEF Next

(* The parts of the invariant hold together.                               *)
THEOREM Invariance ==
    ASSUME "tmp" \notin CanFail PROVE Spec => []IInv
  BY Initially, Inductive, PTL DEF Spec

(* Between two saves, memory agrees with what a restart would find, after   *)
(* every failed operation and every loss of power, provided that the rename *)
(* which recovers the image from the temporary file does not fail.          *)
THEOREM MemoryAgrees ==
    ASSUME "tmp" \notin CanFail PROVE Spec => []ImageIsStored
  <1>1. IInv => ImageIsStored
    BY DEF IInv
  <1> QED
    BY <1>1, Invariance, PTL
-----------------------------------------------------------------------------
(* A memory stick without files has nothing stored.                         *)
LEMMA InitMaps == Init => Promise!Init
  <1> SUFFICES ASSUME Init PROVE Promise!Init
    OBVIOUS
  <1>1. Stored = NONE
    BY Facts DEF Init, Stored, Valid, Files
  <1> QED
    BY <1>1, Zenon DEF Init, Promise!Init

(* Each file operation is a step of AtomicSave or changes nothing there: the*)
(* last rename stores the image, the recovery from a temporary file adopts  *)
(* one that was tried.                                                      *)
LEMMA StepMaps ==
    ASSUME IInv, Next, "tmp" \notin CanFail
    PROVE  \/ Promise!Next
           \/ UNCHANGED <<Stored, request, wasStored, tried, result>>
  <1> USE Facts
      DEF IInv, Works, Fails, Remove, MayRename, Renamed, ram, locals, history,
          Valid, Stored, Files, Saving, Recovering
  <1>1. ASSUME NEW v \in Images \ {Blank}, BeginSave(v)
        PROVE  Promise!Begin(v)
    BY <1>1 DEF BeginSave, Promise!Begin, PhaseInv
  <1>2. CASE Succeed
    <2>1. Stored = request /\ request # NONE /\ Stored' = Stored
      BY <1>2 DEF Succeed, EndSave, PhaseInv, StageInv
    <2> QED
      BY <1>2, <2>1, Zenon DEF Succeed, EndSave, Promise!Succeed,
          Promise!End, Promise!Next
  <1>3. CASE Fail
    <2>1. Stored = wasStored /\ request # NONE /\ Stored' = Stored
      BY <1>3 DEF Fail, EndSave, PhaseInv, StageInv
    <2> QED
      BY <1>3, <2>1, Zenon DEF Fail, EndSave, Promise!Fail, Promise!End,
          Promise!Next
  <1>4. CASE Crash
    <2>1. Stored' = Stored
      BY <1>4 DEF Crash, TypeOK, StageInv
    <2> QED
      BY <1>4, <2>1, Zenon DEF Crash, Promise!Crash, Promise!End, Promise!Next
  <1>5. CASE InitRename
    <2>1. \/ Stored' = Stored
          \/ Stored = NONE /\ Stored' \in tried
      BY <1>5 DEF InitRename, TypeOK, DiskInv, RecoveryInv
    <2>2. UNCHANGED <<request, wasStored, tried, result>>
      BY <1>5 DEF InitRename
    <2> QED
      BY <2>1, <2>2, Zenon DEF Promise!Adopt, Promise!Next
  <1>6. CASE RenameTmp
    <2>1. Stored' = Stored \/ Stored' = request
      BY <1>6 DEF RenameTmp, TypeOK, SaveInv, StageInv
    <2>2. request # NONE /\ UNCHANGED <<request, wasStored, tried, result>>
      BY <1>6 DEF RenameTmp, PhaseInv
    <2> QED
      BY <2>1, <2>2, Zenon DEF Promise!Store, Promise!Next
  <1>7. CASE InitRead \/ InitRemove
    BY <1>7 DEF InitRead, InitRemove, Load, TypeOK, RecoveryInv
  <1>8. CASE RemoveTmp \/ OpenTmp \/ WriteTmp
    BY <1>8 DEF RemoveTmp, OpenTmp, WriteTmp, TypeOK
  <1>9. CASE ReadPrimary \/ RemovePrimary \/ RemoveBak \/ DropBak
    BY <1>9 DEF ReadPrimary, RemovePrimary, RemoveBak, DropBak, TypeOK, StageInv
  <1>10. CASE KeepPrimary \/ Restore
    BY <1>10 DEF KeepPrimary, Restore, TypeOK, StageInv
  <1> QED
    BY <1>1, <1>2, <1>3, <1>4, <1>5, <1>6, <1>7, <1>8, <1>9, <1>10
       DEF Next, Commit, Promise!Next

(* Saving with the operations of eeprom_store.c is atomic, for images of any*)
(* size and any number of failures, under the same proviso.                 *)
THEOREM SavingIsAtomic ==
    ASSUME "tmp" \notin CanFail PROVE Spec => SavesAreAtomic
  <1>1. IInv /\ [Next]_vars =>
          [Promise!Next]_<<Stored, request, wasStored, tried, result>>
    <2>1. UNCHANGED vars =>
            UNCHANGED <<Stored, request, wasStored, tried, result>>
      BY DEF vars, ram, locals, history, Stored, Valid
    <2> QED
      BY <2>1, StepMaps
  <1> QED
    BY <1>1, InitMaps, Invariance, PTL DEF Spec, SavesAreAtomic, Promise!Spec

-----------------------------------------------------------------------------
(* A save is under way; it has replaced what was stored.                   *)
SettingsUnderWay == settingsPc \notin {"init", "run"}
SettingsReplaced == settingsPc \in {"drop_bak", "succeed"}

(* SettingsStore.tla's variables, and what each may hold.                  *)
SettingsTypes ==
    /\ settingsDisk \in [Settings!Files -> Settings!Values \union {TORN, NONE}]
    /\ settings \in Settings!Values
    /\ settingsSaving \in Settings!Values \union {NONE}
    /\ recovered \in BOOLEAN /\ hadPrevious \in BOOLEAN
    /\ pending \in BOOLEAN /\ saveFailed \in BOOLEAN
    /\ settingsPc \in {"init", "run", "remove_tmp", "open_tmp", "write_tmp",
                      "previous", "remove_unread", "remove_bak",
                      "keep_previous", "rename_tmp", "restore", "drop_tmp",
                      "drop_bak", "succeed", "fail"}

(* What is saved is what the menu shows.                                   *)
SettingsPhaseInv ==
    /\ SettingsUnderWay <=> settingsSaving # NONE
    /\ SettingsUnderWay => settingsSaving = settings

(* The file Init found torn is left in place only while recovered says so, *)
(* or while there is nothing to recover.                                   *)
SettingsFilesInv ==
    settingsPc # "init" =>
        /\ settingsDisk["settings"] = TORN /\ ~recovered =>
             ~Settings!Valid("bak")
        /\ recovered /\ ~SettingsReplaced =>
             ~Settings!Valid("settings") /\ Settings!Valid("bak")

(* What a restart would find at each step of a save, and where.            *)
SettingsStageInv ==
    /\ SettingsUnderWay =>
         Settings!Stored = IF SettingsReplaced THEN settingsSaving
                                               ELSE settingsWas
    /\ SettingsReplaced => Settings!Valid("settings")
    /\ settingsPc \in {"previous", "remove_unread", "remove_bak",
                      "keep_previous", "rename_tmp"} =>
         settingsDisk["tmp"] = settingsSaving
    /\ settingsPc \in {"remove_tmp", "open_tmp", "write_tmp", "previous",
                      "remove_unread", "remove_bak", "keep_previous"} =>
         ~hadPrevious
    /\ settingsPc = "remove_unread" => recovered
    /\ settingsPc \in {"remove_bak", "keep_previous"} =>
         ~recovered /\ Settings!Exists("settings")
    /\ settingsPc = "restore" \/ (settingsPc = "rename_tmp" /\ hadPrevious) =>
         ~recovered /\ settingsDisk["settings"] = NONE

(* The inductive invariant of the settings.                                *)
SettingsIInv == /\ SettingsTypes /\ SettingsPhaseInv /\ SettingsFilesInv
                /\ SettingsStageInv /\ Settings!ShownIsStored

(* There are settings to fall back on, and what is missing or torn is not  *)
(* one of them.                                                            *)
LEMMA SettingsFacts ==
    /\ Settings!Default \in Settings!Values
    /\ Settings!Stored \in Settings!Values \union {NONE}
    /\ TORN \notin Settings!Values /\ NONE \notin Settings!Values
    /\ TORN # NONE
  <1>1. PICK b \in Backends, q \in Qualities : TRUE
    BY SavesAssumption
  <1>2. [backend |-> b, quality |-> q] \in Settings!Values
    BY DEF Settings!Values
  <1>3. Settings!Default \in Settings!Values
    BY <1>2 DEF Settings!Default
  <1>4. Settings!Stored \in Settings!Values \union {NONE}
    BY DEF Settings!Stored, Settings!Valid
  <1> QED
    BY <1>3, <1>4, SavesAssumption, StoreAssumption DEF Settings!Values

(* Whatever the memory stick holds when the program starts.                *)
LEMMA SettingsInitially == Settings!Init => SettingsIInv
  BY SettingsFacts DEF Settings!Init, SettingsIInv, SettingsTypes,
     SettingsPhaseInv, SettingsFilesInv, SettingsStageInv,
     Settings!ShownIsStored, SettingsUnderWay, SettingsReplaced,
     Settings!Valid, Settings!Files, Settings!Exists

(* psp_settings_init reads the backup only when the settings file cannot   *)
(* be read, and remembers that it did.                                     *)
LEMMA SettingsReadKeeps ==
    ASSUME SettingsIInv, Settings!ReadAtStart
    PROVE  SettingsIInv'
  <1> USE SettingsFacts DEF SettingsIInv, Settings!ReadAtStart, Settings!Goto
  <1>1. SettingsTypes'
    BY DEF SettingsTypes, Settings!Stored, Settings!Valid
  <1>2. Settings!Stored' = Settings!Stored
    BY DEF Settings!Stored, Settings!Valid
  <1>3. SettingsPhaseInv' /\ SettingsStageInv'
    BY DEF SettingsPhaseInv, SettingsStageInv, SettingsUnderWay,
       SettingsReplaced
  <1>4. SettingsFilesInv'
    BY DEF SettingsFilesInv, SettingsReplaced, Settings!Valid
  <1>5. Settings!ShownIsStored'
    BY <1>2 DEF Settings!ShownIsStored
  <1> QED
    BY <1>1, <1>3, <1>4, <1>5

(* A choice made and not applied yet is pending.                           *)
LEMMA SettingsSetQualityKeeps ==
    ASSUME SettingsIInv, NEW q \in Qualities, Settings!SetQuality(q)
    PROVE  SettingsIInv'
  <1> USE SettingsFacts DEF SettingsIInv, Settings!SetQuality
  <1>1. SettingsTypes'
    BY DEF SettingsTypes, Settings!Values
  <1>2. Settings!Stored' = Settings!Stored
    BY DEF Settings!Stored, Settings!Valid
  <1> QED
    BY <1>1, <1>2 DEF SettingsPhaseInv, SettingsStageInv, SettingsFilesInv,
       Settings!ShownIsStored, SettingsUnderWay, SettingsReplaced,
       Settings!Valid, Settings!Exists

(* A save starts from what the menu shows, and what was stored is not      *)
(* touched.                                                                *)
LEMMA SettingsBeginKeeps ==
    ASSUME SettingsIInv, settingsPc = "run", settings' \in Settings!Values,
           pending' \in BOOLEAN, Settings!BeginSave(settings'),
           UNCHANGED saveFailed
    PROVE  SettingsIInv'
  <1> USE SettingsFacts DEF SettingsIInv, Settings!BeginSave, Settings!Goto
  <1>1. SettingsTypes'
    BY DEF SettingsTypes
  <1>2. Settings!Stored' = Settings!Stored
    BY DEF Settings!Stored, Settings!Valid
  <1> QED
    BY <1>1, <1>2 DEF SettingsPhaseInv, SettingsStageInv, SettingsFilesInv,
       Settings!ShownIsStored, SettingsUnderWay, SettingsReplaced,
       Settings!Valid, Settings!Exists

(* Until the temporary file is whole nothing else is touched.              *)
LEMMA SettingsWriteKeeps ==
    ASSUME SettingsIInv,
           \/ Settings!RemoveTmp \/ Settings!OpenTmp \/ Settings!WriteTmp
           \/ Settings!DropTmp
    PROVE  SettingsIInv'
  <1> USE SettingsFacts DEF SettingsIInv, Settings!RemoveTmp, Settings!OpenTmp,
     Settings!WriteTmp, Settings!DropTmp, Settings!Remove, Settings!Removed,
     Settings!Goto, Settings!file, Settings!Works, Settings!Fails
  <1>1. SettingsTypes'
    <2>1. settingsPc = "write_tmp" =>
            /\ settingsSaving \in Settings!Values
            /\ Settings!Short(settingsSaving) \in Settings!Values
      BY DEF SettingsTypes, SettingsPhaseInv, SettingsUnderWay, Settings!Short,
         Settings!Values
    <2> QED
      BY <2>1 DEF SettingsTypes, SettingsPhaseInv, SettingsUnderWay
  <1>2. /\ settingsDisk'["settings"] = settingsDisk["settings"]
        /\ settingsDisk'["bak"] = settingsDisk["bak"]
    BY DEF SettingsTypes, Settings!Files
  <1>3. Settings!Stored' = Settings!Stored
    BY <1>2 DEF Settings!Stored, Settings!Valid
  <1>4. SettingsPhaseInv' /\ Settings!ShownIsStored'
    BY DEF SettingsPhaseInv, SettingsUnderWay, Settings!ShownIsStored
  <1>5. SettingsFilesInv'
    BY <1>2 DEF SettingsFilesInv, SettingsReplaced, Settings!Valid
  <1>6. SettingsStageInv'
    BY <1>2, <1>3 DEF SettingsTypes, Settings!Files, SettingsStageInv,
       SettingsUnderWay, SettingsReplaced, Settings!Valid, Settings!Exists
  <1> QED
    BY <1>1, <1>4, <1>5, <1>6

(* The temporary file is whole before the settings file is looked at.      *)
LEMMA SettingsPreviousKeeps ==
    ASSUME SettingsIInv, Settings!Previous
    PROVE  SettingsIInv'
  <1> USE SettingsFacts DEF SettingsIInv, Settings!Previous, Settings!Goto,
     Settings!file, Settings!Works, Settings!Fails
  <1>1. SettingsTypes'
    BY DEF SettingsTypes
  <1>2. Settings!Stored' = Settings!Stored
    BY DEF Settings!Stored, Settings!Valid
  <1>3. SettingsPhaseInv' /\ SettingsFilesInv' /\ Settings!ShownIsStored'
    BY DEF SettingsPhaseInv, SettingsFilesInv, Settings!ShownIsStored,
       SettingsUnderWay, SettingsReplaced, Settings!Valid
  <1>4. SettingsStageInv'
    BY <1>2 DEF SettingsStageInv, SettingsUnderWay, SettingsReplaced,
       Settings!Valid, Settings!Exists
  <1> QED
    BY <1>1, <1>3, <1>4

(* The settings file and its backup change places and never leave less     *)
(* than one of them behind.                                                *)
LEMMA SettingsMoveKeeps ==
    ASSUME SettingsIInv,
           \/ Settings!RemoveUnread \/ Settings!RemoveBak
           \/ Settings!KeepPrevious \/ Settings!Restore \/ Settings!DropBak
    PROVE  SettingsIInv'
  <1> USE SettingsFacts DEF SettingsIInv, Settings!RemoveUnread,
     Settings!RemoveBak, Settings!KeepPrevious, Settings!Restore,
     Settings!DropBak, Settings!Remove, Settings!Removed, Settings!Rename,
     Settings!MayRename, Settings!Goto, Settings!file, Settings!Works,
     Settings!Fails
  <1>0. hadPrevious' = hadPrevious \/ hadPrevious' \in BOOLEAN
    OBVIOUS
  <1>1. SettingsTypes'
    <2>1. settingsDisk' \in
            [Settings!Files -> Settings!Values \union {TORN, NONE}]
      BY DEF SettingsTypes, Settings!Files
    <2>2. settingsPc' \in {"rename_tmp", "drop_tmp", "keep_previous",
                           "succeed"}
      OBVIOUS
    <2> QED
      BY <1>0, <2>1, <2>2 DEF SettingsTypes
  <1>2. Settings!Stored' = Settings!Stored
    BY DEF SettingsTypes, Settings!Files, Settings!Stored, Settings!Valid,
       SettingsFilesInv, SettingsStageInv, SettingsReplaced, Settings!Exists
  <1>3. SettingsPhaseInv' /\ Settings!ShownIsStored'
    BY DEF SettingsPhaseInv, SettingsUnderWay, Settings!ShownIsStored
  <1>4. SettingsFilesInv'
    BY DEF SettingsTypes, Settings!Files, SettingsFilesInv, SettingsStageInv,
       SettingsReplaced, Settings!Valid, Settings!Exists
  <1>5. SettingsStageInv'
    BY <1>2 DEF SettingsTypes, Settings!Files, SettingsStageInv,
       SettingsFilesInv, SettingsUnderWay, SettingsReplaced, Settings!Valid,
       Settings!Exists
  <1> QED
    BY <1>1, <1>3, <1>4, <1>5

(* The rename that replaces the settings, done or refused.                 *)
LEMMA SettingsRenameTmpKeeps ==
    ASSUME SettingsIInv, Settings!RenameTmp
    PROVE  SettingsIInv'
  <1> USE SettingsFacts DEF SettingsIInv, Settings!RenameTmp, Settings!Rename,
     Settings!MayRename, Settings!Goto, Settings!file, Settings!Works,
     Settings!Fails
  <1>1. SettingsTypes'
    BY DEF SettingsTypes, Settings!Files
  <1>3. SettingsPhaseInv' /\ Settings!ShownIsStored'
    BY DEF SettingsPhaseInv, SettingsUnderWay, Settings!ShownIsStored
  <1>4. SettingsFilesInv'
    BY DEF SettingsTypes, Settings!Files, SettingsFilesInv, SettingsPhaseInv,
       SettingsUnderWay, SettingsStageInv, SettingsReplaced, Settings!Valid,
       Settings!Exists
  <1>5. SettingsStageInv'
    BY DEF SettingsTypes, Settings!Files, SettingsStageInv, SettingsPhaseInv,
       Settings!Stored, SettingsUnderWay, SettingsReplaced, Settings!Valid,
       Settings!Exists
  <1> QED
    BY <1>1, <1>3, <1>4, <1>5

(* A save says it succeeded only after the rename.                         *)
LEMMA SettingsEndKeeps ==
    ASSUME SettingsIInv, Settings!Succeed \/ Settings!Fail
    PROVE  SettingsIInv'
  <1> USE SettingsFacts DEF SettingsIInv, Settings!Succeed, Settings!Fail,
     Settings!End, Settings!Goto
  <1>1. SettingsTypes'
    BY DEF SettingsTypes
  <1>2. Settings!Stored' = Settings!Stored
    BY DEF Settings!Stored, Settings!Valid
  <1>3. SettingsPhaseInv' /\ SettingsStageInv'
    BY DEF SettingsPhaseInv, SettingsStageInv, SettingsUnderWay,
       SettingsReplaced
  <1>4. SettingsFilesInv'
    BY DEF SettingsFilesInv, SettingsStageInv, SettingsReplaced,
       Settings!Valid, SettingsTypes
  <1>5. Settings!ShownIsStored'
    BY <1>2 DEF Settings!ShownIsStored, SettingsPhaseInv, SettingsStageInv,
       SettingsUnderWay, SettingsReplaced, SettingsTypes
  <1> QED
    BY <1>1, <1>3, <1>4, <1>5

(* A loss of power forgets the save and starts over from the files.        *)
LEMMA SettingsCrashKeeps ==
    ASSUME SettingsIInv, Settings!Crash
    PROVE  SettingsIInv'
  <1> USE SettingsFacts DEF SettingsIInv, Settings!Crash, Settings!Goto
  <1>1. SettingsTypes'
    BY DEF SettingsTypes
  <1> QED
    BY <1>1 DEF SettingsPhaseInv, SettingsStageInv, SettingsFilesInv,
       Settings!ShownIsStored, SettingsUnderWay, SettingsReplaced,
       Settings!Valid, Settings!Exists

(* Each step, whoever takes it, leaves the files and the menu agreeing.    *)
LEMMA SettingsInductive ==
    SettingsIInv /\ [Settings!Next]_(Settings!vars) => SettingsIInv'
  <1> SUFFICES ASSUME SettingsIInv, [Settings!Next]_(Settings!vars)
               PROVE  SettingsIInv'
    OBVIOUS
  <1>1. CASE Settings!ReadAtStart \/ Settings!Crash
    BY <1>1, SettingsReadKeeps, SettingsCrashKeeps
  <1>2. CASE Settings!Apply
    <2>1. /\ settings' \in Settings!Values /\ settingsPc = "run"
          /\ Settings!BeginSave(settings') /\ pending' \in BOOLEAN
          /\ UNCHANGED saveFailed
      BY <1>2 DEF Settings!Apply, SettingsIInv, SettingsTypes,
         Settings!BeginSave
    <2> QED
      BY <2>1, SettingsBeginKeeps
  <1>3. CASE Settings!Save
    BY <1>3, SettingsWriteKeeps, SettingsPreviousKeeps, SettingsMoveKeeps,
       SettingsRenameTmpKeeps, SettingsEndKeeps DEF Settings!Save
  <1>4. CASE \E q \in Qualities : Settings!SetQuality(q)
    BY <1>4, SettingsSetQualityKeeps
  <1>5. ASSUME NEW b \in Backends, Settings!SetBackend(b) PROVE SettingsIInv'
    <2>1. settings' \in Settings!Values
      BY <1>5 DEF Settings!SetBackend, SettingsIInv, SettingsTypes,
         Settings!Values
    <2>2. /\ settingsPc = "run" /\ Settings!BeginSave(settings')
          /\ pending' \in BOOLEAN /\ UNCHANGED saveFailed
      BY <1>5 DEF Settings!SetBackend, SettingsIInv, SettingsTypes
    <2> QED
      BY <2>1, <2>2, SettingsBeginKeeps
  <1>6. CASE UNCHANGED Settings!vars
    BY <1>6 DEF Settings!vars, SettingsIInv, SettingsTypes, SettingsPhaseInv,
       SettingsStageInv, SettingsFilesInv, Settings!ShownIsStored,
       SettingsUnderWay, SettingsReplaced, Settings!Valid, Settings!Exists,
       Settings!Stored
  <1> QED
    BY <1>1, <1>2, <1>3, <1>4, <1>5, <1>6 DEF Settings!Next

(* psp_settings.c keeps, at each of its steps, at least one file a restart *)
(* can read, and knows which.                                              *)
THEOREM SettingsInvariance == Settings!Spec => []SettingsIInv
  BY SettingsInitially, SettingsInductive, PTL DEF Settings!Spec

(* When nothing is pending and no save failed, the settings menu shows     *)
(* what the memory stick holds.                                            *)
THEOREM MenuShowsWhatIsStored == Settings!Spec => []ShownIsStored
  <1>1. SettingsIInv => ShownIsStored
    BY DEF SettingsIInv, ShownIsStored
  <1> QED
    BY <1>1, SettingsInvariance, PTL

(* What AtomicSave says of the settings.                                   *)
settingsPromised == <<Settings!Stored, settingsSaving, settingsWas,
                      settingsTried, settingsResult>>

(* The store AtomicSave starts from is whichever file a restart would      *)
(* read.                                                                   *)
LEMMA SettingsInitMaps == Settings!Init => Settings!Promise!Init
  BY SettingsFacts DEF Settings!Init, Settings!Promise!Init, Settings!Stored,
     Settings!Valid, Settings!Files

(* Only the rename of the temporary file stores anything; each other step  *)
(* leaves what a restart would find.                                       *)
LEMMA SettingsStepMaps ==
    ASSUME SettingsIInv, Settings!Next
    PROVE  \/ Settings!Promise!Next
           \/ UNCHANGED settingsPromised
  <1> USE SettingsFacts DEF SettingsIInv, settingsPromised
  <1>1. ASSUME NEW v \in Settings!Values, Settings!BeginSave(v),
               settingsPc = "run"
        PROVE  Settings!Promise!Begin(v)
    BY <1>1 DEF Settings!BeginSave, Settings!Goto, Settings!Promise!Begin,
       SettingsPhaseInv, SettingsUnderWay, Settings!Stored, Settings!Valid
  <1>2. CASE Settings!Apply
    BY <1>1, <1>2 DEF Settings!Apply, SettingsTypes, Settings!Promise!Next
  <1>3. ASSUME NEW b \in Backends, Settings!SetBackend(b)
        PROVE  Settings!Promise!Next
    <2>1. settings' \in Settings!Values
      BY <1>3 DEF Settings!SetBackend, SettingsTypes, Settings!Values
    <2> QED
      BY <2>1, <1>1, <1>3 DEF Settings!SetBackend, Settings!Promise!Next
  <1>4. CASE Settings!Succeed \/ Settings!Fail
    <2>1. Settings!Stored' = Settings!Stored /\ settingsSaving # NONE
      BY <1>4 DEF Settings!Succeed, Settings!Fail, Settings!End,
         Settings!Stored, Settings!Valid, SettingsPhaseInv, SettingsUnderWay
    <2> QED
      BY <1>4, <2>1 DEF Settings!Succeed, Settings!Fail, Settings!End,
         SettingsStageInv, SettingsUnderWay, SettingsReplaced,
         Settings!Promise!Succeed, Settings!Promise!Fail, Settings!Promise!End,
         Settings!Promise!Next
  <1>5. CASE Settings!Crash
    <2>1. Settings!Stored' = Settings!Stored
      BY <1>5 DEF Settings!Crash, Settings!MayRename, Settings!Exists,
         SettingsTypes, Settings!Files, Settings!Stored, Settings!Valid
    <2> QED
      BY <1>5, <2>1 DEF Settings!Crash, Settings!Promise!Crash,
         Settings!Promise!End, Settings!Promise!Next
  <1>6. CASE Settings!RenameTmp
    <2>1. \/ Settings!Stored' = Settings!Stored
          \/ Settings!Stored' = settingsSaving
      BY <1>6 DEF Settings!RenameTmp, Settings!Rename, Settings!MayRename,
         Settings!Exists, SettingsTypes, Settings!Files, Settings!Stored,
         Settings!Valid, SettingsPhaseInv, SettingsUnderWay, SettingsStageInv
    <2>2. /\ settingsSaving # NONE
          /\ UNCHANGED <<settingsSaving, settingsWas, settingsTried,
                        settingsResult>>
      BY <1>6 DEF Settings!RenameTmp, SettingsPhaseInv, SettingsUnderWay,
         Settings!file
    <2> QED
      BY <2>1, <2>2 DEF Settings!Promise!Store, Settings!Promise!Next
  <1>7. CASE \/ Settings!ReadAtStart
             \/ \E q \in Qualities : Settings!SetQuality(q)
    BY <1>7 DEF Settings!ReadAtStart, Settings!SetQuality, Settings!Stored,
       Settings!Valid
  <1>8. CASE \/ Settings!RemoveTmp \/ Settings!OpenTmp \/ Settings!WriteTmp
             \/ Settings!DropTmp \/ Settings!Previous
    <2>1. UNCHANGED Settings!file
      BY <1>8 DEF Settings!RemoveTmp, Settings!OpenTmp, Settings!WriteTmp,
         Settings!DropTmp, Settings!Previous
    <2>2. /\ settingsDisk'["settings"] = settingsDisk["settings"]
          /\ settingsDisk'["bak"] = settingsDisk["bak"]
      BY <1>8 DEF Settings!RemoveTmp, Settings!OpenTmp, Settings!WriteTmp,
         Settings!DropTmp, Settings!Previous, Settings!Remove,
         Settings!Removed, SettingsTypes, Settings!Files
    <2> QED
      BY <2>1, <2>2 DEF Settings!file, Settings!Stored, Settings!Valid
  <1>9. CASE \/ Settings!RemoveUnread \/ Settings!RemoveBak
             \/ Settings!KeepPrevious \/ Settings!Restore \/ Settings!DropBak
    <2>1. UNCHANGED Settings!file
      BY <1>9 DEF Settings!RemoveUnread, Settings!RemoveBak,
         Settings!KeepPrevious, Settings!Restore, Settings!DropBak
    <2>2. Settings!Stored' = Settings!Stored
      BY <1>9 DEF Settings!RemoveUnread, Settings!RemoveBak,
         Settings!KeepPrevious, Settings!Restore, Settings!DropBak,
         Settings!Remove, Settings!Removed, Settings!Rename,
         Settings!MayRename, SettingsTypes, Settings!Files, Settings!Stored,
         Settings!Valid, SettingsFilesInv, SettingsStageInv, SettingsReplaced,
         Settings!Exists
    <2> QED
      BY <2>1, <2>2 DEF Settings!file
  <1> QED
    BY <1>2, <1>3, <1>4, <1>5, <1>6, <1>7, <1>8, <1>9 DEF Settings!Next,
       Settings!Save

(* A save of the settings, cut short anywhere by a loss of power or        *)
(* refused at any step by the memory stick, leaves the old settings or the *)
(* new, never none and never a mixture.                                    *)
THEOREM SettingsAtomic == Settings!Spec => SettingsAreAtomic
  <1>1. SettingsIInv /\ [Settings!Next]_(Settings!vars) =>
          [Settings!Promise!Next]_settingsPromised
    <2>1. UNCHANGED Settings!vars => UNCHANGED settingsPromised
      BY DEF settingsPromised, Settings!vars, Settings!Stored, Settings!Valid
    <2> QED
      BY <2>1, SettingsStepMaps
  <1> QED
    BY <1>1, SettingsInitMaps, SettingsInvariance, PTL DEF Settings!Spec,
       SettingsAreAtomic, Settings!SettingsAreAtomic,
       Settings!Promise!Spec, settingsPromised

-----------------------------------------------------------------------------
(* SerialThread.tla's variables that the proofs need the types of.         *)
SerialTypes ==
    /\ requests \in Seq({"read", "save", "load"})
    /\ answers \in Seq({"done", "failed"})
    /\ serial \in {"wait", "reading", "storing", "stored"}
    /\ game \in {"loop", "tick", "update", "saving", "loading"}
    /\ press \in Nat /\ menuPress \in Nat /\ pad \in Nat /\ next \in Nat
    /\ down \in BOOLEAN /\ open \in BOOLEAN /\ gate \in BOOLEAN
    /\ ready \in BOOLEAN

(* No button, or a press made since the menu was last open.                *)
Fresh(p) == p = 0 \/ p > menuPress

(* Wherever a press waits on its way to the game (pad, the serial thread's *)
(* copy next, the button itself) it is none the menu saw, unless the gate  *)
(* still keeps it from the game.                                           *)
PressInv ==
    /\ menuPress <= press
    /\ ~gate \/ ready => (down => press > menuPress)
    /\ Fresh(pad) /\ (gate => pad = 0)
    /\ ~gate => Fresh(next)

(* The serial thread is saving; a request is one the game waits for; an    *)
(* answer says what the store holds.                                       *)
Busy == serial \in {"storing", "stored"}
Asked(i) == requests[i] # "read"
Truthful(r) ==
    /\ r = "done" => stored = saveFile
    /\ r = "failed" => stored = atCall

(* The game, which waits for its answer, has one request or one answer at  *)
(* a time, and what is stored is what it was when it asked.                *)
RequestInv ==
    /\ \A i, j \in 1..Len(requests) : Asked(i) /\ Asked(j) => i = j
    /\ \A i \in 1..Len(requests) : Asked(i) =>
         /\ ~Busy /\ answers = << >>
         /\ requests[i] = IF game = "saving" THEN "save" ELSE "load"
         /\ game \in {"saving", "loading"}
         /\ stored = atCall
    /\ Busy => game = "saving" /\ answers = << >>
    /\ answers # << >> => game \in {"saving", "loading"} /\ Len(answers) = 1

(* What is being saved, and what is answered, is what the game asked for.  *)
AnswerInv ==
    /\ game = "saving" => buffer = saveFile
    /\ game = "loading" => stored = atCall
    /\ saving = IF serial = "storing" THEN buffer ELSE NONE
    /\ serial = "storing" => old = atCall
    /\ serial = "stored" =>
         serialResult \in {"done", "failed"} /\ Truthful(serialResult)
    /\ answers # << >> /\ game = "saving" => Truthful(Head(answers))
    /\ answers # << >> /\ game = "loading" /\ Head(answers) = "done" =>
         buffer = stored

(* The inductive invariant of the serial thread and the game.              *)
SerialIInv == SerialTypes /\ PressInv /\ RequestInv /\ AnswerInv

(* Nothing is asked, pressed or answered.                                  *)
LEMMA SerialInitially == Serial!Init => SerialIInv
  <1> SUFFICES ASSUME Serial!Init PROVE SerialIInv
    OBVIOUS
  <1> USE SavesAssumption DEF Serial!Init
  <1>0. /\ requests \in Seq({"read", "save", "load"})
        /\ answers \in Seq({"done", "failed"})
    OBVIOUS
  <1>1. SerialTypes
    BY <1>0 DEF SerialTypes
  <1>2. PressInv
    BY DEF PressInv, Fresh
  <1>3. RequestInv
    <2>1. \A i \in 1..Len(requests) : ~Asked(i)
      BY DEF Asked
    <2> QED
      BY <2>1 DEF RequestInv, Busy
  <1>4. AnswerInv
    BY DEF AnswerInv, Serial!Store!Init
  <1> QED
    BY <1>1, <1>2, <1>3, <1>4 DEF SerialIInv

(* The player, the menu and the ends of a tick: no request moves, and a    *)
(* press passes the gate only once the button was released outside the     *)
(* menu.                                                                   *)
LEMMA SerialUserKeeps ==
    ASSUME SerialIInv,
           \/ Serial!Press \/ Serial!Release \/ Serial!Update
           \/ Serial!BeginTick \/ Serial!LockControllers \/ Serial!OpenMenu
           \/ Serial!EndTick
    PROVE  SerialIInv'
  <1> USE DEF SerialIInv, Serial!Press, Serial!Release, Serial!Update,
     Serial!BeginTick, Serial!LockControllers, Serial!OpenMenu, Serial!EndTick,
     Serial!queues, Serial!saveVars, Serial!store, Serial!inputVars
  <1>1. SerialTypes' /\ PressInv'
    <2>1. CASE Serial!Press \/ Serial!Release
      <3>1. SerialTypes'
        <4>1. CASE Serial!Press
          BY <4>1 DEF SerialTypes
        <4>2. CASE Serial!Release
          BY <4>2 DEF SerialTypes
        <4> QED
          BY <2>1, <4>1, <4>2
      <3>2. PressInv'
        BY <2>1 DEF SerialTypes, PressInv, Fresh
      <3> QED
        BY <3>1, <3>2
    <2>2. CASE Serial!Update
      <3>1. open' \in BOOLEAN /\ gate' \in BOOLEAN /\ ready' \in BOOLEAN
        BY <2>2 DEF SerialTypes
      <3>2. pad' = IF gate' THEN 0 ELSE Serial!Buttons
        BY <2>2
      <3>3. ready' => gate' /\ ~open' /\ ~down
        BY <2>2
      <3>4. ~gate' => ~gate /\ ~open /\ ~open'
        BY <2>2
      <3>5. menuPress' = IF open \/ open' THEN press ELSE menuPress
        BY <2>2
      <3>6. UNCHANGED <<requests, answers, serial, game, press, down, next>>
        BY <2>2
      <3>7. SerialTypes'
        BY <3>1, <3>2, <3>5, <3>6 DEF SerialTypes, Serial!Buttons
      <3> QED
        BY <3>1, <3>2, <3>3, <3>4, <3>5, <3>6, <3>7 DEF SerialTypes, PressInv,
           Fresh, Serial!Buttons
    <2>3. CASE \/ Serial!BeginTick \/ Serial!LockControllers \/ Serial!OpenMenu
               \/ Serial!EndTick
      <3>1. UNCHANGED <<requests, answers, serial, press, menuPress, pad, next,
                        down, gate, ready>>
        BY <2>3
      <3>2. game' \in {"loop", "tick", "update"} /\ open' \in {open, TRUE}
        BY <2>3
      <3>3. SerialTypes'
        BY <3>1, <3>2 DEF SerialTypes
      <3>4. PressInv'
        BY <3>1 DEF SerialTypes, PressInv, Fresh
      <3> QED
        BY <3>3, <3>4
    <2> QED
      BY <2>1, <2>2, <2>3
  <1>3. RequestInv' /\ AnswerInv'
    BY DEF RequestInv, AnswerInv, Busy, Asked, Truthful
  <1> QED
    BY <1>1, <1>3

(* What osSendMesg leaves in the queue when it does not wait: the request  *)
(* last, or, in a full queue, nothing new.                                 *)
LEMMA SerialSent ==
    ASSUME SerialIInv, NEW r \in {"read", "save", "load"}, Serial!Request(r)
    PROVE  /\ requests' \in Seq({"read", "save", "load"})
           /\ \/ requests' = requests
              \/ /\ Len(requests') = Len(requests) + 1
                 /\ \A i \in 1..Len(requests) : requests'[i] = requests[i]
                 /\ requests'[Len(requests) + 1] = r
  BY DEF SerialIInv, SerialTypes, Serial!Request, Serial!SendNoBlock

(* What osRecvMesg leaves: all but the first.                              *)
LEMMA SerialTaken ==
    ASSUME SerialIInv, NEW r \in {"read", "save", "load"}, Serial!Take(r)
    PROVE  /\ requests' \in Seq({"read", "save", "load"})
           /\ Len(requests) \in Nat \ {0} /\ requests[1] = r /\ serial = "wait"
           /\ Len(requests') = Len(requests) - 1
           /\ \A i \in 1..Len(requests') : requests'[i] = requests[i + 1]
  BY DEF SerialIInv, SerialTypes, Serial!Take

(* When the serial thread takes the game's request, the game is still      *)
(* waiting, nothing was answered, and no other request of the game's is    *)
(* left.                                                                   *)
LEMMA AskedFirst ==
    ASSUME SerialIInv, NEW r \in {"save", "load"}, Serial!Take(r)
    PROVE  /\ \A i \in 1..Len(requests') : requests'[i] = "read"
           /\ game = (IF r = "save" THEN "saving" ELSE "loading")
           /\ answers = << >> /\ stored = atCall
  <1>1. Asked(1) /\ 1 \in 1..Len(requests) /\ requests[1] = r
    BY SerialTaken DEF Asked
  <1>2. /\ game = (IF r = "save" THEN "saving" ELSE "loading")
        /\ answers = << >> /\ stored = atCall
    BY <1>1 DEF SerialIInv, RequestInv
  <1>3. ASSUME NEW i \in 1..Len(requests') PROVE requests'[i] = "read"
    <2>1. /\ i + 1 \in 1..Len(requests) /\ requests'[i] = requests[i + 1]
          /\ i + 1 # 1
      BY SerialTaken
    <2> QED
      BY <1>1, <2>1 DEF SerialIInv, RequestInv, Asked
  <1> QED
    BY <1>2, <1>3

(* A tick that asks for the controllers hands the game what they were,     *)
(* filtered.                                                               *)
LEMMA SerialTickKeeps == ASSUME SerialIInv, Serial!Tick PROVE SerialIInv'
  <1> USE DEF SerialIInv, Serial!Tick
  <1>0. Serial!Request("read")
    OBVIOUS
  <1>1. SerialTypes'
    BY <1>0, SerialSent DEF SerialTypes, Serial!Filtered
  <1>2. PressInv'
    BY DEF SerialTypes, PressInv, Fresh, Serial!Filtered
  <1>3. RequestInv'
    <2>1. \A i \in 1..Len(requests') :
            Asked(i)' => i \in 1..Len(requests) /\ Asked(i)
      BY <1>0, SerialSent DEF SerialTypes, Asked
    <2>2. \A i \in 1..Len(requests) : ~Asked(i)
      BY DEF RequestInv
    <2> QED
      BY <2>1, <2>2 DEF RequestInv, Busy
  <1>4. AnswerInv'
    BY DEF AnswerInv, RequestInv, Truthful, Serial!saveVars, Serial!store
  <1> QED
    BY <1>1, <1>2, <1>3, <1>4

(* Save_Read and Save_Write, whose request may be lost in a full queue.    *)
LEMMA SerialCallKeeps ==
    ASSUME SerialIInv,
           Serial!SaveRead \/ \E v \in SaveFiles : Serial!SaveWrite(v)
    PROVE  SerialIInv'
  <1> USE SavesAssumption DEF SerialIInv, Serial!SaveRead, Serial!SaveWrite,
     Serial!Call
  <1>0. /\ game = "update"
        /\ \/ Serial!Request("save") /\ game' = "saving" /\ buffer' = saveFile'
           \/ /\ Serial!Request("load") /\ game' = "loading"
              /\ UNCHANGED <<saveFile, buffer>>
        /\ atCall' = stored
        /\ UNCHANGED <<answers, serial, Serial!inputVars, next, Serial!store>>
    OBVIOUS
  <1>2. SerialTypes' /\ PressInv'
    BY <1>0, SerialSent DEF SerialTypes, PressInv, Fresh, Serial!inputVars
  <1>3. \A i \in 1..Len(requests) : ~Asked(i)
    BY <1>0 DEF RequestInv
  <1>4. ~Busy /\ answers = << >>
    BY <1>0 DEF RequestInv
  <1>5. RequestInv'
    BY <1>0, <1>3, <1>4, SerialSent DEF SerialTypes, RequestInv, Busy, Asked,
       Serial!store
  <1>6. AnswerInv'
    BY <1>0, <1>4 DEF AnswerInv, Busy, Truthful, Serial!store
  <1> QED
    BY <1>2, <1>5, <1>6

(* The game takes its one answer.                                          *)
LEMMA SerialReturnKeeps == ASSUME SerialIInv, Serial!Return PROVE SerialIInv'
  <1> USE DEF SerialIInv, Serial!Return
  <1>1. SerialTypes' /\ PressInv'
    BY DEF SerialTypes, PressInv, Fresh, Serial!inputVars
  <1>2. answers' = << >>
    BY DEF SerialTypes, RequestInv
  <1>3. RequestInv'
    BY <1>2 DEF RequestInv, Asked, Busy
  <1>4. AnswerInv'
    BY <1>2 DEF AnswerInv, RequestInv, Busy, Serial!store, Truthful
  <1> QED
    BY <1>1, <1>3, <1>4

(* The serial thread starts to read the controllers, or finds them locked. *)
LEMMA SerialReadKeeps ==
    ASSUME SerialIInv, Serial!ReadLocked \/ Serial!StartRead
    PROVE  SerialIInv'
  <1> USE DEF SerialIInv, Serial!ReadLocked, Serial!StartRead
  <1>0. /\ Serial!Take("read")
        /\ UNCHANGED <<answers, game, Serial!inputVars, Serial!saveVars,
                       Serial!store>>
        /\ serial' \in {serial, "reading"} /\ next' \in {next, 0}
    OBVIOUS
  <1>1. SerialTypes' /\ PressInv'
    BY <1>0, SerialTaken DEF SerialTypes, PressInv, Fresh, Serial!inputVars
  <1>2. AnswerInv'
    BY <1>0, SerialTaken DEF AnswerInv, Truthful, Serial!saveVars, Serial!store
  <1>3. RequestInv'
    <2>1. \A i \in 1..Len(requests') :
            i + 1 \in 1..Len(requests) /\ (Asked(i)' <=> Asked(i + 1))
      BY <1>0, SerialTaken DEF Asked
    <2>2. \A i \in 1..Len(requests') : requests'[i] = requests[i + 1]
      BY <1>0, SerialTaken
    <2>3. ~Busy'
      BY <1>0, SerialTaken DEF Busy
    <2> QED
      BY <1>0, <2>1, <2>2, <2>3 DEF RequestInv, Serial!saveVars, Serial!store
  <1> QED
    BY <1>1, <1>2, <1>3

(* The controllers are read.                                               *)
LEMMA SerialReadDataKeeps ==
    ASSUME SerialIInv, Serial!ReadData
    PROVE  SerialIInv'
  <1> USE DEF SerialIInv, Serial!ReadData
  <1>1. SerialTypes' /\ PressInv'
    BY DEF SerialTypes, PressInv, Fresh, Serial!inputVars
  <1>2. RequestInv' /\ AnswerInv'
    BY DEF SerialTypes, RequestInv, AnswerInv, Busy, Asked, Truthful,
       Serial!saveVars, Serial!store
  <1> QED
    BY <1>1, <1>2

(* The serial thread takes a request to save.                              *)
LEMMA SerialStartSaveKeeps ==
    ASSUME SerialIInv, Serial!StartSave
    PROVE  SerialIInv'
  <1> USE DEF SerialIInv, Serial!StartSave
  <1>0. Serial!Take("save")
    OBVIOUS
  <1>1. SerialTypes' /\ PressInv'
    BY <1>0, SerialTaken DEF SerialTypes, PressInv, Fresh, Serial!inputVars
  <1>2. /\ \A i \in 1..Len(requests') : requests'[i] = "read"
        /\ game = "saving" /\ answers = << >> /\ stored = atCall
    BY <1>0, AskedFirst
  <1>3. RequestInv'
    BY <1>2 DEF RequestInv, Asked, Busy
  <1>4. AnswerInv'
    BY <1>2 DEF AnswerInv, Serial!Store!Begin, Serial!saveVars, Truthful
  <1> QED
    BY <1>1, <1>3, <1>4

(* The store, seen as AtomicSave, stores the image or does not.            *)
LEMMA SerialStoreKeeps ==
    ASSUME SerialIInv, Serial!Storing \/ Serial!EndSave
    PROVE  SerialIInv'
  <1> USE DEF SerialIInv, Serial!Storing, Serial!EndSave
  <1>1. SerialTypes' /\ PressInv'
    BY DEF SerialTypes, PressInv, Fresh, Serial!inputVars, Serial!queues
  <1>2. RequestInv'
    BY DEF RequestInv, Asked, Busy, Serial!queues, Serial!saveVars
  <1>3. AnswerInv'
    BY DEF AnswerInv, RequestInv, Busy, Truthful, Serial!saveVars,
       Serial!queues, Serial!Store!Store, Serial!Store!Succeed,
       Serial!Store!Fail, Serial!Store!End
  <1> QED
    BY <1>1, <1>2, <1>3

(* The serial thread answers what the store told it.                       *)
LEMMA SerialAnswerKeeps == ASSUME SerialIInv, Serial!Answer PROVE SerialIInv'
  <1> USE DEF SerialIInv, Serial!Answer
  <1>0. /\ answers = << >> /\ game = "saving"
        /\ serialResult \in {"done", "failed"} /\ Truthful(serialResult)
    BY DEF RequestInv, Busy, AnswerInv
  <1>1. answers' \in {<< >>, <<serialResult>>}
    BY <1>0 DEF Serial!SendNoBlock, SerialTypes
  <1>2. answers' \in Seq({"done", "failed"})
    <2>1. Append(answers, serialResult) \in Seq({"done", "failed"})
      BY <1>0 DEF SerialTypes
    <2> QED
      BY <2>1 DEF Serial!SendNoBlock, SerialTypes
  <1>5. SerialTypes' /\ PressInv'
    BY <1>2 DEF SerialTypes, PressInv, Fresh, Serial!inputVars
  <1>3. RequestInv'
    BY <1>0, <1>1 DEF RequestInv, Asked, Busy
  <1>4. AnswerInv'
    BY <1>0, <1>1 DEF AnswerInv, Truthful, Serial!saveVars, Serial!store
  <1> QED
    BY <1>3, <1>4, <1>5

(* The serial thread takes a request to load, and answers it.              *)
LEMMA SerialReadSaveKeeps ==
    ASSUME SerialIInv, Serial!ReadSave
    PROVE  SerialIInv'
  <1> USE DEF SerialIInv, Serial!ReadSave
  <1>0. Serial!Take("load")
    OBVIOUS
  <1>1. /\ \A i \in 1..Len(requests') : requests'[i] = "read"
        /\ game = "loading" /\ answers = << >> /\ stored = atCall
    BY <1>0, AskedFirst
  <1>2. /\ answers' \in {<< >>, <<"done">>, <<"failed">>}
        /\ answers' = <<"done">> => buffer' = stored
    BY <1>1 DEF Serial!SendNoBlock, SerialTypes
  <1>6. answers' \in Seq({"done", "failed"})
    <2>1. /\ Append(answers, "done") \in Seq({"done", "failed"})
          /\ Append(answers, "failed") \in Seq({"done", "failed"})
      BY DEF SerialTypes
    <2> QED
      BY <2>1 DEF Serial!SendNoBlock, SerialTypes
  <1>3. SerialTypes' /\ PressInv'
    BY <1>0, <1>6, SerialTaken DEF SerialTypes, PressInv, Fresh,
       Serial!inputVars
  <1>4. RequestInv'
    BY <1>0, <1>1, <1>2, SerialTaken DEF RequestInv, Asked, Busy
  <1>5. AnswerInv'
    BY <1>0, <1>1, <1>2, SerialTaken DEF AnswerInv, Truthful, Serial!store
  <1> QED
    BY <1>3, <1>4, <1>5

(* Each step of the player, the game and the serial thread keeps the       *)
(* presses, the requests and the answers apart.                            *)
LEMMA SerialInductive ==
    SerialIInv /\ [Serial!Next]_(Serial!vars) => SerialIInv'
  <1> SUFFICES ASSUME SerialIInv, [Serial!Next]_(Serial!vars) PROVE SerialIInv'
    OBVIOUS
  <1>1. CASE UNCHANGED Serial!vars
    BY <1>1 DEF Serial!vars, Serial!queues, Serial!inputVars, Serial!saveVars,
       Serial!store, SerialIInv, SerialTypes, PressInv, Fresh, RequestInv,
       AnswerInv, Busy, Asked, Truthful
  <1>2. CASE Serial!Next
    BY <1>2, SerialUserKeeps, SerialTickKeeps, SerialCallKeeps,
       SerialReturnKeeps, SerialReadKeeps, SerialReadDataKeeps,
       SerialStartSaveKeeps, SerialStoreKeeps, SerialAnswerKeeps,
       SerialReadSaveKeeps DEF Serial!Next
  <1> QED
    BY <1>1, <1>2

(* What waits between the game, the menu and the serial thread is, at each *)
(* moment, what it was meant to be.                                        *)
THEOREM SerialInvariance == Serial!Spec => []SerialIInv
  BY SerialInitially, SerialInductive, PTL DEF Serial!Spec

(* The game never sees a press made while the settings menu was open.      *)
THEOREM MenuIsPrivate == Serial!Spec => MenuKeepsItsPresses
  <1>1. SerialIInv /\ [Serial!Next]_(Serial!vars) =>
          [hold' # hold /\ hold' # 0 => hold' > menuPress]_(Serial!vars)
    <2> SUFFICES ASSUME SerialIInv, Serial!Next, hold' # hold, hold' # 0
                 PROVE  hold' > menuPress
      OBVIOUS
    <2>1. Serial!Tick
      BY DEF Serial!Next, Serial!Press, Serial!Release, Serial!Update,
         Serial!BeginTick, Serial!LockControllers, Serial!OpenMenu,
         Serial!SaveRead, Serial!SaveWrite, Serial!Call, Serial!Return,
         Serial!EndTick, Serial!ReadLocked, Serial!StartRead, Serial!ReadData,
         Serial!StartSave, Serial!Storing, Serial!EndSave, Serial!Answer,
         Serial!ReadSave, Serial!queues, Serial!inputVars
    <2> QED
      BY <2>1 DEF Serial!Tick, Serial!Filtered, SerialIInv, PressInv, Fresh
  <1> QED
    BY <1>1, SerialInvariance, PTL DEF Serial!Spec, MenuKeepsItsPresses,
       Serial!MenuKeepsItsPresses

(* A save that returns success is on the memory stick, one that returns    *)
(* failure left there what there was, and a load that succeeds returns     *)
(* what is stored.                                                         *)
THEOREM ReturnsAreTrue == Serial!Spec => ReturnIsTrue
  <1>1. ASSUME SerialIInv, [Serial!Next]_(Serial!vars)
        PROVE  [returned = NONE /\ game' = "update" =>
         /\ returned' = "done" => stored = saveFile'
         /\ returned' = "failed" => stored = atCall]_(Serial!vars)
    <2> SUFFICES ASSUME Serial!Next, returned = NONE, game' = "update",
                        returned' \in {"done", "failed"}
                 PROVE  /\ returned' = "done" => stored = saveFile'
                        /\ returned' = "failed" => stored = atCall
      BY <1>1
    <2>1. Serial!Return
      BY SavesAssumption DEF Serial!Next, Serial!Press, Serial!Release,
         Serial!Update, Serial!BeginTick, Serial!Tick, Serial!LockControllers,
         Serial!OpenMenu, Serial!SaveRead, Serial!SaveWrite, Serial!Call,
         Serial!EndTick, Serial!ReadLocked, Serial!StartRead, Serial!ReadData,
         Serial!StartSave, Serial!Storing, Serial!EndSave, Serial!Answer,
         Serial!ReadSave, Serial!queues, Serial!inputVars, Serial!saveVars
    <2>2. answers # << >> /\ game \in {"saving", "loading"}
      BY <2>1 DEF Serial!Return
    <2>3. CASE game = "saving"
      <3>1. saveFile' = saveFile /\ returned' = Head(answers)
        BY <2>1, <2>3 DEF Serial!Return
      <3>2. Truthful(Head(answers))
        BY <1>1, <2>2, <2>3 DEF SerialIInv, AnswerInv
      <3> QED
        BY <3>1, <3>2 DEF Truthful
    <2>4. CASE game = "loading"
      <3>1. returned' = "done" => Head(answers) = "done" /\ saveFile' = buffer
        BY <2>1, <2>4 DEF Serial!Return
      <3>2. stored = atCall /\ (Head(answers) = "done" => buffer = stored)
        BY <1>1, <2>2, <2>4 DEF SerialIInv, AnswerInv
      <3> QED
        BY <3>1, <3>2
    <2> QED
      BY <2>2, <2>3, <2>4
  <1> QED
    BY <1>1, SerialInvariance, PTL DEF Serial!Spec, ReturnIsTrue,
       Serial!ReturnIsTrue
=============================================================================
