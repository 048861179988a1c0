----------------------------- MODULE SerialThread -----------------------------
(***************************************************************************)
(* The serial thread (sys_main.c, sys_joybus.c): it reads the controllers  *)
(* and the saved game on request, and answers on a queue for each.  With   *)
(* it its clients on the graphics thread: the controller read of every     *)
(* tick, Save_Read and Save_Write (fox_save.c), and the input of the PSP   *)
(* (psp/input.c), whose buttons go to the menu or to the game.  What the   *)
(* saved game promises the thread is AtomicSave.                           *)
(*   All buttons are one: presses are numbered, and 0 is a release.  The   *)
(* analog stick and the fault handler's own reads are left out.            *)
(***************************************************************************)
EXTENDS MesgQueue

CONSTANTS
    Requests,      (* slots of gSerialThreadMesgQueue; 8 in the code         *)
    Saves,         (* contents of gSaveFile                                  *)
    NONE,
    MaxPresses,    (* bound: presses of a button                             *)
    MaxSaves,      (* bound: calls of Save_Read and Save_Write               *)
    MaxLock        (* bound: ticks the game locks the controllers for        *)

VARIABLES
    requests,      (* gSerialThreadMesgQueue                                 *)
    controllers,   (* gControllerMesgQueue, of one slot                      *)
    answers,       (* gSaveMesgQueue, of one slot                            *)
    serial,        (* what the serial thread is at                           *)
    game,          (* where the graphics thread is                           *)
    lock,          (* gControllerLock                                        *)
    next,          (* sNextController                                        *)
    hold,          (* gControllerHold: what the game sees                    *)
    buffer,        (* gSaveIOBuffer                                          *)
    saveFile,      (* gSaveFile                                              *)
    returned       (* of the last Save_Write or Save_Read                    *)

VARIABLES          (* psp/input.c and the menu                               *)
    press,         (* presses so far                                         *)
    down,          (* a button is held down                                  *)
    previous,      (* sPreviousButtons                                       *)
    open,          (* PspMenu_IsOpen                                         *)
    gate, ready,   (* sReleaseGate, sReleaseReady                            *)
    pad            (* sPad                                                   *)

VARIABLES          (* the store                                              *)
    stored, saving, old, tried, result

VARIABLES          (* history                                                *)
    menuPress,     (* the newest press when the menu was last seen open      *)
    atCall,        (* what was stored when Save_Write was called             *)
    calls          (* calls of Save_Read and Save_Write                      *)

Store == INSTANCE AtomicSave WITH Images <- Saves, NOTHING <- NONE

queues == <<requests, controllers, answers>>
store == <<stored, saving, old, tried, result>>
inputVars == <<press, down, previous, open, gate, ready, pad, menuPress>>
saveVars == <<buffer, saveFile, returned, atCall, calls>>
vars == <<queues, serial, game, lock, next, hold, inputVars, saveVars, store>>

Init ==
    /\ requests = <<"read">> /\ controllers = << >> /\ answers = << >>
    /\ serial = "wait" /\ game = "loop" /\ lock = 0 /\ next = 0 /\ hold = 0
    /\ press = 0 /\ down = FALSE /\ previous = 0 /\ open = FALSE
    /\ gate = FALSE /\ ready = FALSE /\ pad = 0 /\ menuPress = 0
    /\ buffer = NONE /\ saveFile = NONE /\ returned = NONE
    /\ atCall = NONE /\ calls = 0 /\ Store!Init

Request(r) == requests' = SendNoBlock(requests, Requests, r)
-----------------------------------------------------------------------------
(* The user.                                                               *)
Press ==
    /\ ~down /\ press < MaxPresses /\ down' = TRUE /\ press' = press + 1
    /\ UNCHANGED <<queues, serial, game, lock, next, hold, previous, open, gate, ready,
                   pad, menuPress, saveVars, store>>

Release ==
    /\ down /\ down' = FALSE
    /\ UNCHANGED <<queues, serial, game, lock, next, hold, press, previous, open, gate,
                   ready, pad, menuPress, saveVars, store>>

Buttons == IF down THEN press ELSE 0

(* PspInput_Update, with PspMenu_Update: a new press may open or close the *)
(* menu, and a watcher's room may open it by itself.                       *)
Update ==
    /\ game = "loop"
    /\ previous' = Buttons
    /\ open' \in IF Buttons \in {0, previous} THEN {open, TRUE} ELSE BOOLEAN
    /\ gate' = (gate \/ open \/ open')
    /\ pad' = IF gate' THEN 0 ELSE Buttons
    /\ ready' = (gate' /\ ~open' /\ ~down)
    /\ menuPress' = IF open \/ open' THEN press ELSE menuPress
    /\ UNCHANGED <<queues, serial, game, lock, next, hold, press, down, saveVars, store>>

BeginTick ==
    /\ game = "loop" /\ game' = "tick"
    /\ UNCHANGED <<queues, serial, lock, next, hold, inputVars, saveVars, store>>

(* Variant: no neutral sample when the buttons have been released.         *)
FilteredWhileClosed == IF open \/ (gate /\ ~ready) THEN 0 ELSE next

(* PspInput_FilterGameInput and Controller_UpdateInput.                    *)
Filtered == IF gate \/ open THEN 0 ELSE next

(* A tick of the game: it waits for the last controller read, takes its    *)
(* input and asks for the next.                                            *)
Tick ==
    /\ game = "tick" /\ controllers # << >> /\ controllers' = Tail(controllers)
    /\ hold' = Filtered /\ next' = Filtered /\ gate' = (gate /\ ~ready)
    /\ Request("read") /\ game' = "update"
    /\ UNCHANGED <<answers, serial, lock, press, down, previous, open, ready, pad,
                   menuPress, saveVars, store>>

LockControllers ==
    /\ game = "update" /\ lock' \in 1..MaxLock
    /\ UNCHANGED <<queues, serial, game, next, hold, inputVars, saveVars, store>>

OpenMenu ==
    /\ game = "update" /\ open' = TRUE
    /\ UNCHANGED <<queues, serial, game, lock, next, hold, press, down, previous, gate,
                   ready, pad, menuPress, saveVars, store>>

Call == /\ game = "update" /\ calls < MaxSaves /\ calls' = calls + 1
        /\ atCall' = stored /\ returned' = NONE
        /\ UNCHANGED <<controllers, answers, serial, lock, next, hold, inputVars, store>>

(* Save_Write.                                                             *)
SaveWrite(v) ==
    /\ Call /\ saveFile' = v /\ buffer' = v /\ Request("save") /\ game' = "saving"

(* Save_Read.                                                              *)
SaveRead == Call /\ Request("load") /\ game' = "loading" /\ UNCHANGED <<saveFile, buffer>>

(* The end of either.  Save_Read takes over what was read before it looks  *)
(* at the checksums, of which a blank image has none that is right.        *)
Return ==
    /\ game \in {"saving", "loading"} /\ answers # << >> /\ answers' = Tail(answers)
    /\ LET loaded == game = "loading" /\ Head(answers) = "done"
       IN  /\ saveFile' = IF loaded THEN buffer ELSE saveFile
           /\ returned' = IF loaded /\ buffer = NONE THEN "failed" ELSE Head(answers)
    /\ game' = "update"
    /\ UNCHANGED <<requests, controllers, serial, lock, next, hold, inputVars, buffer,
                   atCall, calls, store>>

EndTick ==
    /\ game = "update" /\ game' = "loop"
    /\ UNCHANGED <<queues, serial, lock, next, hold, inputVars, saveVars, store>>
-----------------------------------------------------------------------------
(* The serial thread.                                                      *)
Take(r) == serial = "wait" /\ requests # << >> /\ Head(requests) = r
           /\ requests' = Tail(requests)

ControllersRead == controllers' = SendNoBlock(controllers, 1, "done")

(* Controller_ReadData, with the controllers locked and free.              *)
ReadLocked ==
    /\ Take("read") /\ lock > 0 /\ lock' = lock - 1 /\ next' = 0 /\ ControllersRead
    /\ UNCHANGED <<answers, serial, game, hold, inputVars, saveVars, store>>

StartRead ==
    /\ Take("read") /\ lock = 0 /\ serial' = "reading"
    /\ UNCHANGED <<controllers, answers, game, lock, next, hold, inputVars, saveVars,
                   store>>

(* PspInput_Poll takes the snapshot when the read is done.                 *)
ReadData ==
    /\ serial = "reading" /\ serial' = "wait" /\ next' = pad /\ ControllersRead
    /\ UNCHANGED <<requests, answers, game, lock, hold, inputVars, saveVars, store>>

(* Save_WriteData around the store.                                        *)
StartSave ==
    /\ Take("save") /\ serial' = "storing" /\ Store!Begin(buffer)
    /\ UNCHANGED <<controllers, answers, game, lock, next, hold, inputVars, saveVars>>

Storing ==
    /\ serial = "storing" /\ stored # saving /\ Store!Store
    /\ UNCHANGED <<queues, serial, game, lock, next, hold, inputVars, saveVars>>

EndSave ==
    /\ serial = "storing" /\ (Store!Succeed \/ Store!Fail) /\ serial' = "stored"
    /\ UNCHANGED <<queues, game, lock, next, hold, inputVars, saveVars>>

(* Variant: the answer does not wait for the outcome.                      *)
AnswerDone ==
    /\ serial = "stored" /\ serial' = "wait"
    /\ answers' = SendNoBlock(answers, 1, "done")
    /\ UNCHANGED <<requests, controllers, game, lock, next, hold, inputVars, saveVars,
                   store>>

Answer ==
    /\ serial = "stored" /\ serial' = "wait"
    /\ answers' = SendNoBlock(answers, 1, result)
    /\ UNCHANGED <<requests, controllers, game, lock, next, hold, inputVars, saveVars,
                   store>>

(* Save_ReadData.  What was never stored is read as a blank image, NONE;   *)
(* reading fails while the store cannot be opened.                         *)
ReadSave ==
    /\ Take("load")
    /\ \/ buffer' = stored /\ answers' = SendNoBlock(answers, 1, "done")
       \/ UNCHANGED buffer /\ answers' = SendNoBlock(answers, 1, "failed")
    /\ UNCHANGED <<controllers, serial, game, lock, next, hold, inputVars, saveFile,
                   returned, atCall, calls, store>>
-----------------------------------------------------------------------------
Next ==
    \/ Press \/ Release
    \/ Update \/ BeginTick \/ Tick \/ LockControllers \/ OpenMenu
    \/ SaveRead \/ Return \/ EndTick
    \/ \E v \in Saves : SaveWrite(v)
    \/ ReadLocked \/ StartRead \/ ReadData
    \/ StartSave \/ Storing \/ EndSave \/ Answer \/ ReadSave

Spec == Init /\ [][Next]_vars
-----------------------------------------------------------------------------
(* No press that was down, or still to be read, while the menu was open    *)
(* reaches the game, neither when the menu closes nor out of a snapshot    *)
(* the serial thread took before it opened: what the game sees after the   *)
(* menu was begun after it.                                                *)
MenuKeepsItsPresses == [][hold' # hold /\ hold' # 0 => hold' > menuPress]_vars

(* What Save_Write and Save_Read return is true of the call itself: done   *)
(* means that what a restart finds is what the game has in gSaveFile,      *)
(* failed that it is what it was before the call.                          *)
ReturnIsTrue ==
    [][returned = NONE /\ game' = "update" =>
         /\ returned' = "done" => stored = saveFile'
         /\ returned' = "failed" => stored = atCall]_vars

=============================================================================
