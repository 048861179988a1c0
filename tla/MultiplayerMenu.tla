---------------------------- MODULE MultiplayerMenu ----------------------------
(***************************************************************************)
(* The multiplayer screens of psp/menu.c over the worker of AdhocWorker.   *)
(* Menu, game and ad-hoc requests run on the graphics thread, so that each *)
(* press of a button, and each tick of the game, is one step.  The rooms   *)
(* of a search are not told apart: the cursor may be on any row.           *)
(***************************************************************************)
EXTENDS AdhocWorker

VARIABLES
    active,        (* sMultiplayerActive                                     *)
    screen,        (* sScreen, of the multiplayer ones                       *)
    fromGame,      (* sMultiplayerFromGame                                   *)
    continued,     (* sHostingContinued                                      *)
    net,           (* sMultiplayerNet.state, published at the last refresh   *)
    exited         (* PspPlatform_ExitGame was called                        *)

menuVars == <<active, screen, fromGame, continued, net, exited>>
vars == <<adhocVars, menuVars>>

Init ==
    /\ AdhocInit
    /\ active = FALSE /\ screen = "main" /\ fromGame = FALSE
    /\ continued = FALSE /\ net = "idle" /\ exited = FALSE
-----------------------------------------------------------------------------
Refresh ==
    /\ active /\ ~exited /\ net' = published
    /\ UNCHANGED <<adhocVars, active, screen, fromGame, continued, exited>>

Show(s) == screen' = s /\ UNCHANGED <<active, fromGame, continued, net, exited>>

(* PspMenu_OpenMultiplayer.  The game opens the menu from its versus menu  *)
(* and waits for the result before it may open it again.                   *)
OpenMultiplayer ==
    /\ ~exited /\ (active => fromGame)
    /\ IF continued THEN RequestFrom("stop") ELSE UNCHANGED adhocVars
    /\ active' = TRUE /\ screen' = "multiplayer" /\ fromGame' = FALSE
    /\ continued' = FALSE /\ UNCHANGED <<net, exited>>

(* Variant: only the way back to the versus menu closes the room.          *)
FinishQuietly(result) ==
    /\ IF result = "back" THEN RequestFrom("stop") ELSE UNCHANGED adhocVars
    /\ continued' = (result = "host")
    /\ active' = FALSE /\ screen' = "main" /\ fromGame' = FALSE
    /\ UNCHANGED <<net, exited>>

Finish(result) ==
    /\ IF result # "host" THEN RequestFrom("stop") ELSE UNCHANGED adhocVars
    /\ continued' = (result = "host")
    /\ active' = FALSE /\ screen' = "main" /\ fromGame' = FALSE
    /\ UNCHANGED <<net, exited>>

Back ==
    \/ /\ fromGame /\ active' = FALSE /\ fromGame' = FALSE /\ screen' = "main"
       /\ UNCHANGED <<adhocVars, continued, net, exited>>
    \/ ~fromGame /\ RequestFrom("stop") /\ Show("multiplayer")

(* PspMenu_EndHosting: when the user closes the room, when the game enters *)
(* the versus menu, and on the first tick outside of menus and matches.    *)
EndHosting ==
    /\ ~exited /\ continued /\ continued' = FALSE /\ RequestFrom("stop")
    /\ IF fromGame THEN active' = FALSE /\ fromGame' = FALSE /\ screen' = "main"
                   ELSE UNCHANGED <<active, fromGame, screen>>
    /\ UNCHANGED <<net, exited>>

(* "Hosting" in the main menu of a game that goes on with its room open.   *)
ShowRoom ==
    /\ ~active /\ ~exited /\ continued
    /\ active' = TRUE /\ fromGame' = TRUE /\ screen' = "host"
    /\ UNCHANGED <<adhocVars, continued, net, exited>>
-----------------------------------------------------------------------------
(* menu_multiplayer_update: a row of each screen.                          *)

On(s) == active /\ ~exited /\ screen = s
Searching == net \in {"searching", "results"}

ChooseHost == On("multiplayer") /\ RequestFrom("host") /\ Show("host")
ChooseJoin == On("multiplayer") /\ RequestFrom("search") /\ Show("join")
Leave(result) == On("multiplayer") /\ result \in {"solo", "back"} /\ Finish(result)

ContinueHosting == On("host") /\ (fromGame \/ net = "hosting") /\ Finish("host")
ContinueSolo == On("host") /\ ~fromGame /\ Finish("solo")
RetryHost == On("host") /\ ~fromGame /\ net = "error"
             /\ RequestFrom("host") /\ Show("host")
RetryJoin == On("join") /\ net = "error" /\ RequestFrom("search") /\ Show("join")
JoinRoom == On("join") /\ Searching /\ RequestFrom("join") /\ Show("join")
SearchAgain == On("join") /\ net = "results" /\ RequestFrom("search") /\ Show("join")
GoBack == (On("host") \/ On("join")) /\ Back

(* PspAdhoc_Shutdown, when the program ends.                               *)
ExitGame ==
    /\ ~exited /\ exited' = TRUE /\ RequestFrom("exit")
    /\ UNCHANGED <<active, screen, fromGame, continued, net>>

Menu ==
    \/ EndHosting \/ Refresh \/ OpenMultiplayer \/ ShowRoom
    \/ ChooseHost \/ ChooseJoin \/ (\E result \in {"solo", "back"} : Leave(result))
    \/ ContinueHosting \/ ContinueSolo \/ RetryHost \/ RetryJoin
    \/ JoinRoom \/ SearchAgain \/ GoBack \/ ExitGame

AdhocStep == Worker /\ UNCHANGED menuVars

Next == Menu \/ AdhocStep

Spec == Init /\ [][Next]_vars

(* The worker has the lowest priority: it runs while the graphics thread   *)
(* waits for the next frame, and all its calls return.                     *)
Fairness == WF_vars(AdhocStep)

FairSpec == Spec /\ Fairness
-----------------------------------------------------------------------------
TypeOK ==
    /\ AdhocTypeOK
    /\ active \in BOOLEAN /\ fromGame \in BOOLEAN /\ continued \in BOOLEAN
    /\ screen \in {"main", "multiplayer", "host", "join"}
    /\ net \in States /\ exited \in BOOLEAN

(* With the menu left and no room to keep, the radio goes off, however the *)
(* menu was left and whatever the worker was in the middle of; only a layer*)
(* that cannot be closed may stay open.                                    *)
RadioGoesOff ==
    ~active /\ ~continued ~> layers = {} \/ failed \/ active \/ continued
=============================================================================
