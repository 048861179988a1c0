--------------------------- MODULE AdhocWorkerProofs ---------------------------
(* What the worker keeps under the multiplayer menu: the menu never sees   *)
(* the outcome of a request that was replaced, and the layers of the radio *)
(* are nested.                                                             *)
EXTENDS MultiplayerMenu, TLAPS

(* Without the worker there is no request.                                 *)
StartedInv == ~started => current

(* All the layers but the socket are there.                                *)
Open(n) == \A i \in OpeningAt : i < n => Stack[i] \in layers \union foreign

(* Why the cleanup after a failed opening, or a failed session, is run.    *)
ClosingInv ==
    /\ worker = Closing("open") => view = "error" \/ ~current
    /\ worker = Closing("error") => view = "error"

(* A session that is shown has its layers, unless they have just been      *)
(* closed for a request that was replaced meanwhile; the worker then takes *)
(* the new one before it does anything else.                               *)
SessionInv ==
    /\ worker = <<"step">> => view \notin {"idle", "error"}
    /\ \/ view \in {"idle", "error"}
       \/ /\ worker \in {<<"step">>, <<"sleep">>} => Open(Len(Stack))
          /\ worker = <<"apply">> => Open(Len(Stack)) \/ layers = {}
          /\ worker \in {<<"look">>, <<"check">>}
                => Open(Len(Stack)) \/ (layers = {} /\ ~current)

(* The layers are opened from the bottom up.                               *)
OpeningInv == \A i \in OpeningAt : worker = <<"open", i>> => Open(i)

Inv == /\ AdhocTypeOK /\ StartedInv /\ PublishedIsCurrent /\ LayersNested
       /\ ClosingInv /\ SessionInv /\ OpeningInv
-----------------------------------------------------------------------------
LEMMA StackFacts ==
    /\ OpeningAt = 1..7 /\ Len(Stack) = 7
    /\ \A i \in 1..7 : (Stack[i] = "socket") <=> (i = 7)
    /\ \A i, j \in 1..7 : Stack[i] = Stack[j] => i = j
  <1>1. Len(Stack) = 7 /\ OpeningAt = 1..7
    BY DEF Stack, OpeningAt
  <1>2. 1..7 = {1, 2, 3, 4, 5, 6, 7}
    OBVIOUS
  <1>3. \A i \in 1..7 : (Stack[i] = "socket") <=> (i = 7)
    BY <1>2 DEF Stack
  <1>4. \A i, j \in 1..7 : Stack[i] = Stack[j] => i = j
    BY <1>2 DEF Stack
  <1> QED
    BY <1>1, <1>3, <1>4

(* The worker's places are all different.                                  *)
LEMMA Places ==
    ASSUME NEW i \in Nat, NEW j \in Nat, NEW why, NEW because
    PROVE  LET one == {<<"look">>, <<"apply">>, <<"check">>, <<"step">>,
                       <<"sleep">>, <<"ended">>}
           IN  /\ <<"open", i>> \notin one /\ Closing(why) \notin one
               /\ <<"open", i>> # Closing(why)
               /\ <<"open", i>> = <<"open", j>> => i = j
               /\ Closing(why) = Closing(because) => why = because
  BY DEF Closing

LEMMA PositionFacts ==
    /\ {<<"look">>, <<"apply">>, <<"check">>, <<"step">>, <<"sleep">>,
        <<"ended">>} \subseteq Positions
    /\ \A i \in OpeningAt : <<"open", i>> \in Positions
    /\ \A why \in {"request", "open", "error"} : Closing(why) \in Positions
  BY DEF Positions

LEMMA Initially == Init => Inv /\ TypeOK
  <1> SUFFICES ASSUME Init PROVE Inv /\ TypeOK
    OBVIOUS
  <1> USE DEF Init, AdhocInit
  <1>1. AdhocTypeOK
    BY StackFacts, PositionFacts DEF AdhocTypeOK, States, Actions
  <1>2. TypeOK
    BY <1>1 DEF TypeOK, States
  <1>3. StartedInv /\ PublishedIsCurrent /\ LayersNested
    BY DEF StartedInv, PublishedIsCurrent, LayersNested
  <1>4. ClosingInv /\ SessionInv
    BY DEF ClosingInv, SessionInv, Closing
  <1>5. OpeningInv
    BY StackFacts, Places DEF OpeningInv
  <1> QED
    BY <1>1, <1>2, <1>3, <1>4, <1>5 DEF Inv

LEMMA RequestKeeps ==
    ASSUME Inv, NEW a \in Actions, RequestFrom(a)
    PROVE  Inv'
  <1> USE DEF Inv
  <1>1. Placeholder(a) \in States /\ "error" \in States
    BY DEF Placeholder, States
  <1>2. CASE UNCHANGED adhocVars
    BY <1>2 DEF AdhocTypeOK, StartedInv, PublishedIsCurrent, LayersNested,
       OpeningInv, ClosingInv, SessionInv, Open, adhocVars, workerVars, session
  <1>3. CASE /\ ~started /\ published' = "error"
             /\ UNCHANGED <<started, request, current, wakeup, worker,
                           workerVars, foreign>>
    <2>1. AdhocTypeOK'
      BY <1>1, <1>3 DEF AdhocTypeOK, workerVars, session
    <2>2. StartedInv' /\ PublishedIsCurrent'
      BY <1>3 DEF StartedInv, PublishedIsCurrent
    <2>3. LayersNested' /\ OpeningInv' /\ ClosingInv' /\ SessionInv'
      BY <1>3 DEF LayersNested, OpeningInv, ClosingInv, SessionInv, Open,
         workerVars, session
    <2> QED
      BY <2>1, <2>2, <2>3
  <1>4. CASE /\ started' = TRUE /\ request' = a /\ current' = FALSE
             /\ published' = Placeholder(a) /\ wakeup' = TRUE
             /\ UNCHANGED <<worker, workerVars, foreign>>
    <2>1. AdhocTypeOK'
      BY <1>1, <1>4 DEF AdhocTypeOK, workerVars, session
    <2>2. StartedInv' /\ PublishedIsCurrent'
      BY <1>4 DEF StartedInv, PublishedIsCurrent
    <2>3. LayersNested' /\ OpeningInv' /\ ClosingInv' /\ SessionInv'
      BY <1>4 DEF LayersNested, OpeningInv, ClosingInv, SessionInv, Open,
         workerVars, session
    <2> QED
      BY <2>1, <2>2, <2>3
  <1> QED
    BY <1>2, <1>3, <1>4 DEF RequestFrom

LEMMA StateFacts ==
    /\ {"idle", "starting", "hosting", "searching", "results", "joining",
        "connected", "error"} \subseteq States \ {"stopping"}
    /\ {"stop", "host", "search", "join", "exit"} \subseteq Actions
  BY DEF States, Actions

(* A step of the worker keeps the types ...                                *)
LEMMA WorkerTypes ==
    ASSUME Inv, Worker
    PROVE  AdhocTypeOK'
  <1> USE DEF Inv, AdhocTypeOK, At, Goto, Publish, workerVars, session
  <1>1. CASE TakeRequest
    BY <1>1, StackFacts, PositionFacts, StateFacts DEF TakeRequest
  <1>2. CASE NoRequest
    BY <1>2, StackFacts, PositionFacts, StateFacts DEF NoRequest
  <1>3. CASE ApplyJoin
    BY <1>3, StackFacts, PositionFacts, StateFacts DEF ApplyJoin, FastJoin
  <1>4. CASE ApplyOther
    BY <1>4, StackFacts, PositionFacts, StateFacts DEF ApplyOther
  <1>5. CASE CloseLayer
    BY <1>5, StackFacts, PositionFacts, StateFacts DEF CloseLayer, IsClosing
  <1>6. CASE CloseFails
    BY <1>6, StackFacts, PositionFacts, StateFacts
       DEF CloseFails, IsClosing, AfterClosing
  <1>7. CASE ClosedAfterFailure
    BY <1>7, StackFacts, PositionFacts, StateFacts
       DEF ClosedAfterFailure, IsClosing, AfterClosing
  <1>8. CASE ClosedOutdated
    BY <1>8, StackFacts, PositionFacts, StateFacts DEF ClosedOutdated, Closed
  <1>9. CASE Stopped
    BY <1>9, StackFacts, PositionFacts, StateFacts DEF Stopped, Closed
  <1>10. CASE Ended
    BY <1>10, StackFacts, PositionFacts, StateFacts DEF Ended, Closed
  <1>11. CASE JoinOutdated
    BY <1>11, StackFacts, PositionFacts, StateFacts DEF JoinOutdated, Closed
  <1>12. CASE StartOpening
    <2>1. worker' \in Positions
      BY <1>12, StackFacts, PositionFacts DEF StartOpening
    <2>2. host' \in BOOLEAN
      BY <1>12 DEF StartOpening
    <2>3. view' \in States \ {"stopping"} /\ published' \in States
      BY <1>12, StateFacts DEF StartOpening
    <2> QED
      BY <1>12, <2>1, <2>2, <2>3 DEF StartOpening, Closed
  <1>13. ASSUME NEW i \in OpeningAt, OpenLayer(i) PROVE AdhocTypeOK'
    <2>1. i \in 1..6 /\ i + 1 \in OpeningAt
      BY <1>13, StackFacts DEF OpenLayer, Opening
    <2>2. worker' \in Positions
      BY <1>13, <2>1, PositionFacts DEF OpenLayer
    <2>3. layers' \subseteq {Stack[j] : j \in OpeningAt}
      BY <1>13 DEF OpenLayer
    <2> QED
      BY <1>13, <2>2, <2>3 DEF OpenLayer
  <1>14. CASE OpenFails
    BY <1>14, StackFacts, PositionFacts, StateFacts DEF OpenFails
  <1>15. CASE OpenOutdated
    BY <1>15, StackFacts, PositionFacts, StateFacts DEF OpenOutdated
  <1>16. CASE OpenDone
    BY <1>16, StackFacts, PositionFacts, StateFacts DEF OpenDone
  <1>17. CASE CheckOutdated
    BY <1>17, StackFacts, PositionFacts, StateFacts DEF CheckOutdated
  <1>18. CASE GoToSleep
    BY <1>18, StackFacts, PositionFacts, StateFacts DEF GoToSleep
  <1>19. CASE Wake
    BY <1>19, StackFacts, PositionFacts, StateFacts DEF Wake
  <1>20. CASE GoToStep
    BY <1>20, StackFacts, PositionFacts, StateFacts DEF GoToStep
  <1>21. CASE StepFails
    BY <1>21, StackFacts, PositionFacts, StateFacts DEF StepFails
  <1>22. CASE StepWaits
    BY <1>22, StackFacts, PositionFacts, StateFacts DEF StepWaits
  <1>23. CASE BeginJoin
    BY <1>23, StackFacts, PositionFacts, StateFacts
       DEF BeginJoin, StepTo, InSession
  <1>24. CASE StepSearching
    BY <1>24, StackFacts, PositionFacts, StateFacts
       DEF StepSearching, StepTo, InSession
  <1>25. CASE StepScans
    BY <1>25, StackFacts, PositionFacts, StateFacts
       DEF StepScans, StepTo, InSession
  <1>26. CASE OpenSocket
    BY <1>26, StackFacts, PositionFacts, StateFacts
       DEF OpenSocket, StepTo, InSession
  <1>27. CASE StepSession
    BY <1>27, StackFacts, PositionFacts, StateFacts
       DEF StepSession, StepTo, InSession
  <1> QED
    BY <1>1, <1>2, <1>3, <1>4, <1>5, <1>6, <1>7, <1>8, <1>9, <1>10, <1>11,
       <1>12, <1>13, <1>14, <1>15, <1>16, <1>17, <1>18, <1>19, <1>20,
       <1>21, <1>22, <1>23, <1>24, <1>25, <1>26, <1>27 DEF Worker

(* ... shows nothing of a request that was replaced ...                    *)
LEMMA WorkerPublishes ==
    ASSUME Inv, Worker
    PROVE  StartedInv' /\ PublishedIsCurrent'
  <1> USE DEF Inv, StartedInv, PublishedIsCurrent, At, Goto, Publish, workerVars
  <1>1. CASE TakeRequest
    BY <1>1 DEF TakeRequest
  <1>2. CASE NoRequest
    BY <1>2 DEF NoRequest
  <1>3. CASE ApplyJoin
    BY <1>3 DEF ApplyJoin, FastJoin
  <1>4. CASE ApplyOther
    BY <1>4 DEF ApplyOther
  <1>5. CASE CloseLayer
    BY <1>5 DEF CloseLayer, IsClosing
  <1>6. CASE CloseFails
    BY <1>6 DEF CloseFails, IsClosing, AfterClosing
  <1>7. CASE ClosedAfterFailure
    BY <1>7 DEF ClosedAfterFailure, IsClosing, AfterClosing
  <1>8. CASE ClosedOutdated
    BY <1>8 DEF ClosedOutdated, Closed
  <1>9. CASE Stopped
    BY <1>9 DEF Stopped, Closed
  <1>10. CASE Ended
    BY <1>10 DEF Ended, Closed
  <1>11. CASE JoinOutdated
    BY <1>11 DEF JoinOutdated, Closed
  <1>12. CASE StartOpening
    BY <1>12 DEF StartOpening, Closed
  <1>13. ASSUME NEW i \in OpeningAt, OpenLayer(i)
         PROVE  StartedInv' /\ PublishedIsCurrent'
    BY <1>13 DEF OpenLayer, Opening
  <1>14. CASE OpenFails
    BY <1>14 DEF OpenFails
  <1>15. CASE OpenOutdated
    BY <1>15 DEF OpenOutdated
  <1>16. CASE OpenDone
    BY <1>16 DEF OpenDone
  <1>17. CASE CheckOutdated
    BY <1>17 DEF CheckOutdated
  <1>18. CASE GoToSleep
    BY <1>18 DEF GoToSleep
  <1>19. CASE Wake
    BY <1>19 DEF Wake
  <1>20. CASE GoToStep
    BY <1>20 DEF GoToStep
  <1>21. CASE StepFails
    BY <1>21 DEF StepFails
  <1>22. CASE StepWaits
    BY <1>22 DEF StepWaits
  <1>23. CASE BeginJoin
    BY <1>23 DEF BeginJoin, StepTo, InSession
  <1>24. CASE StepSearching
    BY <1>24 DEF StepSearching, StepTo, InSession
  <1>25. CASE StepScans
    BY <1>25 DEF StepScans, StepTo, InSession
  <1>26. CASE OpenSocket
    BY <1>26 DEF OpenSocket, StepTo, InSession
  <1>27. CASE StepSession
    BY <1>27 DEF StepSession, StepTo, InSession
  <1> QED
    BY <1>1, <1>2, <1>3, <1>4, <1>5, <1>6, <1>7, <1>8, <1>9, <1>10, <1>11,
       <1>12, <1>13, <1>14, <1>15, <1>16, <1>17, <1>18, <1>19, <1>20,
       <1>21, <1>22, <1>23, <1>24, <1>25, <1>26, <1>27 DEF Worker

LEMMA TopFacts ==
    ASSUME AdhocTypeOK, layers # {}
    PROVE  /\ Top \in OpeningAt /\ Stack[Top] \in layers
           /\ \A j \in OpeningAt : Stack[j] \in layers => j <= Top
  <1>1. DOMAIN Stack = OpeningAt
    BY StackFacts DEF Stack
  <1>2. PICK i \in 1..7 : Stack[i] \in layers
    BY StackFacts DEF AdhocTypeOK
  <1>3. \E t \in 1..7 : /\ Stack[t] \in layers
                       /\ \A j \in 1..7 : Stack[j] \in layers => j <= t
    <2> DEFINE P(t) == Stack[t] \in layers
    <2>1. PICK k \in 1..7 : P(k)
      BY <1>2
    <2> HIDE DEF P
    <2>2. \E t \in 1..7 : P(t) /\ \A j \in 1..7 : P(j) => j <= t
      BY <2>1
    <2> QED
      BY <2>2 DEF P
  <1> QED
    BY <1>1, <1>3, StackFacts DEF Top

(* ... and keeps the layers nested.                                        *)
LEMMA WorkerNests ==
    ASSUME Inv, Worker
    PROVE  LayersNested' /\ ClosingInv' /\ SessionInv' /\ OpeningInv'
  <1> USE DEF Inv, LayersNested, ClosingInv, SessionInv, OpeningInv, Open, At, Goto,
      Publish, workerVars, session
  <1>1. CASE TakeRequest
    BY <1>1, StackFacts, Places DEF TakeRequest
  <1>2. CASE NoRequest
    BY <1>2, StackFacts, Places DEF NoRequest
  <1>3. CASE ApplyJoin
    <2>1. Open(Len(Stack))
      BY <1>3 DEF ApplyJoin, FastJoin
    <2> QED
      BY <1>3, <2>1, StackFacts, Places DEF ApplyJoin
  <1>4. CASE ApplyOther
    BY <1>4, StackFacts, Places DEF ApplyOther
  <1>5. CASE CloseLayer
    <2>1. PICK why \in {"request", "open", "error"} : worker = Closing(why)
      BY <1>5 DEF CloseLayer, IsClosing
    <2>2. LayersNested'
      BY <1>5, StackFacts, TopFacts DEF CloseLayer
    <2>3. SessionInv' /\ OpeningInv'
      BY <1>5, <2>1, StackFacts, Places DEF CloseLayer
    <2> QED
      BY <1>5, <2>2, <2>3 DEF CloseLayer
  <1>6. CASE CloseFails
    BY <1>6, StackFacts, Places DEF CloseFails, IsClosing, AfterClosing
  <1>7. CASE ClosedAfterFailure
    BY <1>7, StackFacts, Places DEF ClosedAfterFailure, IsClosing, AfterClosing
  <1>8. CASE ClosedOutdated
    BY <1>8, StackFacts, Places DEF ClosedOutdated, Closed
  <1>9. CASE Stopped
    BY <1>9, StackFacts, Places DEF Stopped, Closed
  <1>10. CASE Ended
    BY <1>10, StackFacts, Places DEF Ended, Closed
  <1>11. CASE JoinOutdated
    BY <1>11, StackFacts, Places DEF JoinOutdated, Closed
  <1>12. CASE StartOpening
    <2>1. layers' = {} /\ LayersNested' /\ Open(1)'
      BY <1>12, StackFacts DEF StartOpening, Closed
    <2>2. CASE worker' = <<"open", 1>>
      BY <2>1, <2>2, StackFacts, Places
    <2>3. CASE worker' = Closing("open") /\ view' = "error"
      BY <2>1, <2>3, StackFacts, Places
    <2> QED
      BY <1>12, <2>2, <2>3 DEF StartOpening
  <1>13. ASSUME NEW i \in OpeningAt, OpenLayer(i)
        PROVE  LayersNested' /\ ClosingInv' /\ SessionInv' /\ OpeningInv'
    <2>1. worker = <<"open", i>> /\ Open(i) /\ i \in 1..6
      BY <1>13, StackFacts DEF OpenLayer, Opening
    <2>2. LayersNested'
      BY <1>13, <2>1, StackFacts DEF OpenLayer
    <2>3. Open(i + 1)'
      BY <1>13, <2>1, StackFacts DEF OpenLayer
    <2>4. CASE current
      BY <1>13, <2>2, <2>3, <2>4, StackFacts, Places DEF OpenLayer
    <2>5. CASE ~current
      <3>1. worker' = Closing("open") /\ ~current'
        BY <1>13, <2>5 DEF OpenLayer
      <3>2. \A j \in Nat : worker' # <<"open", j>> /\ worker' # <<"step">>
        BY <3>1, Places
      <3>3. SessionInv' /\ OpeningInv'
        BY <3>1, <3>2, StackFacts, Places
      <3> QED
        BY <2>2, <3>1, <3>3, Places DEF Closing
    <2> QED
      BY <2>4, <2>5
  <1>14. CASE OpenFails
    BY <1>14, StackFacts, Places DEF OpenFails
  <1>15. CASE OpenOutdated
    BY <1>15, StackFacts, Places DEF OpenOutdated
  <1>16. CASE OpenDone
    BY <1>16, StackFacts, Places DEF OpenDone
  <1>17. CASE CheckOutdated
    BY <1>17, StackFacts, Places DEF CheckOutdated
  <1>18. CASE GoToSleep
    BY <1>18, StackFacts, Places DEF GoToSleep
  <1>19. CASE Wake
    BY <1>19, StackFacts, Places DEF Wake
  <1>20. CASE GoToStep
    BY <1>20, StackFacts, Places DEF GoToStep
  <1>21. CASE StepFails
    BY <1>21, StackFacts, Places DEF StepFails
  <1>22. CASE StepWaits
    BY <1>22, StackFacts, Places DEF StepWaits
  <1>23. CASE BeginJoin
    BY <1>23, StackFacts, Places DEF BeginJoin, StepTo, InSession
  <1>24. CASE StepSearching
    BY <1>24, StackFacts, Places DEF StepSearching, StepTo, InSession
  <1>25. CASE StepScans
    BY <1>25, StackFacts, Places DEF StepScans, StepTo, InSession
  <1>26. CASE OpenSocket
    <2>1. Open(Len(Stack))
      BY <1>26 DEF OpenSocket, StepTo, InSession
    <2>2. LayersNested' /\ Open(Len(Stack))'
      BY <1>26, <2>1, StackFacts DEF OpenSocket, StepTo
    <2> QED
      BY <1>26, <2>2, StackFacts, Places DEF OpenSocket, StepTo
  <1>27. CASE StepSession
    BY <1>27, StackFacts, Places DEF StepSession, StepTo, InSession
  <1> QED
    BY <1>1, <1>2, <1>3, <1>4, <1>5, <1>6, <1>7, <1>8, <1>9, <1>10, <1>11,
       <1>12, <1>13, <1>14, <1>15, <1>16, <1>17, <1>18, <1>19, <1>20,
       <1>21, <1>22, <1>23, <1>24, <1>25, <1>26, <1>27 DEF Worker

-----------------------------------------------------------------------------
LEMMA Inductive == Spec => []Inv
  <1>1. Inv /\ [Next]_vars => Inv'
    <2> SUFFICES ASSUME Inv, [Next]_vars
                 PROVE  Inv'
      OBVIOUS
    <2>1. ASSUME NEW a \in Actions, RequestFrom(a) PROVE Inv'
      BY <2>1, RequestKeeps
    <2>2. CASE AdhocStep
      BY <2>2, WorkerTypes, WorkerPublishes, WorkerNests DEF AdhocStep, Inv
    <2>3. CASE UNCHANGED adhocVars
      BY <2>3 DEF Inv, AdhocTypeOK, StartedInv, PublishedIsCurrent,
         LayersNested, OpeningInv, ClosingInv, SessionInv, Open, adhocVars,
         workerVars, session
    <2>4. CASE Menu
      BY <2>1, <2>3, <2>4, StateFacts
         DEF Menu, EndHosting, Refresh, OpenMultiplayer, ShowRoom, ChooseHost,
             ChooseJoin, Leave, Finish, ContinueHosting, ContinueSolo, RetryHost,
             RetryJoin, JoinRoom, SearchAgain, GoBack, Back, ExitGame
    <2> QED
      BY <2>2, <2>3, <2>4 DEF Next, vars
  <1> QED
    BY Initially, <1>1, PTL DEF Spec

(* The types of the worker and of the menu.                                *)
THEOREM TypeCorrect == Spec => []TypeOK
  <1>1. Inv /\ TypeOK /\ Inv' /\ [Next]_vars => TypeOK'
    <2> SUFFICES ASSUME Inv, TypeOK, Inv', [Next]_vars
                 PROVE  TypeOK'
      OBVIOUS
    <2> USE DEF TypeOK
    <2>1. AdhocTypeOK' /\ published \in States
      BY DEF Inv, AdhocTypeOK
    <2>2. CASE Menu
      BY <2>1, <2>2
         DEF Menu, EndHosting, Refresh, OpenMultiplayer, ShowRoom, ChooseHost,
             ChooseJoin, Leave, Finish, ContinueHosting, ContinueSolo, RetryHost,
             RetryJoin, JoinRoom, SearchAgain, GoBack, Back, ExitGame, Show
    <2>3. CASE UNCHANGED menuVars
      BY <2>1, <2>3 DEF menuVars
    <2> QED
      BY <2>2, <2>3 DEF Next, AdhocStep, vars
  <1> QED
    BY Initially, Inductive, <1>1, PTL DEF Spec

(* The menu never shows the outcome of a request that was replaced: until  *)
(* the worker takes the newest one (adhoc_worker), it sees the placeholder *)
(* adhoc_request published.                                                *)
THEOREM NothingOldIsShown == Spec => []PublishedIsCurrent
  BY Inductive, PTL DEF Inv

(* adhoc_open and adhoc_cleanup keep the layers of the radio nested,       *)
(* whichever system call fails and wherever a request comes in between.    *)
THEOREM LayersAreNested == Spec => []LayersNested
  BY Inductive, PTL DEF Inv
=============================================================================
