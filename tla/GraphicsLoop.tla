----------------------------- MODULE GraphicsLoop -----------------------------
(***************************************************************************)
(* The graphics thread (Graphics_RunPspScheduler in sys_main.c): at each   *)
(* wake it advances the frame scheduler, simulates up to two frames into   *)
(* the two graphics pools in turn, and presents the newest one, if need be *)
(* interpolated with the one before (frame_interpolation.c).  The renderer *)
(* runs concurrently on the main thread and reads the pools until it       *)
(* answers; here it is the abstract service TaskScheduler implements: one  *)
(* task drawn at a time, one answer.                                       *)
(*                                                                         *)
(* A wait for the renderer is joined to the step that follows it, since    *)
(* after it no task is in flight.  Between two wakes any number of VIs up  *)
(* to MaxElapsed passes, none included: a wake may be late, or a second    *)
(* one in the same interval.  Frame buffers (osViSwapBuffer is empty here),*)
(* the controller hand-shake and the audio update are left out.            *)
(***************************************************************************)
EXTENDS FrameScheduler, FiniteSets

CONSTANTS
    pool0, pool1,  (* gGfxPools[0] and gGfxPools[1], and their tasks         *)
    VIRates,       (* values the game gives gVIsPerFrame                     *)
    Scenes,        (* values of (gGameState, gDrawMode, gCurrentLevel)       *)
    MaxElapsed,    (* bound: VIs between two readings of the VI counter      *)
    Generations,   (* sGeneration counts modulo this (2^32 in the code)      *)
    HomeMenu,      (* whether the player may leave through the HOME menu     *)
    NONE           (* a NULL task                                            *)

Pool == {pool0, pool1}
Other(p) == IF p = pool0 THEN pool1 ELSE pool0

ASSUME LoopAssumption ==
    /\ VIRates \subseteq 1..255
    /\ Scenes # {}
    /\ MaxElapsed \in Nat \ {0}
    /\ Generations \in Nat /\ Generations > 2
    /\ HomeMenu \in BOOLEAN
    /\ pool0 # pool1
    /\ NONE \notin Pool

VARIABLES
    vi,                 (* the VI counter as last read (currentVi)           *)
    scheduler,          (* the PspFrameScheduler                             *)
    gVIsPerFrame,       (* simulation rate asked for by the game             *)
    scene,              (* what the game is showing                          *)
    sPresentationVIs,   (* frame_scheduler.c: the presentation rate          *)
    settings,           (* settings.c: changes waiting for a boundary        *)
    frame,              (* gGfxPools[gSysFrameCount % 2], simulated last     *)
    sGeneration,
    sPools,             (* frame_interpolation.c: what each pool holds       *)
    presentation,       (* how the task being drawn is presented, or NONE    *)
    pc,                 (* where the graphics thread is                      *)
    presentationDue, ticks, deadline, record,             (* its locals      *)
    taskInFlight, inFlightTask, inFlightDependency,       (* more of them    *)
    pendingTask, reusableTask,
    drawing, answered,  (* the renderer: the task it draws, its answer       *)
    shown,              (* the latest sample displayed or superseded         *)
    steady,             (* frames simulated since the last disturbance, or 3 *)
    exit                (* sExitRequested, and whether the game has left     *)

clockVars == <<vi, scheduler>>
gameVars == <<gVIsPerFrame, scene, sPresentationVIs, settings>>
poolVars == <<frame, sGeneration, sPools>>
localVars == <<presentationDue, ticks, deadline, record>>
flightVars == <<taskInFlight, inFlightTask, inFlightDependency>>
taskVars == <<pendingTask, reusableTask>>
serviceVars == <<drawing, answered, presentation, shown>>
vars == <<clockVars, gameVars, poolVars, localVars, flightVars, taskVars,
          serviceVars, pc, steady, exit>>

(* Samples are at most a few VIs apart: one is before another when it is   *)
(* at most four behind it on the wrapping counter.                         *)
Before(a, b) == Minus(b, a) \in 1..4
Later(a, b) == IF Before(a, b) THEN b ELSE a

Sample(v, g, rate) ==
    [simulationVi |-> v, generation |-> g, simulationVIs |-> rate,
     valid |-> FALSE, eligible |-> FALSE, scene |-> CHOOSE s \in Scenes : TRUE]

(* A task presented as it is, without interpolation.                       *)
Plain(p) ==
    [interpolated |-> FALSE, sample |-> sPools[p].simulationVi,
     fallback |-> FALSE, repeated |-> FALSE]
-----------------------------------------------------------------------------
(* Graphics_ThreadEntry: frame 0 is simulated before the loop, with        *)
(* gVIsPerFrame still 0, so it is not recorded; it is submitted at once.   *)
Init ==
    /\ vi = 0
    /\ gVIsPerFrame \in VIRates \union {0} /\ scene \in Scenes
    /\ sPresentationVIs = 1
    /\ settings = [presentationVIs |-> 0, restart |-> FALSE]
    /\ scheduler = NewScheduler(0, gVIsPerFrame, 1)
    /\ frame \in Pool /\ sGeneration = 1
    /\ sPools = [p \in Pool |-> Sample(0, IF p = frame THEN 1 ELSE 0, 0)]
    /\ presentation = Plain(frame) /\ shown = 0
    /\ pc = "vblank"
    /\ presentationDue = FALSE /\ ticks = 0 /\ deadline = 0 /\ record = FALSE
    /\ taskInFlight = TRUE /\ inFlightTask = frame /\ inFlightDependency = NONE
    /\ pendingTask = NONE /\ reusableTask = frame
    /\ drawing = frame /\ answered = FALSE
    /\ steady = 0 /\ exit = "no"
-----------------------------------------------------------------------------
(* Graphics_WaitForTask.                                                   *)
TaskAnswered == taskInFlight => answered

(* Variant: the flag survives the wait.                                    *)
WaitForTaskKeepingFlag ==
    /\ TaskAnswered
    /\ UNCHANGED taskInFlight
    /\ answered' = IF taskInFlight THEN FALSE ELSE answered

WaitForTask ==
    /\ TaskAnswered
    /\ taskInFlight' = FALSE
    /\ answered' = IF taskInFlight THEN FALSE ELSE answered

ForgetFlight == inFlightTask' = NONE /\ inFlightDependency' = NONE

(* PspMenu_NeedsBoundary.                                                  *)
NeedsBoundary == settings.restart \/ settings.presentationVIs # 0
-----------------------------------------------------------------------------
(* MIN(missed + 1, PSP_MAX_SIMULATION_TICKS_PER_WAKE), and a variant with  *)
(* no limit.                                                               *)
TicksDueUnlimited(missed) == missed + 1
TicksDue(missed) == IF missed = 0 THEN 1 ELSE 2

(* The deadline of the first frame to simulate; a variant ignores that     *)
(* frames are made up for.                                                 *)
LastDeadline(s, n) == Minus(s.nextSimulationVi, s.simulationVIs)
FirstDeadline(s, n) == Minus(s.nextSimulationVi, n * s.simulationVIs)

(* A wake: read the buttons, then the VI counter, and advance the          *)
(* scheduler.  The menu may have asked for another presentation rate, or   *)
(* for what restarts interpolation (a display mode or quality); nothing    *)
(* looks at such a request before a wake that simulates, so it joins it.   *)
Wake ==
    /\ pc = "vblank" /\ exit = "no"
    /\ \E elapsed \in 0..MaxElapsed : vi' = Plus(vi, elapsed)
    /\ scheduler' = Advance(scheduler, vi')
    /\ presentationDue' = PresentationDue(scheduler, vi')
    /\ LET simulationDue == SimulationDue(scheduler, vi')
           missed == Missed(scheduler.nextSimulationVi, vi',
                            scheduler.simulationVIs)
       IN  /\ ticks' = IF simulationDue THEN TicksDue(missed) ELSE 0
           /\ deadline' = IF simulationDue THEN FirstDeadline(scheduler', ticks')
                                            ELSE 0
           /\ steady' = IF simulationDue /\ missed > 1 THEN 0 ELSE steady
           /\ IF simulationDue
                THEN \E rate \in {0, 3 - sPresentationVIs}, r \in BOOLEAN :
                        settings' = [presentationVIs |-> rate, restart |-> r]
                ELSE UNCHANGED settings
           /\ pc' = IF simulationDue
                      THEN IF NeedsBoundary' THEN "boundary" ELSE "simulate"
                      ELSE IF presentationDue' THEN "present" ELSE "vblank"
    /\ UNCHANGED <<gVIsPerFrame, scene, sPresentationVIs, poolVars, record,
                   flightVars, taskVars, serviceVars, exit>>

(* PspMenu_Apply between two frames, with no task in flight; the counter   *)
(* is read again after it.                                                 *)
Boundary ==
    /\ pc = "boundary" /\ exit # "left"
    /\ WaitForTask /\ ForgetFlight
    /\ settings' = [presentationVIs |-> 0, restart |-> FALSE]
    /\ sPresentationVIs' = IF settings.presentationVIs # 0
                             THEN settings.presentationVIs
                             ELSE sPresentationVIs
    /\ \/ UNCHANGED <<sPools, sGeneration, presentation>>
       \/ /\ settings.restart       (* PspFrameInterpolation_Reset *)
          /\ presentation' = NONE
          /\ sPools' = [p \in Pool |->
                          [sPools[p] EXCEPT !.valid = FALSE,
                                            !.eligible = FALSE]]
          /\ sGeneration' = 0
    /\ \E elapsed \in 0..MaxElapsed : vi' = Plus(vi, elapsed)
    /\ scheduler' = WithPresentationVIs(scheduler, vi', sPresentationVIs')
    /\ steady' = 0
    /\ pc' = "simulate"
    /\ UNCHANGED <<gVIsPerFrame, scene, frame, localVars, taskVars, drawing,
                   shown, exit>>

-----------------------------------------------------------------------------
(* Graphics_BuildSimulationTask.  The other pool is overwritten, after a   *)
(* wait if the task in flight is that pool's or is interpolated from it.   *)
(* Variant: the pool a task is interpolated from is forgotten.             *)
MustWaitForTaskOnly(p) == taskInFlight /\ p = inFlightTask

MustWaitFor(p) == taskInFlight /\ p \in {inFlightTask, inFlightDependency}

BuildBegin ==
    /\ pc = "simulate" /\ exit # "left"
    /\ IF MustWaitFor(Other(frame))
         THEN WaitForTask /\ ForgetFlight
         ELSE UNCHANGED <<flightVars, answered>>
    /\ frame' = Other(frame)
    /\ sGeneration' = (sGeneration + 1) % Generations
    /\ sPools' = [sPools EXCEPT ![Other(frame)] =
                     Sample(deadline, sGeneration', gVIsPerFrame)]
    /\ record' = (gVIsPerFrame > sPresentationVIs)
    /\ shown' = Later(sPools[frame].simulationVi, shown)
    /\ pc' = "building"
    /\ UNCHANGED <<clockVars, gameVars, presentationDue, ticks, deadline,
                   taskVars, drawing, presentation, steady, exit>>

(* Game_Update has run: it may have changed the simulation rate or the     *)
(* scene, or drawn nothing that can be interpolated.                       *)
BuildEnd ==
    /\ pc = "building" /\ exit # "left"
    /\ \E rate \in VIRates \union {gVIsPerFrame}, s \in Scenes,
          world \in BOOLEAN :
         /\ gVIsPerFrame' = rate /\ scene' = s
         /\ sPools' = [sPools EXCEPT
                         ![frame].valid = record,
                         ![frame].scene = s,
                         ![frame].eligible =
                             record /\ world /\ rate > sPresentationVIs]
         /\ steady' = IF world /\ rate = gVIsPerFrame /\ s = scene
                        THEN IF steady < 3 THEN steady + 1 ELSE 3
                        ELSE 0
    /\ pendingTask' = frame
    /\ ticks' = ticks - 1
    /\ record' = FALSE
    /\ IF ticks > 1
         THEN /\ pc' = "simulate"
              /\ deadline' = Plus(deadline, scheduler.simulationVIs)
              /\ UNCHANGED scheduler
         ELSE /\ pc' = IF presentationDue THEN "present" ELSE "vblank"
              /\ deadline' = 0
              /\ scheduler' =
                    WithPresentationVIs(
                        WithSimulationVIs(scheduler, vi, gVIsPerFrame'),
                        vi, sPresentationVIs)
    /\ UNCHANGED <<vi, sPresentationVIs, settings, frame, sGeneration,
                   presentationDue, flightVars, reusableTask,
                   serviceVars, exit>>
-----------------------------------------------------------------------------
(* PspFrameInterpolation_PreparePresentation: show the newest sample, or a *)
(* point between it and the one before, one simulation interval behind;    *)
(* when that cannot be done and a presentation is due every VI, keep the   *)
(* displayed image (PspFrameInterpolation_ShouldPresent).                  *)
TargetVi(current) == Minus(vi, current.simulationVIs - 1)

HasHistory(current, previous) ==
    LET span == Minus(current.simulationVi, previous.simulationVi)
        offset == Minus(TargetVi(current), previous.simulationVi)
    IN  /\ previous.valid /\ previous.eligible
        /\ current.generation = (previous.generation + 1) % Generations
        /\ current.scene = previous.scene
        /\ span = current.simulationVIs
        /\ offset < VIMod \div 2
        /\ offset <= span

(* Variant: without a history, the target is kept all the same.            *)
PreparedAtTarget(p) ==
    [interpolated |-> HasHistory(sPools[p], sPools[Other(p)]),
     sample |-> TargetVi(sPools[p]),
     fallback |-> FALSE, repeated |-> FALSE]

Prepared(p) ==
    LET current == sPools[p]
        requested == /\ current.valid /\ current.eligible
                     /\ scheduler.presentationVIs < current.simulationVIs
                     /\ TargetVi(current) # current.simulationVi
        history == HasHistory(current, sPools[Other(p)])
    IN  IF ~requested THEN Plain(p)
        ELSE [interpolated |-> history,
              sample |-> IF history THEN TargetVi(current)
                                    ELSE current.simulationVi,
              fallback |-> ~history,
              repeated |-> ~history /\ scheduler.presentationVIs = 1]

(* Variant: a frame not yet presented is passed over.                      *)
PresentAgain == reusableTask

TaskToPresent == IF pendingTask # NONE THEN pendingTask ELSE reusableTask

(* Present the newest frame, new or again, and submit it.                  *)
Present ==
    /\ pc = "present" /\ exit # "left"
    /\ TaskAnswered /\ taskInFlight' = TRUE /\ answered' = FALSE
    /\ presentation' = Prepared(TaskToPresent)
    /\ inFlightTask' = TaskToPresent
    /\ drawing' = TaskToPresent
    /\ inFlightDependency' = IF presentation'.interpolated
                               THEN Other(TaskToPresent) ELSE NONE
    /\ reusableTask' = TaskToPresent
    /\ pendingTask' = NONE
    /\ pc' = "vblank"
    /\ presentationDue' = FALSE
    /\ UNCHANGED <<clockVars, gameVars, poolVars, ticks, deadline, record,
                   shown, steady, exit>>
-----------------------------------------------------------------------------
(* The renderer has drawn the task (or kept the image) and answers.        *)
RenderDone ==
    /\ drawing # NONE /\ exit # "left"
    /\ drawing' = NONE /\ answered' = TRUE
    /\ shown' = IF presentation.repeated THEN shown ELSE presentation.sample
    /\ presentation' = NONE
    /\ UNCHANGED <<clockVars, gameVars, poolVars, localVars, flightVars,
                   taskVars, pc, steady, exit>>

(* HOME asks for the end of the game.  Two threads watch for it: this one  *)
(* at each wake, which waits for the task in flight (PspPlatform_ExitGame),*)
(* and the boot thread in main(), which does not.                          *)
RequestExit ==
    /\ HomeMenu /\ exit = "no"
    /\ exit' = "requested"
    /\ UNCHANGED <<clockVars, gameVars, poolVars, localVars, flightVars,
                   taskVars, serviceVars, pc, steady>>

ExitFromLoop ==
    /\ pc = "vblank" /\ exit = "requested"
    /\ WaitForTask
    /\ exit' = "left"
    /\ UNCHANGED <<clockVars, gameVars, poolVars, localVars, inFlightTask,
                   inFlightDependency, taskVars, drawing, presentation,
                   shown, pc, steady>>

ExitFromBoot ==
    /\ exit = "requested"
    /\ exit' = "left"
    /\ UNCHANGED <<clockVars, gameVars, poolVars, localVars, flightVars,
                   taskVars, serviceVars, pc, steady>>
-----------------------------------------------------------------------------
Loop == Wake \/ Boundary \/ BuildBegin \/ BuildEnd \/ Present \/ ExitFromLoop

Next == Loop \/ RenderDone \/ RequestExit \/ ExitFromBoot

Spec == Init /\ [][Next]_vars

(* The loop and the renderer keep running, and VIs keep coming.            *)
Fairness ==
    /\ WF_vars(Loop /\ (pc = "vblank" => vi' # vi \/ exit' # exit))
    /\ WF_vars(RenderDone)

FairSpec == Spec /\ Fairness
-----------------------------------------------------------------------------
(* Properties.                                                             *)

TypeOK ==
    /\ vi \in VIs /\ deadline \in VIs /\ shown \in VIs
    /\ gVIsPerFrame \in VIRates \union {0} /\ scene \in Scenes
    /\ sPresentationVIs \in {1, 2}
    /\ settings \in [presentationVIs : 0..2, restart : BOOLEAN]
    /\ scheduler \in [nextSimulationVi : VIs, nextPresentationVi : VIs,
                      simulationVIs : 1..4, presentationVIs : 1..4]
    /\ frame \in Pool /\ sGeneration \in 0..(Generations - 1)
    /\ sPools \in [Pool -> [simulationVi : VIs,
                            generation : 0..(Generations - 1),
                            simulationVIs : VIRates \union {0},
                            valid : BOOLEAN, eligible : BOOLEAN,
                            scene : Scenes]]
    /\ \/ presentation = NONE /\ drawing = NONE
       \/ /\ drawing # NONE
          /\ presentation \in [interpolated : BOOLEAN, sample : VIs,
                               fallback : BOOLEAN, repeated : BOOLEAN]
    /\ pc \in {"vblank", "boundary", "simulate", "building", "present"}
    /\ presentationDue \in BOOLEAN /\ ticks \in 0..2 /\ record \in BOOLEAN
    /\ taskInFlight \in BOOLEAN
    /\ inFlightTask \in Pool \union {NONE}
    /\ inFlightDependency \in Pool \union {NONE}
    /\ pendingTask \in Pool \union {NONE} /\ reusableTask \in Pool
    /\ drawing \in Pool \union {NONE} /\ answered \in BOOLEAN
    /\ steady \in 0..3 /\ exit \in {"no", "requested", "left"}

(* What the renderer may read: the pool it draws, and the pool it          *)
(* interpolates from.                                                      *)
Reading ==
    IF drawing = NONE THEN {}
    ELSE {drawing} \union
         (IF presentation.interpolated THEN {Other(drawing)} ELSE {})

(* While a task is drawn, nothing the renderer reads changes: neither pool *)
(* is rebuilt nor reset and the presentation is not prepared again.        *)
DrawnDataStable ==
    [][drawing # NONE /\ drawing' # NONE
        => /\ UNCHANGED presentation
           /\ \A p \in Reading : sPools'[p] = sPools[p]]_vars

(* What is submitted is always the frame simulated last, complete, whether *)
(* it is presented for the first time or again.                            *)
SubmitsNewest ==
    [][drawing = NONE /\ drawing' # NONE
        => drawing' = frame /\ UNCHANGED sPools]_vars

(* Motion never runs backwards: what is displayed is no older than what    *)
(* was displayed before, nor than the sample the newest frame replaced,    *)
(* whatever the wakes, missed deadlines and changes of rate or settings.   *)
MotionNeverGoesBack == [][~Before(shown', shown)]_vars

(* Interpolation only gives up after a disturbance: three frames simulated *)
(* at an unchanged rate in an unchanged scene, with no boundary and no     *)
(* dropped deadline, can always be interpolated, however late the wakes.   *)
SteadyFramesInterpolate ==
    [][pc = "present" /\ pc' = "vblank" /\ steady = 3
        => ~presentation'.fallback]_vars

(* The game keeps presenting until it exits, unless the player changes the *)
(* settings for ever: a changed presentation rate restarts its deadline.   *)
KeepsPresenting ==
    <>(exit # "no") \/ []<>(pc = "boundary") \/ []<><<Present>>_vars

(* The game is left with no task being drawn.                              *)
ExitDrained == exit = "left" => drawing = NONE
=============================================================================
