---------------------------- MODULE TaskScheduler ----------------------------
(***************************************************************************)
(* The task scheduler of sys_main.c: the main thread takes events from     *)
(* gMainThreadMesgQueue, moves submitted tasks from gTaskMesgQueue through *)
(* the pending FIFO (task_pending.h) into the active slots, runs them, and *)
(* answers their owners when the SP and DP events come back.  Around it:   *)
(* the vertical-interrupt thread and the event latch of platform.c, the    *)
(* graphics thread as a submitter with one task in flight, and the audio   *)
(* thread as a submitter paced by VI events (the build without PSP_AUDIO;  *)
(* the build with it, where synthesis bypasses the scheduler and submits   *)
(* nothing, starts with audioPc = "off").                                  *)
(*                                                                         *)
(* The slot arrays sGfxTasks and sAudioTasks are the sequences of their    *)
(* non-NULL entries, which Main_HandleRDP keeps at the front.  Diagnostic  *)
(* counters, NULL and unsupported-type messages (no thread of the program  *)
(* sends one) and the PRENMI event (nothing posts it) are left out.        *)
(***************************************************************************)
EXTENDS MesgQueue, Integers

CONSTANTS
    GfxTasks,      (* the SPTask of each graphics pool (gGfxPools[2])        *)
    AudioTasks,    (* gAudioRspTasks[2], or {} when audio bypasses the RSP   *)
    NULL,          (* the null pointer                                       *)
    MainCap,       (* capacity of gMainThreadMesgQueue                       *)
    TaskCap,       (* capacity of gTaskMesgQueue                             *)
    PendingCap,    (* MAIN_TASK_PENDING_CAPACITY                             *)
    GfxSlots,      (* ARRAY_COUNT(sGfxTasks)                                 *)
    AudioSlots,    (* ARRAY_COUNT(sAudioTasks)                               *)
    GfxReplyCap,   (* capacity of gGfxTaskMesgQueue                          *)
    AudioReplyCap, (* capacity of gAudioTaskMesgQueue                        *)
    GfxViCap,      (* capacity of gGfxVImesgQueue                            *)
    AudioViCap,    (* capacity of gAudioVImesgQueue                          *)
    GuBackend      (* PSP_GFX_BACKEND_GU: submissions also post TASK_READY   *)

Task == GfxTasks \union AudioTasks

ASSUME TasksAssumption ==
    /\ NULL \notin Task
    /\ GfxTasks # {}
    /\ GfxTasks \intersect AudioTasks = {}

ASSUME CapacityAssumption ==
    /\ MainCap \in Nat /\ MainCap >= 5
    /\ TaskCap \in Nat \ {0}
    /\ PendingCap \in Nat \ {0}
    /\ GfxSlots \in Nat \ {0}
    /\ AudioSlots \in Nat \ {0}
    /\ GfxReplyCap \in Nat \ {0}
    /\ AudioReplyCap \in Nat \ {0}
    /\ GfxViCap \in Nat \ {0}
    /\ AudioViCap \in Nat \ {0}
    /\ GuBackend \in BOOLEAN

VARIABLES
    mainQ,       (* gMainThreadMesgQueue                                     *)
    taskQ,       (* gTaskMesgQueue                                           *)
    gfxReplyQ,   (* gGfxTaskMesgQueue                                        *)
    audioReplyQ, (* gAudioTaskMesgQueue                                      *)
    gfxViQ,      (* gGfxVImesgQueue                                          *)
    audioViQ,    (* gAudioVImesgQueue                                        *)
    viPending,   (* sViEventPending                                          *)
    viPc,        (* the VI thread: "idle", or "send" once it latched an event*)
    mainPc,      (* where the main thread is in its loop                     *)
    mainMsg,     (* the event it is handling                                 *)
    pending,     (* sPendingTasks, oldest first                              *)
    gfxSlots,    (* sGfxTasks                                                *)
    audioSlots,  (* sAudioTasks                                              *)
    current,     (* gCurrentTask                                             *)
    state,       (* SPTask.state                                             *)
    gfxPc,       (* where the graphics thread is                             *)
    inFlight,    (* its taskInFlight                                         *)
    audioPc,     (* where the audio thread is, "off" when it does not submit *)
    audioTask    (* gAudioCurTask, the task it builds and submits            *)

mainVars  == <<mainPc, mainMsg, pending, gfxSlots, audioSlots, current, state>>
viVars    == <<viPending, viPc>>
gfxVars   == <<gfxPc, inFlight>>
audioVars == <<audioPc, audioTask>>
queueVars == <<mainQ, taskQ, gfxReplyQ, audioReplyQ, gfxViQ, audioViQ>>
vars == <<queueVars, mainVars, viVars, gfxVars, audioVars>>

Events == {"VI", "SP", "DP", "TASK_READY"}
States == {"NOT_STARTED", "RUNNING", "INTERRUPTED", "FINISHED", "FINISHED_DP"}

(* Main_Initialize and Main_InitMesgQueues, then the threads are started.  *)
Init ==
    /\ mainQ = << >> /\ taskQ = << >>
    /\ gfxReplyQ = << >> /\ audioReplyQ = << >>
    /\ gfxViQ = << >> /\ audioViQ = << >>
    /\ viPending = FALSE /\ viPc = "idle"
    /\ mainPc = "recv" /\ mainMsg = "VI"
    /\ pending = << >> /\ gfxSlots = << >> /\ audioSlots = << >>
    /\ current = NULL
    /\ state = [t \in Task |-> "NOT_STARTED"]
    /\ gfxPc = "submit" /\ inFlight = FALSE
    /\ \/ audioPc = "off" /\ audioTask = NULL
       \/ audioPc = "first" /\ audioTask \in AudioTasks
-----------------------------------------------------------------------------
(* The VI thread (PspPlatform_PostViEvent).  The latch is tested and set   *)
(* with interrupts off; the send happens after they are back on.           *)

(* Variant: post at every interrupt, without the latch.                    *)
ViLatchUnguarded ==
    /\ viPc = "idle"
    /\ viPending' = TRUE
    /\ viPc' = "send"
    /\ UNCHANGED <<queueVars, mainVars, gfxVars, audioVars>>

ViLatch ==
    /\ viPc = "idle"
    /\ ~viPending
    /\ viPending' = TRUE
    /\ viPc' = "send"
    /\ UNCHANGED <<queueVars, mainVars, gfxVars, audioVars>>

ViSend ==
    /\ viPc = "send"
    /\ viPc' = "idle"
    /\ mainQ' = SendNoBlock(mainQ, MainCap, "VI")
    /\ viPending' = IF HasRoom(mainQ, MainCap) THEN viPending ELSE FALSE
    /\ UNCHANGED <<taskQ, gfxReplyQ, audioReplyQ, gfxViQ, audioViQ,
                   mainVars, gfxVars, audioVars>>
-----------------------------------------------------------------------------
(* The main thread: receive an event.                                      *)
MainReceive ==
    /\ mainPc = "recv"
    /\ mainQ # << >>
    /\ mainMsg' = Head(mainQ)
    /\ mainQ' = Tail(mainQ)
    /\ mainPc' = "handle"
    /\ UNCHANGED <<taskQ, gfxReplyQ, audioReplyQ, gfxViQ, audioViQ, pending,
                   gfxSlots, audioSlots, current, state,
                   viVars, gfxVars, audioVars>>

(* EVENT_MESG_VI: acknowledge it, then wake the audio and graphics threads.*)
HandleVI ==
    /\ mainPc = "handle" /\ mainMsg = "VI"
    /\ mainPc' = "admit"
    /\ viPending' = FALSE
    /\ audioViQ' = SendNoBlock(audioViQ, AudioViCap, "VI")
    /\ gfxViQ' = SendNoBlock(gfxViQ, GfxViCap, "VI")
    /\ UNCHANGED <<mainQ, taskQ, gfxReplyQ, audioReplyQ, mainMsg, pending,
                   gfxSlots, audioSlots, current, state, viPc,
                   gfxVars, audioVars>>

HandleTaskReady ==
    /\ mainPc = "handle" /\ mainMsg = "TASK_READY"
    /\ mainPc' = "admit"
    /\ UNCHANGED <<queueVars, mainMsg, pending, gfxSlots, audioSlots, current,
                   state, viVars, gfxVars, audioVars>>

(* Variant: a finished task stays current.                                 *)
HandleRSPKeepsCurrent ==
    /\ mainPc = "handle" /\ mainMsg = "SP"
    /\ mainPc' = "admit"
    /\ IF current = NULL
         THEN UNCHANGED state
         ELSE state' = [state EXCEPT ![current] = "FINISHED"]
    /\ UNCHANGED <<queueVars, mainMsg, pending, gfxSlots, audioSlots,
                   current, viVars, gfxVars, audioVars>>

(* Main_HandleRSP.  osSpTaskYielded always answers 0 on this platform, so  *)
(* an interrupted task has finished too.                                   *)
HandleRSP ==
    /\ mainPc = "handle" /\ mainMsg = "SP"
    /\ mainPc' = "admit"
    /\ IF current = NULL
         THEN UNCHANGED <<current, state, audioReplyQ, audioSlots>>
         ELSE LET audioDone == /\ state[current] # "INTERRUPTED"
                               /\ current \in AudioTasks
              IN  /\ current' = NULL
                  /\ state' = [state EXCEPT ![current] = "FINISHED"]
                  /\ IF audioDone
                       THEN /\ audioReplyQ' = SendNoBlock(audioReplyQ,
                                                   AudioReplyCap, "MESG_1")
                            /\ audioSlots' = Discard(audioSlots)
                       ELSE UNCHANGED <<audioReplyQ, audioSlots>>
    /\ UNCHANGED <<mainQ, taskQ, gfxReplyQ, gfxViQ, audioViQ, mainMsg,
                   pending, gfxSlots, viVars, gfxVars, audioVars>>

(* Variant: the finished task is left at the head of the slots.            *)
HandleRDPUnshifted ==
    /\ mainPc = "handle" /\ mainMsg = "DP"
    /\ mainPc' = "admit"
    /\ IF gfxSlots = << >>
         THEN UNCHANGED <<gfxReplyQ, state>>
         ELSE /\ gfxReplyQ' = SendNoBlock(gfxReplyQ, GfxReplyCap, "MESG_2")
              /\ state' = [state EXCEPT ![Head(gfxSlots)] = "FINISHED_DP"]
    /\ UNCHANGED <<mainQ, taskQ, audioReplyQ, gfxViQ, audioViQ, mainMsg,
                   pending, gfxSlots, audioSlots, current,
                   viVars, gfxVars, audioVars>>

(* Main_HandleRDP: answer the owner of the head task and shift the slots.  *)
HandleRDP ==
    /\ mainPc = "handle" /\ mainMsg = "DP"
    /\ mainPc' = "admit"
    /\ IF gfxSlots = << >>
         THEN UNCHANGED <<gfxReplyQ, state, gfxSlots>>
         ELSE /\ gfxReplyQ' = SendNoBlock(gfxReplyQ, GfxReplyCap, "MESG_2")
              /\ state' = [state EXCEPT ![Head(gfxSlots)] = "FINISHED_DP"]
              /\ gfxSlots' = Tail(gfxSlots)
    /\ UNCHANGED <<mainQ, taskQ, audioReplyQ, gfxViQ, audioViQ, mainMsg,
                   pending, audioSlots, current, viVars, gfxVars, audioVars>>
-----------------------------------------------------------------------------
(* Main_GetNewTasks with Main_AdmitPendingTasks: the head of the pending   *)
(* FIFO is admitted whenever its kind has a free slot; when it cannot be,  *)
(* one more submitted task is taken while the FIFO has room.               *)

(* MainTaskPending_CanAdmit.                                               *)
CanAdmit(t) ==
    IF t \in AudioTasks THEN HasRoom(audioSlots, AudioSlots)
                        ELSE HasRoom(gfxSlots, GfxSlots)

HeadAdmissible == pending # << >> /\ CanAdmit(Head(pending))

AdmitHead ==
    /\ mainPc = "admit"
    /\ HeadAdmissible
    /\ pending' = Tail(pending)
    /\ IF Head(pending) \in AudioTasks
         THEN /\ audioSlots' = Append(audioSlots, Head(pending))
              /\ UNCHANGED gfxSlots
         ELSE /\ gfxSlots' = Append(gfxSlots, Head(pending))
              /\ UNCHANGED audioSlots
    /\ UNCHANGED <<queueVars, mainPc, mainMsg, current, state,
                   viVars, gfxVars, audioVars>>

DrainOne ==
    /\ mainPc = "admit"
    /\ ~HeadAdmissible
    /\ HasRoom(pending, PendingCap)
    /\ taskQ # << >>
    /\ taskQ' = Tail(taskQ)
    /\ state' = [state EXCEPT ![Head(taskQ)] = "NOT_STARTED"]
    /\ pending' = Append(pending, Head(taskQ))
    /\ UNCHANGED <<mainQ, gfxReplyQ, audioReplyQ, gfxViQ, audioViQ, mainPc,
                   mainMsg, gfxSlots, audioSlots, current,
                   viVars, gfxVars, audioVars>>

DrainDone ==
    /\ mainPc = "admit"
    /\ ~HeadAdmissible
    /\ ~HasRoom(pending, PendingCap) \/ taskQ = << >>
    /\ mainPc' = "start"
    /\ UNCHANGED <<queueVars, mainMsg, pending, gfxSlots, audioSlots, current,
                   state, viVars, gfxVars, audioVars>>
-----------------------------------------------------------------------------
(* Main_StartNextTask.  Audio goes first; osSpTaskYield does nothing here, *)
(* so a graphics task it would preempt is only marked INTERRUPTED.         *)

(* Variant: a task that waits for its DP event may be started again.       *)
MayStartFinishedGfx == current = NULL /\ gfxSlots # << >>

MayStartGfx ==
    /\ current = NULL
    /\ gfxSlots # << >>
    /\ state[Head(gfxSlots)] # "FINISHED"

StartAudio ==
    /\ mainPc = "start"
    /\ audioSlots # << >>
    /\ current = NULL
    /\ current' = Head(audioSlots)
    /\ mainPc' = "run"
    /\ UNCHANGED <<queueVars, mainMsg, pending, gfxSlots, audioSlots, state,
                   viVars, gfxVars, audioVars>>

InterruptGfx ==
    /\ mainPc = "start"
    /\ audioSlots # << >>
    /\ current \in GfxTasks
    /\ state' = [state EXCEPT ![current] = "INTERRUPTED"]
    /\ mainPc' = "recv"
    /\ UNCHANGED <<queueVars, mainMsg, pending, gfxSlots, audioSlots, current,
                   viVars, gfxVars, audioVars>>

StartGfx ==
    /\ mainPc = "start"
    /\ audioSlots = << >>
    /\ MayStartGfx
    /\ current' = Head(gfxSlots)
    /\ mainPc' = "run"
    /\ UNCHANGED <<queueVars, mainMsg, pending, gfxSlots, audioSlots, state,
                   viVars, gfxVars, audioVars>>

StartNothing ==
    /\ mainPc = "start"
    /\ IF audioSlots # << >> THEN current \in AudioTasks ELSE ~MayStartGfx
    /\ mainPc' = "recv"
    /\ UNCHANGED <<queueVars, mainMsg, pending, gfxSlots, audioSlots, current,
                   state, viVars, gfxVars, audioVars>>

(* osSpTaskStartGo runs the task to its end on the main thread and posts   *)
(* SP, then DP for graphics (PspPlatform_RunGfxTask, RunAudioTask); the    *)
(* task is marked RUNNING once it returns.                                 *)
PostSP ==
    /\ mainPc = "run"
    /\ mainQ' = SendNoBlock(mainQ, MainCap, "SP")
    /\ IF current \in GfxTasks
         THEN mainPc' = "postDP" /\ UNCHANGED state
         ELSE /\ mainPc' = "recv"
              /\ state' = [state EXCEPT ![current] = "RUNNING"]
    /\ UNCHANGED <<taskQ, gfxReplyQ, audioReplyQ, gfxViQ, audioViQ, mainMsg,
                   pending, gfxSlots, audioSlots, current,
                   viVars, gfxVars, audioVars>>

PostDP ==
    /\ mainPc = "postDP"
    /\ mainQ' = SendNoBlock(mainQ, MainCap, "DP")
    /\ state' = [state EXCEPT ![current] = "RUNNING"]
    /\ mainPc' = "recv"
    /\ UNCHANGED <<taskQ, gfxReplyQ, audioReplyQ, gfxViQ, audioViQ, mainMsg,
                   pending, gfxSlots, audioSlots, current,
                   viVars, gfxVars, audioVars>>
-----------------------------------------------------------------------------
(* The graphics thread: wake on a VI, wait for the task in flight before   *)
(* anything that needs it finished, submit one of the pools' tasks and     *)
(* post TASK_READY.  Which wakes wait or submit is GraphicsLoop's subject; *)
(* here any may.                                                           *)

(* Variant: submit without waiting for the task in flight.                 *)
GfxWakeUnserialised ==
    /\ gfxPc = "vblank"
    /\ gfxViQ # << >>
    /\ gfxViQ' = Tail(gfxViQ)
    /\ gfxPc' \in {"vblank", "submit"}
    /\ UNCHANGED <<mainQ, taskQ, gfxReplyQ, audioReplyQ, audioViQ,
                   mainVars, viVars, inFlight, audioVars>>

GfxWake ==
    /\ gfxPc = "vblank"
    /\ gfxViQ # << >>
    /\ gfxViQ' = Tail(gfxViQ)
    /\ \/ gfxPc' = "vblank"
       \/ gfxPc' = IF inFlight THEN "reply" ELSE "submit"
    /\ UNCHANGED <<mainQ, taskQ, gfxReplyQ, audioReplyQ, audioViQ,
                   mainVars, viVars, inFlight, audioVars>>

(* Variant: the flag stays set after the answer.                           *)
GfxWaitKeepsFlag ==
    /\ gfxPc = "reply"
    /\ gfxReplyQ # << >>
    /\ gfxReplyQ' = Tail(gfxReplyQ)
    /\ gfxPc' \in {"submit", "vblank"}
    /\ UNCHANGED <<mainQ, taskQ, audioReplyQ, gfxViQ, audioViQ,
                   mainVars, viVars, inFlight, audioVars>>

(* Graphics_WaitForTask.                                                   *)
GfxWaitForTask ==
    /\ gfxPc = "reply"
    /\ gfxReplyQ # << >>
    /\ gfxReplyQ' = Tail(gfxReplyQ)
    /\ inFlight' = FALSE
    /\ gfxPc' \in {"submit", "vblank"}
    /\ UNCHANGED <<mainQ, taskQ, audioReplyQ, gfxViQ, audioViQ,
                   mainVars, viVars, audioVars>>

(* Graphics_SubmitTask: a blocking send, then TASK_READY without blocking. *)
GfxSubmit ==
    /\ gfxPc = "submit"
    /\ HasRoom(taskQ, TaskCap)
    /\ \E t \in GfxTasks : taskQ' = Append(taskQ, t)
    /\ inFlight' = TRUE
    /\ gfxPc' = IF GuBackend THEN "notify" ELSE "vblank"
    /\ UNCHANGED <<mainQ, gfxReplyQ, audioReplyQ, gfxViQ, audioViQ,
                   mainVars, viVars, audioVars>>

GfxNotify ==
    /\ gfxPc = "notify"
    /\ mainQ' = SendNoBlock(mainQ, MainCap, "TASK_READY")
    /\ gfxPc' = "vblank"
    /\ UNCHANGED <<taskQ, gfxReplyQ, audioReplyQ, gfxViQ, audioViQ,
                   mainVars, viVars, inFlight, audioVars>>
-----------------------------------------------------------------------------
(* The audio thread of the build without PSP_AUDIO (Audio_ThreadEntry):    *)
(* build the other task of the pair, submit it, wait for a VI.  The first  *)
(* task is submitted without waiting.  AudioThread_CreateTask may return   *)
(* no task: during a reset, and every second time with two buffers.        *)

AudioBuild ==
    /\ audioPc \in {"first", "build"}
    /\ \/ /\ \E t \in AudioTasks :
               /\ t # audioTask \/ AudioTasks = {t}
               /\ audioTask' = t
          /\ audioPc' = IF audioPc = "first" THEN "firstSend" ELSE "send"
       \/ /\ UNCHANGED audioTask
          /\ audioPc' = IF audioPc = "first" THEN "build" ELSE "vi"
    /\ audioReplyQ' = IF audioPc = "first" THEN audioReplyQ
                                           ELSE Discard(audioReplyQ)
    /\ UNCHANGED <<mainQ, taskQ, gfxReplyQ, gfxViQ, audioViQ,
                   mainVars, viVars, gfxVars>>

AudioSend ==
    /\ audioPc \in {"firstSend", "send"}
    /\ HasRoom(taskQ, TaskCap)
    /\ taskQ' = Append(taskQ, audioTask)
    /\ audioPc' = IF audioPc = "firstSend" THEN "build" ELSE "vi"
    /\ UNCHANGED <<mainQ, gfxReplyQ, audioReplyQ, gfxViQ, audioViQ,
                   mainVars, viVars, gfxVars, audioTask>>

AudioWaitVI ==
    /\ audioPc = "vi"
    /\ audioViQ # << >>
    /\ audioViQ' = Tail(audioViQ)
    /\ audioPc' = "build"
    /\ UNCHANGED <<mainQ, taskQ, gfxReplyQ, audioReplyQ, gfxViQ,
                   mainVars, viVars, gfxVars, audioTask>>
-----------------------------------------------------------------------------
ViThread == ViLatch \/ ViSend

MainThread ==
    \/ MainReceive
    \/ HandleVI \/ HandleTaskReady \/ HandleRSP \/ HandleRDP
    \/ AdmitHead \/ DrainOne \/ DrainDone
    \/ StartAudio \/ InterruptGfx \/ StartGfx \/ StartNothing
    \/ PostSP \/ PostDP

GraphicsThread == GfxWake \/ GfxWaitForTask \/ GfxSubmit \/ GfxNotify

AudioThread == AudioBuild \/ AudioSend \/ AudioWaitVI

Next == ViThread \/ MainThread \/ GraphicsThread \/ AudioThread

Spec == Init /\ [][Next]_vars

(* The display interrupts for ever and the kernel runs every ready thread. *)
Fairness ==
    /\ WF_vars(ViThread)
    /\ WF_vars(MainThread)
    /\ WF_vars(GraphicsThread)
    /\ WF_vars(AudioThread)

FairSpec == Spec /\ Fairness
-----------------------------------------------------------------------------
(* Properties.                                                             *)

(* Where a submitted task can be: the submission queue, the pending FIFO   *)
(* and the active slots.                                                   *)
Held == taskQ \o pending \o gfxSlots \o audioSlots

TypeOK ==
    /\ mainQ \in Queue(Events, MainCap)
    /\ taskQ \in Queue(Task, TaskCap)
    /\ gfxReplyQ \in Queue({"MESG_2"}, GfxReplyCap)
    /\ audioReplyQ \in Queue({"MESG_1"}, AudioReplyCap)
    /\ gfxViQ \in Queue({"VI"}, GfxViCap)
    /\ audioViQ \in Queue({"VI"}, AudioViCap)
    /\ viPending \in BOOLEAN /\ viPc \in {"idle", "send"}
    /\ mainPc \in {"recv", "handle", "admit", "start", "run", "postDP"}
    /\ mainMsg \in Events
    /\ pending \in Queue(Task, PendingCap)
    /\ gfxSlots \in Queue(GfxTasks, GfxSlots)
    /\ audioSlots \in Queue(AudioTasks, AudioSlots)
    /\ current \in Task \union {NULL}
    /\ state \in [Task -> States]
    /\ gfxPc \in {"vblank", "reply", "submit", "notify"}
    /\ inFlight \in BOOLEAN
    /\ audioPc \in {"off", "first", "firstSend", "build", "send", "vi"}
    /\ IF audioPc = "off" THEN audioTask = NULL ELSE audioTask \in AudioTasks

(* Every event is posted without blocking and its failure is ignored (an   *)
(* SP or DP lost this way would leave a task current, or the graphics      *)
(* thread waiting, for ever), so a post must always find room.             *)
NoEventDropped ==
    \/ mainPc \in {"run", "postDP"}
    \/ viPc = "send"
    \/ gfxPc = "notify"
    => HasRoom(mainQ, MainCap)

(* A graphics task is never in two places of the scheduler at once, nor    *)
(* twice in one: a resubmission of a task still held would run it twice.   *)
(* (The audio thread takes its pair of tasks in turn without waiting for   *)
(* their answers, so an audio task may be queued twice.)                   *)
TaskHeldOnce ==
    \A i, j \in 1..Len(Held) :
        Held[i] = Held[j] /\ Held[i] \in GfxTasks => i = j

(* The graphics thread's flag, the task the scheduler holds for it and the *)
(* answer agree: exactly one of task and answer while in flight, neither   *)
(* otherwise.  So Graphics_WaitForTask consumes the answer of its own task *)
(* and never a stale one, and an answer always fits in its queue.          *)
HasGfx(q) == \E i \in 1..Len(q) : q[i] \in GfxTasks

GfxHeld == HasGfx(taskQ) \/ HasGfx(pending) \/ gfxSlots # << >>

AnswerMatchesTask ==
    /\ inFlight => (GfxHeld <=> gfxReplyQ = << >>)
    /\ ~inFlight => ~GfxHeld /\ gfxReplyQ = << >>
    /\ Len(gfxReplyQ) <= 1

(* A graphics task is started only from NOT_STARTED: never a second time   *)
(* between its SP and its DP, nor while it is current, whatever audio      *)
(* tasks and VI events come in between.                                    *)
StartedOncePerSubmission ==
    [][current' # current /\ current' \in GfxTasks
        => state[current'] = "NOT_STARTED"]_vars

(* A submitted graphics task is answered.  (Not so where audio tasks are   *)
(* submitted faster than they run: audio goes first.)                      *)
GfxTaskAnswered == GfxHeld /\ audioPc = "off" ~> gfxReplyQ # << >>
=============================================================================
