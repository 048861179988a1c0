---------------------------- MODULE AudioCommands ----------------------------
(***************************************************************************)
(* The commands of the game to the audio thread (audio/audio_thread.c) and *)
(* the change of the audio specification that runs through the same ring   *)
(* (audio/audio_general.c, audio_heap.c).  The game queues commands in the *)
(* ring during a frame and ends the frame with a message that names their  *)
(* range; the audio thread executes the ranges, in its own frames, up to a *)
(* STOP command, behind which it continues with the next message.  A       *)
(* change of specification sends its id, fades out and answers, and puts a *)
(* STOP into the ring to hold back what comes after it.                    *)
(*   Two threads: Game is Audio_Update on the graphics thread, Audio is    *)
(* AudioThread_CreateTask.  Positions are of a byte in the code: RingSize  *)
(* is 256 there.  Command ids count up; what a command does is left out.   *)
(* The fade of every step of a reset takes any number of frames.           *)
(***************************************************************************)
EXTENDS MesgQueue

CONSTANTS
    RingSize,      (* slots of gThreadCmdBuffer                              *)
    Messages,      (* slots of gThreadCmdProcQueue                           *)
    RestartStops,  (* STOP commands after the restart; 3 in the code         *)
    MaxCommands,   (* bound: none is queued by other code after this many    *)
    MaxChanges,    (* bound: changes of the specification                    *)
    Specs,         (* ids of audio specifications                            *)
    AUDIOSPEC_CO,  (* the specification at the start                         *)
    AUDIOSPEC_VS,  (* that of the versus mode                                *)
    Titles         (* AUDIOSPEC_OPENING and AUDIOSPEC_TITLE                  *)

ASSUME RingAssumption == RingSize \in Nat \ {0, 1} /\ Messages \in Nat \ {0}
ASSUME CommandAssumption ==
    RestartStops \in Nat /\ MaxCommands \in Nat /\ MaxChanges \in Nat
ASSUME SpecAssumption == AUDIOSPEC_CO \in Specs

VARIABLES
    ring,          (* gThreadCmdBuffer: the command in each slot             *)
    write, read,   (* gThreadCmdWritePos, gThreadCmdReadPos                  *)
    messages,      (* gThreadCmdProcQueue: pairs of read and write position  *)
    specQueue,     (* gAudioSpecQueue, of one slot                           *)
    resetQueue,    (* gAudioResetQueue, of one slot                          *)
    gameSpec,      (* sAudioSpecId                                           *)
    oldSpec,       (* oldSpecId, of the last change                          *)
    status,        (* sAudioResetStatus: "ready", or BLOCK or WAIT as "wait" *)
    game,          (* where the graphics thread is in Audio_Update           *)
    stops,         (* STOP commands Audio_RestartSeqPlayers has yet to queue *)
    cur, finished, (* gCurCmdReadPos, gThreadCmdQueueFinished                *)
    upto,          (* writePos of the message being processed                *)
    resetStep,     (* gAudioResetStep                                        *)
    audioSpec,     (* gAudioSpecId                                           *)
    audio          (* where the audio thread is in CreateTask                *)

VARIABLES          (* history: what the properties speak about               *)
    lastId,        (* id of the newest command                               *)
    barriers,      (* spec changes whose STOP is in the ring                 *)
    changes,       (* spec changes started                                   *)
    resets,        (* resets the audio thread completed                      *)
    due,           (* ids of commands in accepted messages, not yet executed *)
    ran,           (* the last command executed                              *)
    overrun,       (* the ring was filled up to a position not yet executed  *)
    overtaken      (* a spec change began before the one before was answered *)

gameVars == <<write, read, gameSpec, oldSpec, status, game, stops>>
audioVars == <<cur, finished, upto, audio, resetStep, audioSpec, resets, ran>>
tally == <<lastId, barriers, changes, overrun, overtaken>>
commandVars == <<ring, messages, specQueue, resetQueue, gameVars, audioVars, tally, due>>

NoCommand == [kind |-> "none", id |-> 0, after |-> 0]
Ring == 0..RingSize - 1
Following(p) == (p + 1) % RingSize

CommandsInit ==
    /\ ring = [p \in Ring |-> NoCommand] /\ write = 0 /\ read = 0
    /\ messages = << >> /\ specQueue = << >> /\ resetQueue = << >>
    /\ gameSpec = AUDIOSPEC_CO /\ oldSpec = gameSpec /\ audioSpec = gameSpec
    /\ status = "ready" /\ game = "idle" /\ stops = 0
    /\ cur = 0 /\ finished = FALSE /\ upto = 0 /\ resetStep = 0 /\ audio = "head"
    /\ lastId = 0 /\ barriers = 0 /\ changes = 0 /\ resets = 0
    /\ due = {} /\ ran = NoCommand /\ overrun = FALSE /\ overtaken = FALSE
-----------------------------------------------------------------------------
(* Where the audio thread goes on in the ring.                             *)
Position ==
    IF finished \/ audio = "batch" THEN cur
    ELSE IF messages # << >> THEN Head(messages)[1] ELSE read

(* AudioThread_QueueCmd: the slot is written even when the ring is full,   *)
(* and full means up to the last message, whatever is yet to be executed.  *)
QueueCmd(kind) ==
    /\ lastId' = lastId + 1
    /\ ring' = [ring EXCEPT
          ![write] = [kind |-> kind, id |-> lastId', after |-> barriers]]
    /\ write' = IF Following(write) = read THEN write ELSE Following(write)
    /\ overrun' = (overrun \/ (Following(write) = Position /\ write' # write))

(* The slots of a range, without its end.                                  *)
Behind(p, from) == (p + RingSize - from) % RingSize
SlotsFrom(from, to) == {p \in Ring : Behind(p, from) < Behind(to, from)}

(* Variant: no message when there is nothing new to execute.               *)
ScheduleWhenNew ==
    /\ messages' = IF read = write THEN messages
                   ELSE SendNoBlock(messages, Messages, <<read, write>>)
    /\ due' = IF HasRoom(messages, Messages)
              THEN due \cup {ring[p].id : p \in SlotsFrom(read, write)} ELSE due
    /\ read' = write

(* AudioThread_ScheduleProcessCmds: the range counts as sent even when the *)
(* queue has no room for its message.                                      *)
Schedule ==
    /\ messages' = SendNoBlock(messages, Messages, <<read, write>>)
    /\ due' = IF HasRoom(messages, Messages)
              THEN due \cup {ring[p].id : p \in SlotsFrom(read, write)} ELSE due
    /\ read' = write

(* The game may queue commands at any time outside of a reset's own steps. *)
Queue1 ==
    /\ game \in {"idle", "update", "restart"} /\ lastId < MaxCommands
    /\ QueueCmd("play")
    /\ UNCHANGED <<messages, specQueue, resetQueue, read, gameSpec, oldSpec,
                   status, game, stops, audioVars, barriers, changes, overtaken,
                   due>>

(* AudioThread_ResetComplete: the message is taken in any case.            *)
ResetComplete == resetQueue # << >> /\ Head(resetQueue) = audioSpec

(* Audio_Update.  A change that blocks polls without end, one that waits   *)
(* polls once a frame.                                                     *)
BeginUpdate ==
    /\ game = "idle"
    /\ IF status = "ready"
       THEN game' = "update" /\ UNCHANGED <<resetQueue, status>>
       ELSE /\ resetQueue # << >> /\ resetQueue' = Discard(resetQueue)
            /\ IF ResetComplete
               THEN status' = "ready" /\ game' = "restart"
               ELSE UNCHANGED <<status, game>>
    /\ UNCHANGED <<ring, messages, specQueue, write, read, gameSpec, oldSpec,
                   stops, audioVars, tally, due>>

(* Audio_RestartSeqPlayers: what it queued so far runs before the STOPs.   *)
RestartSeqPlayers ==
    /\ game = "restart" /\ Schedule /\ stops' = RestartStops /\ game' = "stops"
    /\ UNCHANGED <<ring, specQueue, resetQueue, write, gameSpec, oldSpec, status,
                   audioVars, tally>>

QueueStop ==
    /\ game = "stops" /\ stops > 0 /\ QueueCmd("stop") /\ stops' = stops - 1
    /\ UNCHANGED <<messages, specQueue, resetQueue, read, gameSpec, oldSpec,
                   status, game, audioVars, barriers, changes, overtaken, due>>

Restarted ==
    /\ game = "stops" /\ stops = 0 /\ game' = "update"
    /\ UNCHANGED <<ring, messages, specQueue, resetQueue, write, read, gameSpec,
                   oldSpec, status, stops, audioVars, tally, due>>

(* A change the game waits for.  It goes on without an answer only from    *)
(* the versus mode to anything but the title or the opening.               *)
Awaited(from, to) == from # AUDIOSPEC_VS \/ to \in Titles

(* SEQCMD_OP_RESET_AUDIO_HEAP with another specification: the commands     *)
(* queued since the last message are given up.  The game asks for no       *)
(* change that it would not wait for: a match is left through the title or *)
(* the menu that has its specification (fox_title.c, fox_option.c).        *)
ChangeSpec(s) ==
    /\ game = "update" /\ changes < MaxChanges /\ s # gameSpec
    /\ Awaited(gameSpec, s)
    /\ gameSpec' = s /\ oldSpec' = gameSpec /\ resetQueue' = << >> /\ read' = write
    /\ changes' = changes + 1 /\ overtaken' = (overtaken \/ changes > resets)
    /\ game' = "send"
    /\ UNCHANGED <<ring, messages, specQueue, write, status, stops, audioVars, lastId,
                   barriers, overrun, due>>

SendSpec ==
    /\ game = "send" /\ specQueue' = SendNoBlock(specQueue, 1, gameSpec)
    /\ game' = "reset"
    /\ UNCHANGED <<ring, messages, resetQueue, write, read, gameSpec, oldSpec,
                   status, stops, audioVars, tally, due>>

(* Audio_StartReset; its commands are one here.                            *)
StartReset ==
    /\ game = "reset" /\ QueueCmd("play") /\ game' = "barrier"
    /\ status' = IF Awaited(oldSpec, gameSpec) THEN "wait" ELSE status
    /\ UNCHANGED <<messages, specQueue, resetQueue, read, gameSpec, oldSpec,
                   stops, audioVars, barriers, changes, overtaken, due>>

(* Variant: nothing holds back the commands after the change.              *)
NoBarrier ==
    /\ game = "barrier" /\ barriers' = barriers + 1 /\ game' = "update"
    /\ UNCHANGED <<ring, messages, specQueue, resetQueue, write, read, gameSpec,
                   oldSpec, status, stops, audioVars, lastId, changes, overrun,
                   overtaken, due>>

(* AUDIOCMD_GLOBAL_STOP_AUDIOCMDS at the end of the change.                *)
Barrier ==
    /\ game = "barrier" /\ QueueCmd("stop") /\ barriers' = barriers + 1
    /\ game' = "update"
    /\ UNCHANGED <<messages, specQueue, resetQueue, read, gameSpec, oldSpec,
                   status, stops, audioVars, changes, overtaken, due>>

EndUpdate ==
    /\ game = "update" /\ Schedule /\ game' = "idle"
    /\ UNCHANGED <<ring, specQueue, resetQueue, write, gameSpec, oldSpec, status,
                   stops, audioVars, tally>>

GameUpdate ==
    \/ BeginUpdate \/ RestartSeqPlayers \/ QueueStop \/ Restarted
    \/ SendSpec \/ StartReset \/ Barrier \/ EndUpdate

Game == GameUpdate \/ Queue1 \/ \E s \in Specs : ChangeSpec(s)
-----------------------------------------------------------------------------
(* The reset step after the poll of gAudioSpecQueue.                       *)
Polled == IF specQueue # << >> /\ resetStep = 0 THEN 5 ELSE resetStep

(* Variant: an answer for every frame without a task.                      *)
AnswerEarly(before, step) ==
    resetQueue' = IF before # 0 /\ step < 3
                  THEN SendNoBlock(resetQueue, 1, audioSpec') ELSE resetQueue

(* The answer of a completed reset.                                        *)
Answer(before, step) ==
    resetQueue' = IF before # 0 /\ step = 0
                  THEN SendNoBlock(resetQueue, 1, audioSpec') ELSE resetQueue

(* The head of a frame: the new specification, one step of AudioHeap_      *)
(* ResetStep or one frame of its fade, and no commands in its last steps.  *)
Frame ==
    /\ audio = "head" /\ specQueue' = Discard(specQueue)
    /\ audioSpec' = IF specQueue # << >> THEN Head(specQueue) ELSE audioSpec
    /\ resetStep' \in IF Polled = 0 THEN {0}
                      ELSE IF Polled \in {2, 3, 4} THEN {Polled, Polled - 1}
                      ELSE {Polled - 1}
    /\ Answer(Polled, resetStep')
    /\ resets' = IF Polled # 0 /\ resetStep' = 0 THEN resets + 1 ELSE resets
    /\ audio' = IF Polled # 0 /\ resetStep' < 3 THEN "head" ELSE "process"
    /\ UNCHANGED <<ring, messages, gameVars, cur, finished, upto, ran, tally, due>>

(* Variant: every message starts at the position it names.                 *)
TakeMessageAnew ==
    /\ audio = "process" /\ messages # << >> /\ messages' = Tail(messages)
    /\ cur' = Head(messages)[1]
    /\ upto' = Head(messages)[2] /\ audio' = "batch"
    /\ UNCHANGED <<ring, specQueue, resetQueue, gameVars, finished, resetStep, audioSpec,
                   resets, ran, tally, due>>

(* AudioThread_ProcessCmds begins: behind a STOP it goes on where it was.  *)
TakeMessage ==
    /\ audio = "process" /\ messages # << >> /\ messages' = Tail(messages)
    /\ cur' = IF finished THEN cur ELSE Head(messages)[1]
    /\ upto' = Head(messages)[2] /\ audio' = "batch"
    /\ UNCHANGED <<ring, specQueue, resetQueue, gameVars, finished, resetStep, audioSpec,
                   resets, ran, tally, due>>

EndFrame ==
    /\ audio = "process" /\ messages = << >> /\ audio' = "head"
    /\ UNCHANGED <<ring, messages, specQueue, resetQueue, gameVars, cur, finished, upto,
                   resetStep, audioSpec, resets, ran, tally, due>>

EndBatch ==
    /\ audio = "batch" /\ cur = upto /\ finished' = FALSE /\ audio' = "process"
    /\ UNCHANGED <<ring, messages, specQueue, resetQueue, gameVars, cur, upto, resetStep,
                   audioSpec, resets, ran, tally, due>>

(* A STOP keeps its slot; any other command is cleared from it.            *)
Stop ==
    /\ audio = "batch" /\ cur # upto /\ ring[cur].kind = "stop"
    /\ finished' = TRUE /\ cur' = Following(cur) /\ audio' = "process"
    /\ due' = due \ {ring[cur].id}
    /\ UNCHANGED <<ring, messages, specQueue, resetQueue, gameVars, upto, resetStep,
                   audioSpec, resets, ran, tally>>

Execute ==
    /\ audio = "batch" /\ cur # upto /\ ring[cur].kind # "stop"
    /\ ran' = IF ring[cur].kind = "play" THEN ring[cur] ELSE ran
    /\ due' = due \ {ring[cur].id}
    /\ ring' = [ring EXCEPT ![cur].kind = "none"] /\ cur' = Following(cur)
    /\ UNCHANGED <<messages, specQueue, resetQueue, gameVars, finished, upto, audio,
                   resetStep, audioSpec, resets, tally>>

Audio == Frame \/ TakeMessage \/ EndFrame \/ EndBatch \/ Stop \/ Execute
-----------------------------------------------------------------------------
CommandsNext == Game \/ Audio

CommandsSpec == CommandsInit /\ [][CommandsNext]_commandVars

(* The game calls Audio_Update every tick and the audio thread makes its   *)
(* tasks one after the other.  Of a fade's frames there are finitely many. *)
CommandsFairness ==
    /\ WF_commandVars(GameUpdate) /\ WF_commandVars(Audio)
    /\ \A n \in 2..4 : SF_commandVars(Frame /\ resetStep = n /\ resetStep' = n - 1)

CommandsFairSpec == CommandsSpec /\ CommandsFairness
-----------------------------------------------------------------------------
(* Commands are executed in the order they were queued, and none of those  *)
(* that reached the audio thread is passed over, whatever STOPs, dropped   *)
(* messages and given-up commands lie between them: as long as the ring    *)
(* is never filled up to the position the audio thread has reached.        *)
CommandsInTurn ==
    [][ran' # ran =>
         overrun \/ (ran'.id > ran.id /\ \A id \in due' : id > ran'.id)]_commandVars

(* A command queued behind the STOP of a change of specification is not    *)
(* executed before the audio heap has been laid out anew for every change  *)
(* before it, unless one change overtook another.                          *)
BarrierHolds ==
    [][ran' # ran => overrun \/ overtaken \/ ran'.after <= resets]_commandVars

(* Whenever the game takes a change to be over, the audio thread has the   *)
(* specification the game asked for and is not in the middle of a reset,   *)
(* unless one change overtook another.                                     *)
SpecFollows ==
    status = "ready" /\ game \in {"idle", "update", "restart", "stops"} /\ ~overtaken =>
        audioSpec = gameSpec /\ resetStep = 0

(* Every command that reached the audio thread is executed or stopped at:  *)
(* a STOP holds back what follows it only for a while, also when the game  *)
(* queues no further command.  So a change of specification ends as well,  *)
(* for only its answer lets the commands behind its STOP run.              *)
CommandsRun == []<>(due = {} \/ overrun \/ overtaken)

=============================================================================
