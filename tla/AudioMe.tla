------------------------------- MODULE AudioMe -------------------------------
(***************************************************************************)
(* Mixing sound on the Media Engine: AudioThread_CreateTask on the main    *)
(* processor (CPU) and meLibOnProcess on the Media Engine (ME), the two    *)
(* sides of audio_me.c, which share a state word and the mixer state       *)
(* through caches that are not coherent.                                   *)
(*                                                                         *)
(* The CPU mixes by itself when the player asks for it (SYNC), when the ME *)
(* is not available, and when the ME has raised a fault.  A block of the   *)
(* output ring is reserved for every list of commands; with ASYNC it is    *)
(* committed one frame later.                                              *)
(*                                                                         *)
(* The completion semaphore only shortens a wait that has a timeout and    *)
(* looks at the state word again; it is left out.  Timeouts may come at    *)
(* any time.  The build is the shipped one: PSP_VME = 0.  The calls of     *)
(* AudioThread_CreateTask that have no buffer to begin (each second one)   *)
(* return at once and are left out.                                        *)
(***************************************************************************)
EXTENDS Integers

VARIABLES
    pc,                 (* where the audio thread is                         *)
    audioMode,          (* its local                                         *)
    sRequestedAudio,    (* what the menu asks for                            *)
    sActiveAudio,
    sMeState,           (* the state word                                    *)
    sMeResult,
    sMeInvalidateMixer,
    sInitialized, sMixerOnMe, sPending, sLastError,
    mePc,               (* where the ME is                                   *)
    interrupt,          (* an interrupt the ME has not taken yet             *)
    block,              (* the block of the output ring: reserved or free    *)
    filled,             (* what it holds                                     *)
    sPendingOutput,     (* it is to be committed by the next task            *)
    mixer               (* the mixer state in memory and in the caches       *)

modeVars == <<audioMode, sRequestedAudio, sActiveAudio>>
wordVars == <<sMeState, sMeResult, sMeInvalidateMixer>>
ownVars == <<sInitialized, sMixerOnMe, sPending, sLastError>>
meVars == <<mePc, interrupt>>
outVars == <<block, filled, sPendingOutput>>
vars == <<pc, modeVars, wordVars, ownVars, meVars, outVars, mixer>>

Modes == {"OFF", "SYNC", "ASYNC"}
MixerFailed == -3
-----------------------------------------------------------------------------
(* The mixer state has copies in memory ("ram") and in the caches that     *)
(* hold it; a dirty one is not in memory.  newest: the copies that are up  *)
(* to date.                                                                *)

Mixers == [cached : SUBSET {"cpu", "me"}, dirty : SUBSET {"cpu", "me"},
           newest : SUBSET {"cpu", "me", "ram"}]

WroteBack(m, p) ==
    IF p \in m.dirty
      THEN [m EXCEPT !.dirty = @ \ {p},
                     !.newest = IF p \in @ THEN @ \union {"ram"}
                                           ELSE @ \ {"ram"}]
      ELSE m

Invalidated(m, p) ==
    [m EXCEPT !.cached = @ \ {p}, !.dirty = @ \ {p}, !.newest = @ \ {p}]

Mixed(m, p) ==
    [cached |-> m.cached \union {p}, dirty |-> m.dirty \union {p},
     newest |-> {p}]

(* What p reads is up to date.                                             *)
Fresh(p) ==
    IF p \in mixer.cached THEN p \in mixer.newest ELSE "ram" \in mixer.newest

(* A cache may drop its copy at any time, and then writes a dirty one to   *)
(* memory.  A halted ME does nothing.                                      *)
Evict ==
    /\ \E p \in mixer.cached :
          /\ p = "me" => mePc # "halted"
          /\ mixer' = Invalidated(WroteBack(mixer, p), p)
    /\ UNCHANGED <<pc, modeVars, wordVars, ownVars, meVars, outVars>>
-----------------------------------------------------------------------------
(* PspAudioMe_Boot has started the ME, which waits for another state.      *)
Init ==
    /\ pc = "init"
    /\ audioMode = "ASYNC" /\ sActiveAudio = "OFF" /\ sRequestedAudio \in Modes
    /\ sMeState = "BOOTING" /\ sMeResult = 0 /\ sMeInvalidateMixer = FALSE
    /\ sInitialized = FALSE /\ sMixerOnMe = FALSE /\ sPending = FALSE
    /\ sLastError = 0
    /\ mePc = "booting" /\ interrupt = FALSE
    /\ block = "free" /\ filled = "nothing" /\ sPendingOutput = FALSE
    /\ mixer = [cached |-> {"cpu", "me"}, dirty |-> {"cpu"},
                newest |-> {"cpu"}]

(* PspAudioMe_Init.                                                        *)
BootFails ==
    /\ pc = "init" /\ pc' = "begin"
    /\ mePc' = "halted" /\ sLastError' = -1
    /\ UNCHANGED <<modeVars, wordVars, sInitialized, sMixerOnMe, sPending,
                   interrupt, outVars, mixer>>

InitStart ==
    /\ pc = "init" /\ pc' = "starting"
    /\ mixer' = WroteBack(mixer, "cpu")
    /\ sMeState' = "IDLE"
    /\ UNCHANGED <<modeVars, sMeResult, sMeInvalidateMixer, ownVars, meVars,
                   outVars>>

InitReady ==
    /\ pc = "starting" /\ mePc # "booting" /\ pc' = "begin"
    /\ sInitialized' = TRUE
    /\ UNCHANGED <<modeVars, wordVars, sMixerOnMe, sPending, sLastError,
                   meVars, outVars, mixer>>

InitTimeout ==
    /\ pc = "starting" /\ mePc = "booting" /\ pc' = "begin"
    /\ sMeState' = "STOP" /\ sLastError' = -1
    /\ UNCHANGED <<modeVars, sMeResult, sMeInvalidateMixer, sInitialized,
                   sMixerOnMe, sPending, meVars, outVars, mixer>>
-----------------------------------------------------------------------------
(* AudioThread_CreateTask.  A task that is not created is tried again      *)
(* after the next VI.                                                      *)
(* Variant: the mode is acknowledged when it is read.                      *)
BeginAcknowledging ==
    /\ pc = "begin" /\ pc' = IF sPending THEN "waiting" ELSE "own"
    /\ audioMode' = sRequestedAudio /\ sActiveAudio' = sRequestedAudio
    /\ UNCHANGED <<sRequestedAudio, wordVars, ownVars, meVars, outVars, mixer>>

Begin ==
    /\ pc = "begin" /\ pc' = IF sPending THEN "waiting" ELSE "own"
    /\ audioMode' = sRequestedAudio
    /\ UNCHANGED <<sRequestedAudio, sActiveAudio, wordVars, ownVars, meVars,
                   outVars, mixer>>

(* psp_audio_me_wait: for the ME, then for the interrupt to stop it.       *)
WaitEnds ==
    /\ pc \in {"waiting", "interrupting"} /\ sMeState # "RUN"
    /\ pc' = "outcome"
    /\ UNCHANGED <<modeVars, wordVars, ownVars, meVars, outVars, mixer>>

TimeOut ==
    /\ pc = "waiting" /\ sMeState = "RUN" /\ pc' = "late"
    /\ UNCHANGED <<modeVars, wordVars, ownVars, meVars, outVars, mixer>>

EmitInterrupt ==
    /\ pc = "late" /\ pc' = "interrupting"
    /\ interrupt' = TRUE
    /\ UNCHANGED <<modeVars, wordVars, ownVars, mePc, outVars, mixer>>

InterruptTimeOut ==
    /\ pc = "interrupting" /\ sMeState = "RUN" /\ pc' = "outcome"
    /\ UNCHANGED <<modeVars, wordVars, ownVars, meVars, outVars, mixer>>

(* The state word is looked at again; it may have changed.                 *)
Done ==
    /\ pc = "outcome" /\ sMeState = "IDLE" /\ pc' = "own"
    /\ sPending' = FALSE
    /\ sLastError' = sMeResult
    /\ sInitialized' = (sInitialized /\ sMeResult >= 0)
    /\ mixer' = IF sMeResult < 0 THEN Invalidated(mixer, "cpu") ELSE mixer
    /\ UNCHANGED <<modeVars, wordVars, sMixerOnMe, meVars, outVars>>

NotDone ==
    /\ pc = "outcome" /\ sMeState # "IDLE" /\ pc' = "failed"
    /\ UNCHANGED <<modeVars, wordVars, ownVars, meVars, outVars, mixer>>

(* After a fault the CPU mixes the list again ...                          *)
Recover ==
    /\ pc = "failed" /\ sMeState = "FAULT" /\ pc' = "remix"
    /\ mixer' = Invalidated(WroteBack(mixer, "cpu"), "cpu")
    /\ sMixerOnMe' = FALSE
    /\ UNCHANGED <<modeVars, wordVars, sInitialized, sPending, sLastError,
                   meVars, outVars>>

(* ... and while the ME may still be running it keeps away from it.  In a  *)
(* variant that is no error.                                               *)
GiveUpQuietly ==
    /\ pc = "failed" /\ sMeState # "FAULT" /\ pc' = "own"
    /\ sInitialized' = FALSE /\ sPending' = FALSE
    /\ UNCHANGED <<modeVars, wordVars, sMixerOnMe, sLastError, meVars,
                   outVars, mixer>>

GiveUp ==
    /\ pc = "failed" /\ sMeState # "FAULT" /\ pc' = "own"
    /\ sLastError' = -2
    /\ sInitialized' = FALSE /\ sPending' = FALSE
    /\ UNCHANGED <<modeVars, wordVars, sMixerOnMe, meVars, outVars, mixer>>
-----------------------------------------------------------------------------
(* PspAudioMe_SetAsync changes the owner of the mixer.  It does so unless  *)
(* the ME may be running; in variants always, or only when the ME is idle. *)
FallbackAlways == TRUE
FallbackWhenIdle == sMeState = "IDLE"
FallbackSafe == sMeState # "RUN"

SetAsync(enabled) ==
    IF enabled /\ sInitialized /\ ~sMixerOnMe
      THEN /\ mixer' = WroteBack(mixer, "cpu")
           /\ sMeInvalidateMixer' = TRUE /\ sMixerOnMe' = TRUE
      ELSE /\ UNCHANGED sMeInvalidateMixer
           /\ IF ~enabled /\ sMixerOnMe
                THEN mixer' = Invalidated(mixer, "cpu") /\ sMixerOnMe' = FALSE
                ELSE UNCHANGED <<mixer, sMixerOnMe>>

MeStillRunning ==
    /\ pc = "own" /\ ~FallbackSafe /\ pc' = "begin"
    /\ UNCHANGED <<modeVars, wordVars, ownVars, meVars, outVars, mixer>>

(* Variant: the state word is not looked at.                               *)
TakeOverUnchecked ==
    /\ pc = "own" /\ pc' = "settle"
    /\ SetAsync(audioMode = "ASYNC")
    /\ UNCHANGED <<modeVars, sMeState, sMeResult, sInitialized, sPending,
                   sLastError, meVars, outVars>>

TakeOver ==
    /\ pc = "own" /\ FallbackSafe /\ pc' = "settle"
    /\ SetAsync(audioMode = "ASYNC")
    /\ UNCHANGED <<modeVars, sMeState, sMeResult, sInitialized, sPending,
                   sLastError, meVars, outVars>>

(* The block of the list before is committed, silenced after an error;     *)
(* then the mode is in force.                                              *)
Settle ==
    /\ pc = "settle" /\ pc' = "build"
    /\ sActiveAudio' = audioMode
    /\ IF sPendingOutput
         THEN /\ filled' = IF sLastError < 0 THEN "silence" ELSE filled
              /\ block' = "free" /\ sPendingOutput' = FALSE
         ELSE UNCHANGED outVars
    /\ UNCHANGED <<audioMode, sRequestedAudio, wordVars, ownVars, meVars,
                   mixer>>

(* The audio heap is being reset: no task this time.                       *)
NoTask ==
    /\ pc = "build" /\ pc' = "begin"
    /\ UNCHANGED <<modeVars, wordVars, ownVars, meVars, outVars, mixer>>

(* With sound off, commands are processed and nothing is mixed.            *)
BuildSilent ==
    /\ pc = "build" /\ audioMode = "OFF" /\ pc' = "begin"
    /\ UNCHANGED <<modeVars, wordVars, ownVars, meVars, outVars, mixer>>

(* A block is reserved and a list built for it, which may be empty.        *)
Build ==
    /\ pc = "build" /\ audioMode # "OFF"
    /\ block' = "reserved"
    /\ \/ pc' = "play" /\ filled' = "silence"
       \/ /\ pc' = IF audioMode = "ASYNC" THEN "submit" ELSE "sync"
          /\ filled' = "nothing"
    /\ UNCHANGED <<modeVars, wordVars, ownVars, meVars, sPendingOutput, mixer>>

(* PspAudioMe_Submit: the CPU mixes the list if the ME cannot ...          *)
Unavailable == ~sInitialized \/ sMeState # "IDLE"

SubmitToCpu ==
    /\ pc = "submit" /\ Unavailable
    /\ IF FallbackSafe
         THEN /\ SetAsync(FALSE) /\ pc' = "fallback"
              /\ UNCHANGED <<sLastError, sPendingOutput>>
         ELSE /\ sLastError' = -2 /\ sPendingOutput' = TRUE /\ pc' = "begin"
              /\ UNCHANGED <<sMeInvalidateMixer, sMixerOnMe, mixer>>
    /\ UNCHANGED <<modeVars, sMeState, sMeResult, sInitialized, sPending,
                   meVars, block, filled>>

SubmitToMe ==
    /\ pc = "submit" /\ ~Unavailable
    /\ pc' = "launch"
    /\ UNCHANGED <<modeVars, wordVars, ownVars, meVars, outVars, mixer>>

(* ... and the state word is stored after the caches were written back.    *)
Launch ==
    /\ pc = "launch" /\ pc' = "begin"
    /\ sMeResult' = 0 /\ sMeState' = "RUN"
    /\ sPending' = TRUE /\ sPendingOutput' = TRUE
    /\ UNCHANGED <<modeVars, sMeInvalidateMixer, sInitialized, sMixerOnMe,
                   sLastError, meVars, block, filled, mixer>>

(* PspAudioMixer_ExecuteCommandList on the CPU, for each of its callers.   *)
CpuMixes(r) ==
    /\ mixer' = Mixed(mixer, "cpu")
    /\ filled' = IF r < 0 THEN "nothing" ELSE "sound"

Remix ==
    /\ pc = "remix" /\ pc' = "own"
    /\ \E r \in {0, MixerFailed} : CpuMixes(r) /\ sLastError' = r
    /\ sInitialized' = FALSE /\ sPending' = FALSE
    /\ UNCHANGED <<modeVars, wordVars, sMixerOnMe, meVars, block,
                   sPendingOutput>>

MixFallback ==
    /\ pc = "fallback" /\ pc' = "begin"
    /\ \E r \in {0, MixerFailed} : CpuMixes(r) /\ sLastError' = r
    /\ sPendingOutput' = TRUE
    /\ UNCHANGED <<modeVars, wordVars, sInitialized, sMixerOnMe, sPending,
                   meVars, block>>

MixSync ==
    /\ pc = "sync" /\ pc' = "play"
    /\ mixer' = Mixed(mixer, "cpu")
    /\ filled' \in {"sound", "silence"}
    /\ UNCHANGED <<modeVars, wordVars, ownVars, meVars, block,
                   sPendingOutput>>

Play ==
    /\ pc = "play" /\ pc' = "begin"
    /\ block' = "free"
    /\ UNCHANGED <<modeVars, wordVars, ownVars, meVars, filled,
                   sPendingOutput, mixer>>
-----------------------------------------------------------------------------
(* The Media Engine: meLibOnProcess.                                       *)
MeReady ==
    /\ mePc = "booting" /\ sMeState # "BOOTING" /\ mePc' = "idle"
    /\ mixer' = Invalidated(mixer, "me")
    /\ UNCHANGED <<pc, modeVars, wordVars, ownVars, interrupt, outVars>>

(* Variant: the ME mixes with what its cache has.                          *)
MeStartCached ==
    /\ mePc = "idle" /\ sMeState = "RUN" /\ mePc' = "mixing"
    /\ sMeInvalidateMixer' = FALSE
    /\ UNCHANGED <<pc, modeVars, sMeState, sMeResult, ownVars, interrupt,
                   outVars, mixer>>

MeStart ==
    /\ mePc = "idle" /\ sMeState = "RUN" /\ mePc' = "mixing"
    /\ mixer' = IF sMeInvalidateMixer THEN Invalidated(mixer, "me") ELSE mixer
    /\ sMeInvalidateMixer' = FALSE
    /\ UNCHANGED <<pc, modeVars, sMeState, sMeResult, ownVars, interrupt,
                   outVars>>

MeFinish ==
    /\ mePc = "mixing" /\ mePc' = "idle"
    /\ mixer' = WroteBack(Mixed(mixer, "me"), "me")
    /\ sMeResult' \in {0, MixerFailed}
    /\ filled' = IF sMeResult' < 0 THEN "nothing" ELSE "sound"
    /\ sMeState' = "IDLE"
    /\ UNCHANGED <<pc, modeVars, sMeInvalidateMixer, ownVars, interrupt,
                   block, sPendingOutput>>

MeStop ==
    /\ mePc = "idle" /\ sMeState = "STOP"
    /\ mePc' = "halted" /\ sMeState' = "HALTED"
    /\ UNCHANGED <<pc, modeVars, sMeResult, sMeInvalidateMixer, ownVars,
                   interrupt, outVars, mixer>>

(* meLibOnException, meLibOnExternalInterrupt.  The mixer state is then    *)
(* what memory holds; that part of it may be newer is left out.            *)
MeFault ==
    /\ mePc = "mixing"
    /\ mePc' = "halted" /\ sMeState' = "FAULT"
    /\ UNCHANGED <<pc, modeVars, sMeResult, sMeInvalidateMixer, ownVars,
                   interrupt, outVars, mixer>>

MeInterrupted ==
    /\ interrupt /\ mePc \in {"idle", "mixing"}
    /\ interrupt' = FALSE
    /\ mePc' = "halted" /\ sMeState' = "FAULT"
    /\ UNCHANGED <<pc, modeVars, sMeResult, sMeInvalidateMixer, ownVars,
                   outVars, mixer>>
-----------------------------------------------------------------------------
(* PspAudioMode_Request, by the menu.                                      *)
Request ==
    /\ \E mode \in Modes \ {sRequestedAudio} : sRequestedAudio' = mode
    /\ UNCHANGED <<pc, audioMode, sActiveAudio, wordVars, ownVars, meVars,
                   outVars, mixer>>

Wait == WaitEnds \/ TimeOut \/ EmitInterrupt \/ InterruptTimeOut
Judge == Done \/ NotDone \/ Recover \/ GiveUp
Submit == SubmitToCpu \/ SubmitToMe \/ Launch

CreateTask ==
    \/ Begin \/ Wait \/ Judge \/ MeStillRunning \/ TakeOver \/ Settle
    \/ NoTask \/ BuildSilent \/ Build \/ Submit
    \/ Remix \/ MixFallback \/ MixSync \/ Play

Initialize == BootFails \/ InitStart \/ InitReady \/ InitTimeout

MediaEngine == MeReady \/ MeStart \/ MeFinish \/ MeStop \/ MeFault

Next == Initialize \/ CreateTask \/ MediaEngine \/ MeInterrupted
            \/ Evict \/ Request

Spec == Init /\ [][Next]_vars

(* Both processors run, a list ends on the ME, and an interrupt is taken.  *)
Fairness ==
    /\ WF_vars(Initialize \/ CreateTask)
    /\ WF_vars(MediaEngine) /\ WF_vars(MeInterrupted)

FairSpec == Spec /\ Fairness
-----------------------------------------------------------------------------
Flags ==
    /\ sMeInvalidateMixer \in BOOLEAN /\ sInitialized \in BOOLEAN
    /\ sMixerOnMe \in BOOLEAN /\ sPending \in BOOLEAN
    /\ interrupt \in BOOLEAN /\ sPendingOutput \in BOOLEAN

TypeOK ==
    /\ pc \in {"init", "starting", "begin", "waiting", "late", "interrupting",
               "outcome", "failed", "remix", "own", "settle", "build",
               "submit", "launch", "fallback", "sync", "play"}
    /\ audioMode \in Modes /\ sRequestedAudio \in Modes /\ sActiveAudio \in Modes
    /\ sMeState \in {"BOOTING", "IDLE", "RUN", "FAULT", "STOP", "HALTED"}
    /\ sMeResult \in {0, MixerFailed} /\ sLastError \in {0, -1, -2, MixerFailed}
    /\ Flags
    /\ mePc \in {"booting", "idle", "mixing", "halted"}
    /\ block \in {"free", "reserved"}
    /\ filled \in {"nothing", "sound", "silence"}
    /\ mixer \in Mixers
    /\ mixer.dirty \subseteq mixer.cached
    /\ sPendingOutput => block = "reserved"

CpuMixing == pc \in {"remix", "fallback", "sync"}

(* The two processors never mix at the same time, whatever the ME does     *)
(* late: not after a timeout, an interrupt or a change of mode.            *)
MixersExclude == ~(CpuMixing /\ mePc = "mixing")

(* Whoever mixes reads the mixer state the last list left, although each   *)
(* keeps it in a cache of its own.                                         *)
MixesNewestState ==
    /\ CpuMixing => Fresh("cpu")
    /\ mePc = "mixing" => Fresh("me")

(* The ring never gets a block the ME still writes, nor hands it out again.*)
BlockLeftToMe == [][mePc = "mixing" => UNCHANGED block]_vars

(* What is played was mixed without an error, or is silence: a late or     *)
(* failed list never puts the remains of an old block into the output.     *)
PlaysSoundOrSilence ==
    [][block = "reserved" /\ block' = "free"
        => filled' \in {"sound", "silence"}]_vars

(* A mode is reported to be active only after the handover it needs: with  *)
(* sound off or mixed by the CPU, the ME has nothing to do.                *)
HandoverComplete ==
    sActiveAudio # "ASYNC" => mePc # "mixing" /\ ~sPending

(* Sound goes on after every fault, error and timeout, unless it is turned *)
(* off or the audio heap is reset over and over: blocks keep being played. *)
(* The one exception is an interrupt so late that the ME is halted between *)
(* the test of the state word in PspAudioMe_Submit and its store.          *)
HaltedUnseen == mePc = "halted" /\ sMeState = "RUN"

SoundGoesOn ==
    \/ <>HaltedUnseen
    \/ []<><<block = "reserved" /\ block' = "free">>_vars
    \/ []<>(audioMode = "OFF")
    \/ []<><<NoTask>>_vars
=============================================================================
