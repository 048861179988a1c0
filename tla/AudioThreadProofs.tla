--------------------------- MODULE AudioThreadProofs ---------------------------
(* What the audio thread keeps towards its two partners.  Towards the Media *)
(* Engine (AudioMe): the mixers exclude each other and read the newest      *)
(* state, and blocks are neither touched while they are mixed nor played    *)
(* before.  Towards the game (AudioCommands): commands run in their turn,   *)
(* behind the changes of specification before them.                         *)
EXTENDS AudioMe, AudioCommands, SequenceTheorems, TLAPS

(* Where the audio thread can be while the ME runs a list ...              *)
Waits == {"begin", "waiting", "late", "interrupting", "outcome", "failed"}

(* ... and where it holds a block that has no list yet.                    *)
HasBlock == {"submit", "launch", "fallback", "sync", "play"}

(* The state word tells the truth about the ME.  While it says RUN, the    *)
(* block is reserved, the mode is ASYNC, and the audio thread waits, or    *)
(* has given up and comes by only to ask again.                            *)
WordInv ==
    /\ mePc = "mixing" => sMeState = "RUN"
    /\ sMeState = "RUN" =>
          /\ pc \in Waits \union {"own"}
          /\ sPendingOutput
          /\ sActiveAudio = "ASYNC" /\ sMixerOnMe
          /\ ~sPending => sLastError < 0

(* A list submitted is waited for before anything else is done.            *)
PendingInv ==
    /\ sPending => /\ pc \in Waits \union {"remix"}
                   /\ sPendingOutput /\ sActiveAudio = "ASYNC"
                   /\ pc # "remix" => sMixerOnMe
    /\ pc \in {"waiting", "late", "interrupting", "outcome", "failed", "remix"}
          => sPending

(* The mode in force is the one the task is built for, and the ME has the  *)
(* mixer only for lists of its own.                                        *)
ModeInv ==
    /\ pc \in {"build"} \union HasBlock => sActiveAudio = audioMode
    /\ pc \in {"submit", "launch", "fallback"} => audioMode = "ASYNC"
    /\ pc = "sync" => audioMode = "SYNC"
    /\ pc \in {"settle", "build"} \union HasBlock =>
          /\ audioMode # "ASYNC" => ~sMixerOnMe
          /\ audioMode = "ASYNC" /\ sInitialized /\ pc # "fallback" => sMixerOnMe
    /\ pc = "launch" => sInitialized
    /\ pc \in {"remix", "fallback"} => ~sMixerOnMe
    /\ pc = "init" \/ pc = "starting" => ~sMixerOnMe /\ ~sInitialized

(* Who holds the block, and what is in it.                                 *)
BlockInv ==
    /\ pc \in HasBlock => block = "reserved" /\ ~sPendingOutput
    /\ pc \in {"build", "init", "starting"} => ~sPendingOutput
    /\ pc = "play" => filled \in {"sound", "silence"}
    /\ sPending /\ sMeState = "IDLE" /\ sMeResult >= 0 => filled = "sound"
    /\ sPendingOutput /\ ~sPending /\ sLastError >= 0 => filled = "sound"

(* Memory is up to date unless the CPU has newer data in its cache.  The   *)
(* CPU's copy is old only while the ME owns the mixer, and the ME's only   *)
(* while the CPU does or the ME has been told to drop it.                  *)
MixerInv ==
    /\ "me" \notin mixer.dirty
    /\ "cpu" \in mixer.dirty => mixer.newest = {"cpu"} /\ ~sMixerOnMe
    /\ "cpu" \notin mixer.dirty => "ram" \in mixer.newest
    /\ ~sMixerOnMe /\ "cpu" \in mixer.cached => "cpu" \in mixer.newest
    /\ sMixerOnMe /\ ~sMeInvalidateMixer /\ "me" \in mixer.cached
          => "me" \in mixer.newest
    /\ mePc = "mixing" => ~sMeInvalidateMixer

(* The inductive invariant: the types, and the five parts above.           *)
Core == WordInv /\ PendingInv /\ ModeInv /\ BlockInv /\ MixerInv

IInv == TypeOK /\ Core
-----------------------------------------------------------------------------
(* What the operations on the mixer state do to each field.                *)
LEMMA WroteBackIs ==
  ASSUME NEW m \in Mixers, NEW p \in {"cpu", "me"}
  PROVE  /\ WroteBack(m, p) \in Mixers
         /\ WroteBack(m, p).cached = m.cached
         /\ WroteBack(m, p).dirty = m.dirty \ {p}
         /\ p \notin m.dirty => WroteBack(m, p).newest = m.newest
         /\ p \in m.dirty /\ p \in m.newest
               => WroteBack(m, p).newest = m.newest \union {"ram"}
  BY DEF WroteBack, Mixers

(* Dropping p's copy, p's changes with it.                                 *)
LEMMA InvalidatedIs ==
  ASSUME NEW m \in Mixers, NEW p \in {"cpu", "me"}
  PROVE  /\ Invalidated(m, p) \in Mixers
         /\ Invalidated(m, p).cached = m.cached \ {p}
         /\ Invalidated(m, p).dirty = m.dirty \ {p}
         /\ Invalidated(m, p).newest = m.newest \ {p}
  BY DEF Invalidated, Mixers

(* After p has mixed, only its own copy is up to date.                     *)
LEMMA MixedIs ==
  ASSUME NEW m \in Mixers, NEW p \in {"cpu", "me"}
  PROVE  /\ Mixed(m, p) \in Mixers
         /\ Mixed(m, p).cached = m.cached \union {p}
         /\ Mixed(m, p).dirty = m.dirty \union {p}
         /\ Mixed(m, p).newest = {p}
  BY DEF Mixed, Mixers

(* Before PspAudioMe_Init the ME waits and the CPU has the mixer.          *)
LEMMA InitInv == Init => IInv
  <1> SUFFICES ASSUME Init PROVE IInv
    OBVIOUS
  <1>1. Flags
    BY DEF Init, Flags
  <1>2. mixer \in Mixers
    BY DEF Init, Mixers
  <1>3. TypeOK
    BY <1>1, <1>2 DEF Init, TypeOK, Modes, MixerFailed
  <1>4. Core
    BY DEF Init, Core, WordInv, PendingInv, ModeInv, BlockInv, MixerInv, Waits,
       HasBlock
  <1> QED
    BY <1>3, <1>4 DEF IInv

(* Every handler leaves the flags Booleans.                                *)
LEMMA FlagStep == IInv /\ Next => Flags'
  <1> SUFFICES ASSUME IInv, Next PROVE Flags'
    OBVIOUS
  <1> USE DEF IInv, TypeOK, Flags, modeVars, wordVars, ownVars, meVars, outVars
  <1>1. CASE BootFails
    BY <1>1 DEF BootFails
  <1>2. CASE InitStart
    BY <1>2, WroteBackIs DEF InitStart
  <1>3. CASE InitReady
    BY <1>3 DEF InitReady
  <1>4. CASE InitTimeout
    BY <1>4 DEF InitTimeout
  <1>5. CASE Begin
    BY <1>5 DEF Begin, Modes
  <1>6. CASE WaitEnds
    BY <1>6 DEF WaitEnds
  <1>7. CASE TimeOut
    BY <1>7 DEF TimeOut
  <1>8. CASE EmitInterrupt
    BY <1>8 DEF EmitInterrupt
  <1>9. CASE InterruptTimeOut
    BY <1>9 DEF InterruptTimeOut
  <1>10. CASE Done
    BY <1>10, InvalidatedIs DEF Done
  <1>11. CASE NotDone
    BY <1>11 DEF NotDone
  <1>12. CASE Recover
    BY <1>12, WroteBackIs, InvalidatedIs DEF Recover
  <1>13. CASE GiveUp
    BY <1>13 DEF GiveUp
  <1>14. CASE MeStillRunning
    BY <1>14 DEF MeStillRunning
  <1>15. CASE TakeOver
    BY <1>15, WroteBackIs, InvalidatedIs DEF TakeOver, SetAsync
  <1>16. CASE Settle
    BY <1>16 DEF Settle
  <1>17. CASE NoTask
    BY <1>17 DEF NoTask
  <1>18. CASE BuildSilent
    BY <1>18 DEF BuildSilent
  <1>19. CASE Build
    BY <1>19 DEF Build, Core, BlockInv, HasBlock
  <1>20. CASE SubmitToCpu
    BY <1>20, InvalidatedIs DEF SubmitToCpu, SetAsync
  <1>21. CASE SubmitToMe
    BY <1>21 DEF SubmitToMe
  <1>22. CASE Launch
    BY <1>22 DEF Launch, Core, BlockInv, HasBlock
  <1>23. CASE Remix
    BY <1>23, MixedIs DEF Remix, CpuMixes, MixerFailed
  <1>24. CASE MixFallback
    BY <1>24, MixedIs DEF MixFallback, CpuMixes, MixerFailed
  <1>25. CASE MixSync
    BY <1>25, MixedIs DEF MixSync, MixerFailed
  <1>26. CASE Play
    BY <1>26 DEF Play, Core, BlockInv, HasBlock
  <1>27. CASE MeReady
    BY <1>27, InvalidatedIs DEF MeReady
  <1>28. CASE MeStart
    BY <1>28, InvalidatedIs DEF MeStart
  <1>29. CASE MeFinish
    BY <1>29, WroteBackIs, MixedIs DEF MeFinish, MixerFailed
  <1>30. CASE MeStop
    BY <1>30 DEF MeStop
  <1>31. CASE MeFault
    BY <1>31 DEF MeFault
  <1>32. CASE MeInterrupted
    BY <1>32 DEF MeInterrupted
  <1>33. CASE Evict
    BY <1>33, WroteBackIs, InvalidatedIs DEF Evict
  <1>34. CASE Request
    BY <1>34 DEF Request, Modes
  <1> QED
    BY <1>1, <1>2, <1>3, <1>4, <1>5, <1>6, <1>7, <1>8, <1>9, <1>10, <1>11,
       <1>12, <1>13, <1>14, <1>15, <1>16, <1>17, <1>18, <1>19, <1>20, <1>21,
       <1>22, <1>23, <1>24, <1>25, <1>26, <1>27, <1>28, <1>29, <1>30, <1>31,
       <1>32, <1>33, <1>34 DEF Next, Initialize, CreateTask, Wait, Judge,
       Submit, MediaEngine

(* Every handler keeps the types, and a block to be committed reserved.    *)
LEMMA TypeStep == IInv /\ Next /\ Flags' => TypeOK'
  <1> SUFFICES ASSUME IInv, Next, Flags' PROVE TypeOK'
    OBVIOUS
  <1> USE DEF IInv, TypeOK, modeVars, wordVars, ownVars, meVars, outVars
  <1>1. CASE BootFails
    BY <1>1 DEF BootFails
  <1>2. CASE InitStart
    BY <1>2, WroteBackIs DEF InitStart
  <1>3. CASE InitReady
    BY <1>3 DEF InitReady
  <1>4. CASE InitTimeout
    BY <1>4 DEF InitTimeout
  <1>5. CASE Begin
    BY <1>5 DEF Begin, Modes
  <1>6. CASE WaitEnds
    BY <1>6 DEF WaitEnds
  <1>7. CASE TimeOut
    BY <1>7 DEF TimeOut
  <1>8. CASE EmitInterrupt
    BY <1>8 DEF EmitInterrupt
  <1>9. CASE InterruptTimeOut
    BY <1>9 DEF InterruptTimeOut
  <1>10. CASE Done
    BY <1>10, InvalidatedIs DEF Done
  <1>11. CASE NotDone
    BY <1>11 DEF NotDone
  <1>12. CASE Recover
    BY <1>12, WroteBackIs, InvalidatedIs DEF Recover
  <1>13. CASE GiveUp
    BY <1>13 DEF GiveUp
  <1>14. CASE MeStillRunning
    BY <1>14 DEF MeStillRunning
  <1>15. CASE TakeOver
    BY <1>15, WroteBackIs, InvalidatedIs DEF TakeOver, SetAsync
  <1>16. CASE Settle
    BY <1>16 DEF Settle
  <1>17. CASE NoTask
    BY <1>17 DEF NoTask
  <1>18. CASE BuildSilent
    BY <1>18 DEF BuildSilent
  <1>19. CASE Build
    BY <1>19 DEF Build, Core, BlockInv, HasBlock
  <1>20. CASE SubmitToCpu
    <2>1. mixer' \in Mixers /\ mixer'.dirty \subseteq mixer'.cached
      BY <1>20, InvalidatedIs DEF SubmitToCpu, SetAsync
    <2>2. pc' \in {"fallback", "begin"} /\ sLastError' \in {sLastError, -2}
      BY <1>20 DEF SubmitToCpu
    <2>3. sPendingOutput' => block = "reserved"
      BY <1>20 DEF SubmitToCpu, Core, BlockInv, HasBlock
    <2> QED
      BY <1>20, <2>1, <2>2, <2>3 DEF SubmitToCpu, MixerFailed
  <1>21. CASE SubmitToMe
    BY <1>21 DEF SubmitToMe
  <1>22. CASE Launch
    BY <1>22 DEF Launch, Core, BlockInv, HasBlock
  <1>23. CASE Remix
    BY <1>23, MixedIs DEF Remix, CpuMixes, MixerFailed
  <1>24. CASE MixFallback
    <2> PICK r \in {0, MixerFailed} : CpuMixes(r) /\ sLastError' = r
      BY <1>24 DEF MixFallback
    <2>1. mixer' \in Mixers /\ mixer'.dirty \subseteq mixer'.cached
      BY MixedIs DEF CpuMixes
    <2>2. filled' \in {"nothing", "sound"}
      BY DEF CpuMixes
    <2>3. sPendingOutput' => block = "reserved"
      BY <1>24 DEF MixFallback, Core, BlockInv, HasBlock
    <2> QED
      BY <1>24, <2>1, <2>2, <2>3 DEF MixFallback, MixerFailed
  <1>25. CASE MixSync
    BY <1>25, MixedIs DEF MixSync, MixerFailed
  <1>26. CASE Play
    BY <1>26 DEF Play, Core, BlockInv, HasBlock
  <1>27. CASE MeReady
    BY <1>27, InvalidatedIs DEF MeReady
  <1>28. CASE MeStart
    BY <1>28, InvalidatedIs DEF MeStart
  <1>29. CASE MeFinish
    BY <1>29, WroteBackIs, MixedIs DEF MeFinish, MixerFailed
  <1>30. CASE MeStop
    BY <1>30 DEF MeStop
  <1>31. CASE MeFault
    BY <1>31 DEF MeFault
  <1>32. CASE MeInterrupted
    BY <1>32 DEF MeInterrupted
  <1>33. CASE Evict
    <2> PICK p \in {"cpu", "me"} :
               mixer' = Invalidated(WroteBack(mixer, p), p)
      BY <1>33 DEF Evict, Mixers
    <2>1. mixer' \in Mixers /\ mixer'.dirty \subseteq mixer'.cached
      BY WroteBackIs, InvalidatedIs
    <2> QED
      BY <1>33, <2>1 DEF Evict
  <1>34. CASE Request
    BY <1>34 DEF Request, Modes
  <1> QED
    BY <1>1, <1>2, <1>3, <1>4, <1>5, <1>6, <1>7, <1>8, <1>9, <1>10, <1>11,
       <1>12, <1>13, <1>14, <1>15, <1>16, <1>17, <1>18, <1>19, <1>20, <1>21,
       <1>22, <1>23, <1>24, <1>25, <1>26, <1>27, <1>28, <1>29, <1>30, <1>31,
       <1>32, <1>33, <1>34 DEF Next, Initialize, CreateTask, Wait, Judge,
       Submit, MediaEngine

(* No handler of either processor breaks what the others rely on.          *)
LEMMA CoreStep == IInv /\ Next => Core'
  <1> SUFFICES ASSUME IInv, Next PROVE Core'
    OBVIOUS
  <1> USE DEF IInv, TypeOK, Flags, Core, WordInv, PendingInv, ModeInv,
     BlockInv, MixerInv, Waits, HasBlock, MixerFailed, modeVars, wordVars,
     ownVars, meVars, outVars
  <1>1. CASE BootFails
    BY <1>1 DEF BootFails
  <1>2. CASE InitStart
    BY <1>2, WroteBackIs DEF InitStart
  <1>3. CASE InitReady
    BY <1>3 DEF InitReady
  <1>4. CASE InitTimeout
    BY <1>4 DEF InitTimeout
  <1>5. CASE Begin
    BY <1>5 DEF Begin, Modes
  <1>6. CASE WaitEnds
    BY <1>6 DEF WaitEnds
  <1>7. CASE TimeOut
    BY <1>7 DEF TimeOut
  <1>8. CASE EmitInterrupt
    BY <1>8 DEF EmitInterrupt
  <1>9. CASE InterruptTimeOut
    BY <1>9 DEF InterruptTimeOut
  <1>10. CASE Done
    BY <1>10, InvalidatedIs DEF Done
  <1>11. CASE NotDone
    BY <1>11 DEF NotDone
  <1>12. CASE Recover
    BY <1>12, WroteBackIs, InvalidatedIs DEF Recover
  <1>13. CASE GiveUp
    BY <1>13 DEF GiveUp
  <1>14. CASE MeStillRunning
    BY <1>14 DEF MeStillRunning
  <1>15. CASE TakeOver
    BY <1>15, WroteBackIs, InvalidatedIs DEF TakeOver, SetAsync, FallbackSafe,
       Modes
  <1>16. CASE Settle
    BY <1>16 DEF Settle, Modes
  <1>17. CASE NoTask
    BY <1>17 DEF NoTask
  <1>18. CASE BuildSilent
    BY <1>18 DEF BuildSilent, Modes
  <1>19. CASE Build
    BY <1>19 DEF Build, Modes
  <1>20. CASE SubmitToCpu
    BY <1>20, InvalidatedIs DEF SubmitToCpu, SetAsync, FallbackSafe,
       Unavailable
  <1>21. CASE SubmitToMe
    BY <1>21 DEF SubmitToMe, Unavailable
  <1>22. CASE Launch
    BY <1>22 DEF Launch
  <1>23. CASE Remix
    BY <1>23, MixedIs DEF Remix, CpuMixes, MixerFailed
  <1>24. CASE MixFallback
    BY <1>24, MixedIs DEF MixFallback, CpuMixes, MixerFailed
  <1>25. CASE MixSync
    BY <1>25, MixedIs DEF MixSync, MixerFailed
  <1>26. CASE Play
    BY <1>26 DEF Play
  <1>27. CASE MeReady
    BY <1>27, InvalidatedIs DEF MeReady
  <1>28. CASE MeStart
    BY <1>28, InvalidatedIs DEF MeStart
  <1>29. CASE MeFinish
    BY <1>29, WroteBackIs, MixedIs DEF MeFinish, MixerFailed
  <1>30. CASE MeStop
    BY <1>30 DEF MeStop
  <1>31. CASE MeFault
    BY <1>31 DEF MeFault
  <1>32. CASE MeInterrupted
    BY <1>32 DEF MeInterrupted
  <1>33. CASE Evict
    <2> PICK p \in {"cpu", "me"} :
               mixer' = Invalidated(WroteBack(mixer, p), p)
      BY <1>33 DEF Evict, Mixers
    <2> DEFINE written == WroteBack(mixer, p)
    <2>1. /\ written \in Mixers /\ mixer'.cached = mixer.cached \ {p}
          /\ mixer'.dirty = mixer.dirty \ {p}
          /\ mixer'.newest = written.newest \ {p}
      BY WroteBackIs, InvalidatedIs
    <2>2. CASE p \in mixer.dirty
      <3>1. p = "cpu" /\ written.newest = {"cpu", "ram"}
        BY <2>2, WroteBackIs
      <3> QED
        BY <1>33, <2>1, <2>2, <3>1 DEF Evict
    <2>3. CASE p \notin mixer.dirty
      <3>1. mixer'.newest = mixer.newest \ {p} /\ mixer'.dirty = mixer.dirty
        BY <2>1, <2>3, WroteBackIs
      <3>2. MixerInv'
        BY <1>33, <2>1, <2>3, <3>1 DEF Evict
      <3> QED
        BY <1>33, <3>2 DEF Evict
    <2> QED
      BY <2>2, <2>3
  <1>34. CASE Request
    BY <1>34 DEF Request, Modes
  <1> QED
    BY <1>1, <1>2, <1>3, <1>4, <1>5, <1>6, <1>7, <1>8, <1>9, <1>10, <1>11,
       <1>12, <1>13, <1>14, <1>15, <1>16, <1>17, <1>18, <1>19, <1>20, <1>21,
       <1>22, <1>23, <1>24, <1>25, <1>26, <1>27, <1>28, <1>29, <1>30, <1>31,
       <1>32, <1>33, <1>34 DEF Next, Initialize, CreateTask, Wait, Judge,
       Submit, MediaEngine

(* One step, or a stutter, keeps the invariant.                            *)
LEMMA Step == IInv /\ [Next]_vars => IInv'
  <1> SUFFICES ASSUME IInv, [Next]_vars PROVE IInv'
    OBVIOUS
  <1>1. CASE Next
    BY <1>1, FlagStep, TypeStep, CoreStep DEF IInv
  <1>2. CASE UNCHANGED vars
    BY <1>2 DEF vars, modeVars, wordVars, ownVars, meVars, outVars, IInv,
       TypeOK, Flags, Core, WordInv, PendingInv, ModeInv, BlockInv, MixerInv
  <1> QED
    BY <1>1, <1>2

(* The invariant holds at every step of the two processors and the menu.   *)
THEOREM Invariance == Spec => []IInv
  BY InitInv, Step, PTL DEF Spec

(* State word, modes, errors and copies of the mixer state keep their      *)
(* types, and a block that is to be committed is reserved.                 *)
THEOREM TypeCorrect == Spec => []TypeOK
  BY Invariance, PTL DEF IInv

(* The processors never mix at the same time.                              *)
THEOREM MixersAreExclusive == Spec => []MixersExclude
  <1>1. IInv => MixersExclude
    BY DEF IInv, Core, WordInv, MixersExclude, CpuMixing, Waits
  <1> QED
    BY <1>1, Invariance, PTL

(* Every mix starts from the newest mixer state.                           *)
THEOREM NewestStateIsMixed == Spec => []MixesNewestState
  <1>1. IInv => MixesNewestState
    BY DEF IInv, TypeOK, Flags, Core, WordInv, ModeInv, MixerInv,
       MixesNewestState, CpuMixing, Fresh, HasBlock, Mixers
  <1> QED
    BY <1>1, Invariance, PTL

(* With sound off or mixed by the CPU, the ME has nothing to do.           *)
THEOREM HandoverIsComplete == Spec => []HandoverComplete
  <1>1. IInv => HandoverComplete
    BY DEF IInv, Core, WordInv, PendingInv, HandoverComplete
  <1> QED
    BY <1>1, Invariance, PTL

(* No block is committed or reserved while the ME fills one.               *)
THEOREM BlocksAreLeft == Spec => BlockLeftToMe
  <1>1. IInv /\ [Next]_vars => [mePc = "mixing" => UNCHANGED block]_vars
    BY DEF IInv, Core, WordInv, Waits, Next, Initialize, CreateTask, Wait,
       Judge, Submit, MediaEngine, vars, outVars, BootFails, InitStart,
       InitReady, InitTimeout, Begin, WaitEnds, TimeOut, EmitInterrupt,
       InterruptTimeOut, Done, NotDone, Recover, GiveUp, MeStillRunning,
       TakeOver, Settle, NoTask, BuildSilent, Build, SubmitToCpu, SubmitToMe,
       Launch, Remix, MixFallback, MixSync, Play, MeReady, MeStart, MeFinish,
       MeStop, MeFault, MeInterrupted, Evict, Request
  <1> QED
    BY <1>1, Invariance, PTL DEF Spec, BlockLeftToMe

(* Only sound mixed without an error, or silence, is played.               *)
THEOREM SoundOrSilence == Spec => PlaysSoundOrSilence
  <1> DEFINE Plays == block = "reserved" /\ block' = "free"
                         => filled' \in {"sound", "silence"}
  <1>1. ASSUME IInv, Next PROVE Plays
    <2>1. CASE Settle
      BY <1>1, <2>1 DEF Settle, outVars, IInv, TypeOK, Core, PendingInv,
         BlockInv, Waits, MixerFailed
    <2>2. CASE Play
      BY <1>1, <2>2 DEF Play, IInv, Core, BlockInv
    <2>3. CASE ~Settle /\ ~Play
      BY <1>1, <2>3 DEF IInv, Next, Initialize, CreateTask, Wait, Judge,
         Submit, MediaEngine, outVars, BootFails, InitStart, InitReady,
         InitTimeout, Begin, WaitEnds, TimeOut, EmitInterrupt,
         InterruptTimeOut, Done, NotDone, Recover, GiveUp, MeStillRunning,
         TakeOver, NoTask, BuildSilent, Build, SubmitToCpu, SubmitToMe, Launch,
         Remix, MixFallback, MixSync, MeReady, MeStart, MeFinish, MeStop,
         MeFault, MeInterrupted, Evict, Request
    <2> QED
      BY <2>1, <2>2, <2>3
  <1>2. IInv /\ [Next]_vars => [Plays]_vars
    BY <1>1
  <1> QED
    BY <1>2, Invariance, PTL DEF Spec, PlaysSoundOrSilence
-----------------------------------------------------------------------------

(* The slots ahead of the audio thread, up to the next one the game        *)
(* writes, are those it may still come to.                                 *)
Ahead(p) == Behind(p, Position)
InArc(p) == Ahead(p) < Ahead(write)
Resuming == finished \/ audio = "batch"

Kinds == {"none", "play", "stop"}
RingTypes ==
    /\ ring \in [Ring -> [kind : Kinds, id : Nat, after : Nat]]
    /\ write \in Ring /\ read \in Ring /\ cur \in Ring /\ upto \in Ring
    /\ messages \in Seq(Ring \X Ring) /\ Len(messages) <= Messages
    /\ lastId \in Nat /\ due \subseteq Nat
    /\ ran \in [kind : Kinds, id : Nat, after : Nat]

StepTypes ==
    /\ status \in {"ready", "wait"} /\ finished \in BOOLEAN
    /\ game \in {"idle", "update", "restart", "stops", "send", "reset", "barrier"}
    /\ audio \in {"head", "process", "batch"}
    /\ stops \in Nat /\ resetStep \in 0..5
    /\ barriers \in Nat /\ changes \in Nat /\ resets \in Nat
    /\ overrun \in BOOLEAN /\ overtaken \in BOOLEAN

CommandsTypeOK == RingTypes /\ StepTypes

Counted == IF game \in {"send", "reset", "barrier"} THEN 1 ELSE 0

(* Nothing in the ring is newer than the newest command or change.        *)
SlotInv ==
    /\ \A p \in Ring : ring[p].id <= lastId /\ ring[p].after <= barriers
    /\ ran.id <= lastId

(* A change is on its way from the game to the audio thread, is being      *)
(* carried out there, or has been; while it is not, the game waits.        *)
CountInv == barriers + Counted = changes

Settled ==
    /\ changes = resets /\ specQueue = << >> /\ resetStep = 0
    /\ audioSpec = gameSpec /\ game # "send"
Asking == game = "send" /\ specQueue = << >> /\ resetStep = 0
Awaiting ==
    /\ game = "reset" \/ (status = "wait" /\ game \in {"barrier", "update", "idle"})
    /\ \/ specQueue = <<gameSpec>> /\ resetStep = 0
       \/ specQueue = << >> /\ resetStep # 0 /\ audioSpec = gameSpec

ChangeInv ==
    ~overtaken =>
      \/ Settled
      \/ changes = resets + 1 /\ resetQueue = << >> /\ (Asking \/ Awaiting)

(* The change being sent is one the game will wait for.                    *)
AwaitedInv == game \in {"send", "reset"} => Awaited(oldSpec, gameSpec)

(* What is left of the batch, the messages and what the game has not sent  *)
(* yet lie one after the other, perhaps with gaps, in the ring.            *)
RangesInv ==
    /\ Ahead(read) <= Ahead(write)
    /\ Resuming => Ahead(upto) <= Ahead(read)
    /\ \A i \in 1..Len(messages) :
         /\ Ahead(messages[i][1]) <= Ahead(messages[i][2])
         /\ Ahead(messages[i][2]) <= Ahead(read)
         /\ Resuming => Ahead(upto) <= Ahead(messages[i][1])
         /\ \A j \in 1..Len(messages) : i < j =>
               Ahead(messages[i][2]) <= Ahead(messages[j][1])

(* The commands ahead are in the order of their ids.                       *)
OrderInv ==
    /\ \A p \in Ring : InArc(p) => ran.id < ring[p].id
    /\ \A p, q \in Ring :
         Ahead(p) < Ahead(q) /\ InArc(q) => ring[p].id < ring[q].id

(* Those that are due are in the rest of the batch or in a message.        *)
Covered(p) ==
    \/ Resuming /\ Ahead(p) < Ahead(upto)
    \/ \E i \in 1..Len(messages) :
          /\ Ahead(messages[i][1]) <= Ahead(p)
          /\ Ahead(p) < Ahead(messages[i][2])
DueInv == \A id \in due : \E p \in Ring : ring[p].id = id /\ Covered(p)

RingInv == ~overrun => RangesInv /\ OrderInv /\ DueInv

(* A command queued behind the STOP of a change that is not completed ...  *)
Held(p) == InArc(p) /\ ring[p].after > resets

(* ... is behind a STOP the audio thread has yet to come to, in the last   *)
(* message sent before the change is answered, or it is in no message.     *)
StopBetween(from, p) ==
    \E q \in Ring :
        Ahead(from) <= Ahead(q) /\ Ahead(q) < Ahead(p) /\ ring[q].kind = "stop"

HeldBack(p) ==
    \/ messages = << >> /\ audio # "batch"
    \/ \E q \in Ring :
          /\ Ahead(q) < Ahead(p) /\ ring[q].kind = "stop"
          /\ messages # << >> => Ahead(messages[Len(messages)][1]) <= Ahead(q)

UpdateBarrier ==
    game = "update" /\ barriers > resets =>
        /\ Following(write) = read \/ StopBetween(read, write)
        /\ \A p \in Ring : Held(p) => StopBetween(read, p)

IdleBarrier ==
    game = "idle" =>
        \A p \in Ring : Held(p) /\ Ahead(p) < Ahead(read) => HeldBack(p)

BarrierInv == ~overrun /\ ~overtaken => UpdateBarrier /\ IdleBarrier

CommandsInv ==
    /\ CommandsTypeOK /\ SlotInv /\ CountInv /\ ChangeInv /\ AwaitedInv
    /\ RingInv /\ BarrierInv
-----------------------------------------------------------------------------
LEMMA RestOf ==
    ASSUME NEW n \in Nat \ {0}, NEW x \in Nat
    PROVE  /\ x < n => x % n = x
           /\ n <= x /\ x < n + n => x % n = x - n
  OBVIOUS

(* Positions of the ring without the remainder.                            *)
LEMMA BehindIs ==
    ASSUME NEW p \in Ring, NEW from \in Ring
    PROVE  /\ Behind(p, from) = IF from <= p THEN p - from ELSE p + RingSize - from
           /\ Behind(p, from) \in Ring
  BY RingAssumption DEF Ring, Behind

LEMMA FollowingIs ==
    ASSUME NEW p \in Ring
    PROVE  /\ Following(p) = IF p + 1 = RingSize THEN 0 ELSE p + 1
           /\ Following(p) \in Ring
  BY RingAssumption DEF Ring, Following

(* Distances in the ring.                                                  *)
LEMMA Distances ==
    ASSUME NEW here \in Ring
    PROVE  /\ Behind(here, here) = 0
           /\ \A p \in Ring : Behind(p, here) \in Nat /\ Behind(p, here) < RingSize
           /\ \A p, q \in Ring : Behind(p, here) = Behind(q, here) => p = q
  <1>1. \A p \in Ring : Behind(p, here) = IF here <= p THEN p - here
                                         ELSE p + RingSize - here
    BY BehindIs
  <1> QED  BY <1>1, RingAssumption DEF Ring

(* One slot further on is one more ahead, except from the end of the arc.  *)
LEMMA Onwards ==
    ASSUME NEW here \in Ring, NEW p \in Ring, Following(p) # here
    PROVE  Behind(Following(p), here) = Behind(p, here) + 1
  <1>1. Following(p) \in Ring BY FollowingIs
  <1>2. Behind(p, here) = IF here <= p THEN p - here ELSE p + RingSize - here
    BY BehindIs
  <1>3. Behind(Following(p), here) = IF here <= Following(p) THEN Following(p) - here
           ELSE Following(p) + RingSize - here
    BY <1>1, BehindIs
  <1> QED  BY <1>1, <1>2, <1>3, FollowingIs, RingAssumption DEF Ring

(* The same distances, from a place further on.                            *)
LEMMA Rebased ==
    ASSUME NEW here \in Ring, NEW there \in Ring, NEW to \in Ring,
           Behind(there, here) <= Behind(to, here)
    PROVE  /\ \A p \in Ring : Behind(there, here) <= Behind(p, here) =>
                Behind(p, there) = Behind(p, here) - Behind(there, here)
           /\ \A p \in Ring : Behind(p, there) < Behind(to, there) =>
                Behind(p, here) = Behind(p, there) + Behind(there, here)
  <1>1. \A p \in Ring :
          /\ Behind(p, here) = IF here <= p THEN p - here ELSE p + RingSize - here
          /\ Behind(p, there) = IF there <= p THEN p - there ELSE p + RingSize - there
    BY BehindIs
  <1> QED  BY <1>1, RingAssumption DEF Ring

(* A range of slots lies between its ends.                                 *)
LEMMA SlotsOfRange ==
    ASSUME NEW here \in Ring, NEW from \in Ring, NEW to \in Ring,
           Behind(from, here) <= Behind(to, here),
           NEW p \in SlotsFrom(from, to)
    PROVE  /\ p \in Ring
           /\ Behind(from, here) <= Behind(p, here)
           /\ Behind(p, here) < Behind(to, here)
  <1>1. p \in Ring /\ Behind(p, from) < Behind(to, from)  BY DEF SlotsFrom
  <1>2. Behind(p, here) = Behind(p, from) + Behind(from, here)  BY <1>1, Rebased
  <1>3. Behind(to, from) = Behind(to, here) - Behind(from, here)  BY Rebased
  <1>4. /\ Behind(p, from) \in Nat /\ Behind(from, here) \in Nat
        /\ Behind(to, here) \in Nat
    BY <1>1, Distances
  <1> QED  BY <1>1, <1>2, <1>3, <1>4

LEMMA RangeTypes ==
    ASSUME NEW q \in Seq(Ring \X Ring), NEW i \in 1..Len(q)
    PROVE  q[i][1] \in Ring /\ q[i][2] \in Ring
  <1> DEFINE Ranges == Ring \X Ring
  <1>1. q \in Seq(Ranges)  OBVIOUS
  <1>2. q[i] \in Ranges
    <2> HIDE DEF Ranges
    <2> QED  BY <1>1, ElementOfSeq
  <1> QED  BY <1>2

LEMMA PositionInRing == CommandsTypeOK => Position \in Ring
  <1> SUFFICES ASSUME CommandsTypeOK PROVE Position \in Ring
    OBVIOUS
  <1>1. messages # << >> => Head(messages) = messages[1] /\ 1 \in 1..Len(messages)
    BY DEF CommandsTypeOK, RingTypes
  <1>2. messages # << >> => Head(messages)[1] \in Ring
    BY <1>1, RangeTypes DEF CommandsTypeOK, RingTypes
  <1> QED  BY <1>2 DEF CommandsTypeOK, RingTypes, Position
-----------------------------------------------------------------------------
(* Types.                                                                  *)
LEMMA QueueTypes ==
    ASSUME CommandsTypeOK, NEW kind \in Kinds, QueueCmd(kind)
    PROVE  /\ ring' \in [Ring -> [kind : Kinds, id : Nat, after : Nat]]
           /\ write' \in Ring /\ lastId' \in Nat /\ overrun' \in BOOLEAN
  <1>1. write' \in Ring  BY FollowingIs DEF CommandsTypeOK, RingTypes, QueueCmd
  <1>2. lastId' \in Nat  BY DEF CommandsTypeOK, RingTypes, QueueCmd
  <1>3. [kind |-> kind, id |-> lastId', after |-> barriers]
           \in [kind : Kinds, id : Nat, after : Nat]
    BY <1>2 DEF CommandsTypeOK, StepTypes
  <1>4. ring' \in [Ring -> [kind : Kinds, id : Nat, after : Nat]]
    BY <1>3 DEF CommandsTypeOK, RingTypes, StepTypes, QueueCmd
  <1>5. overrun' \in BOOLEAN  BY DEF CommandsTypeOK, RingTypes, StepTypes, QueueCmd
  <1> QED  BY <1>1, <1>2, <1>4, <1>5

LEMMA ScheduleTypes ==
    ASSUME CommandsTypeOK, Schedule
    PROVE  /\ messages' \in Seq(Ring \X Ring) /\ Len(messages') <= Messages
           /\ read' \in Ring /\ due' \subseteq Nat
  <1>1. read' \in Ring  BY DEF CommandsTypeOK, RingTypes, Schedule
  <1>2. <<read, write>> \in Ring \X Ring  BY DEF CommandsTypeOK, RingTypes
  <1>3. messages' \in Seq(Ring \X Ring) /\ Len(messages') <= Messages
    <2> DEFINE Ranges == Ring \X Ring
    <2>1. messages \in Seq(Ranges) /\ Len(messages) <= Messages  BY DEF CommandsTypeOK, RingTypes
    <2>2. <<read, write>> \in Ranges  BY <1>2
    <2> HIDE DEF Ranges
    <2>3. messages' \in Seq(Ranges) /\ Len(messages') <= Messages
      BY <2>1, <2>2, RingAssumption DEF Schedule, SendNoBlock, HasRoom
    <2> QED  BY <2>3 DEF Ranges
  <1>4. {ring[p].id : p \in SlotsFrom(read, write)} \subseteq Nat
    BY DEF CommandsTypeOK, RingTypes, SlotsFrom
  <1>5. due' \subseteq Nat  BY <1>4 DEF CommandsTypeOK, RingTypes, Schedule
  <1> QED  BY <1>1, <1>3, <1>5

LEMMA GameTypes ==
    ASSUME CommandsTypeOK, Game
    PROVE  CommandsTypeOK'
  <1> USE DEF gameVars, audioVars, tally
  <1>1. CASE Queue1
    <2>1. QueueCmd("play") /\ "play" \in Kinds  BY <1>1 DEF Queue1, Kinds
    <2>2. /\ ring' \in [Ring -> [kind : Kinds, id : Nat, after : Nat]]
          /\ write' \in Ring /\ lastId' \in Nat /\ overrun' \in BOOLEAN
      BY <2>1, QueueTypes
    <2>3. RingTypes'  BY <1>1, <2>2 DEF Queue1, CommandsTypeOK, RingTypes
    <2>4. StepTypes'  BY <1>1, <2>2 DEF Queue1, CommandsTypeOK, StepTypes
    <2> QED  BY <2>3, <2>4 DEF CommandsTypeOK
  <1>2. CASE BeginUpdate
    <2>1. RingTypes'  BY <1>2 DEF BeginUpdate, CommandsTypeOK, RingTypes
    <2>2. StepTypes'  BY <1>2 DEF BeginUpdate, CommandsTypeOK, StepTypes
    <2> QED  BY <2>1, <2>2 DEF CommandsTypeOK
  <1>3. CASE RestartSeqPlayers
    <2>1. Schedule  BY <1>3 DEF RestartSeqPlayers
    <2>2. RingTypes'  BY <1>3, <2>1, ScheduleTypes, CommandAssumption DEF RestartSeqPlayers, CommandsTypeOK, RingTypes
    <2>3. StepTypes'  BY <1>3, <2>1, ScheduleTypes, CommandAssumption DEF RestartSeqPlayers, CommandsTypeOK, StepTypes
    <2> QED  BY <2>2, <2>3 DEF CommandsTypeOK
  <1>4. CASE QueueStop
    <2>1. QueueCmd("stop") /\ "stop" \in Kinds  BY <1>4 DEF QueueStop, Kinds
    <2>2. /\ ring' \in [Ring -> [kind : Kinds, id : Nat, after : Nat]]
          /\ write' \in Ring /\ lastId' \in Nat /\ overrun' \in BOOLEAN
      BY <2>1, QueueTypes
    <2>3. RingTypes'  BY <1>4, <2>2 DEF QueueStop, CommandsTypeOK, RingTypes
    <2>4. StepTypes'  BY <1>4, <2>2 DEF QueueStop, CommandsTypeOK, StepTypes
    <2> QED  BY <2>3, <2>4 DEF CommandsTypeOK
  <1>5. CASE Restarted
    <2>1. RingTypes'  BY <1>5 DEF Restarted, CommandsTypeOK, RingTypes
    <2>2. StepTypes'  BY <1>5 DEF Restarted, CommandsTypeOK, StepTypes
    <2> QED  BY <2>1, <2>2 DEF CommandsTypeOK
  <1>6. CASE SendSpec
    <2>1. RingTypes'  BY <1>6 DEF SendSpec, CommandsTypeOK, RingTypes
    <2>2. StepTypes'  BY <1>6 DEF SendSpec, CommandsTypeOK, StepTypes
    <2> QED  BY <2>1, <2>2 DEF CommandsTypeOK
  <1>7. CASE StartReset
    <2>1. QueueCmd("play") /\ "play" \in Kinds  BY <1>7 DEF StartReset, Kinds
    <2>2. /\ ring' \in [Ring -> [kind : Kinds, id : Nat, after : Nat]]
          /\ write' \in Ring /\ lastId' \in Nat /\ overrun' \in BOOLEAN
      BY <2>1, QueueTypes
    <2>3. RingTypes'  BY <1>7, <2>2 DEF StartReset, CommandsTypeOK, RingTypes
    <2>4. StepTypes'  BY <1>7, <2>2 DEF StartReset, CommandsTypeOK, StepTypes
    <2> QED  BY <2>3, <2>4 DEF CommandsTypeOK
  <1>8. CASE Barrier
    <2>1. QueueCmd("stop") /\ "stop" \in Kinds  BY <1>8 DEF Barrier, Kinds
    <2>2. /\ ring' \in [Ring -> [kind : Kinds, id : Nat, after : Nat]]
          /\ write' \in Ring /\ lastId' \in Nat /\ overrun' \in BOOLEAN
      BY <2>1, QueueTypes
    <2>3. RingTypes'  BY <1>8, <2>2 DEF Barrier, CommandsTypeOK, RingTypes
    <2>4. StepTypes'  BY <1>8, <2>2 DEF Barrier, CommandsTypeOK, StepTypes
    <2> QED  BY <2>3, <2>4 DEF CommandsTypeOK
  <1>9. CASE EndUpdate
    <2>1. Schedule  BY <1>9 DEF EndUpdate
    <2>2. RingTypes'  BY <1>9, <2>1, ScheduleTypes DEF EndUpdate, CommandsTypeOK, RingTypes
    <2>3. StepTypes'  BY <1>9, <2>1, ScheduleTypes DEF EndUpdate, CommandsTypeOK, StepTypes
    <2> QED  BY <2>2, <2>3 DEF CommandsTypeOK
  <1>10. ASSUME NEW s \in Specs, ChangeSpec(s) PROVE CommandsTypeOK'
    <2>1. RingTypes'  BY <1>10 DEF ChangeSpec, CommandsTypeOK, RingTypes
    <2>2. StepTypes'  BY <1>10 DEF ChangeSpec, CommandsTypeOK, StepTypes
    <2> QED  BY <2>1, <2>2 DEF CommandsTypeOK
  <1> QED
    BY <1>1, <1>2, <1>3, <1>4, <1>5, <1>6, <1>7, <1>8, <1>9, <1>10 DEF Game,
       GameUpdate

LEMMA AudioTypes ==
    ASSUME CommandsTypeOK, Audio
    PROVE  CommandsTypeOK'
  <1> USE DEF gameVars, audioVars, tally
  <1>1. CASE Frame
    <2>1. Polled \in 0..5  BY DEF Polled, CommandsTypeOK, StepTypes
    <2>2. resetStep' \in 0..5 /\ resets' \in Nat /\ audio' \in {"head", "process"}
      BY <1>1, <2>1 DEF Frame, CommandsTypeOK, StepTypes
    <2>3. RingTypes'  BY <1>1, <2>2 DEF Frame, CommandsTypeOK, RingTypes
    <2>4. StepTypes'  BY <1>1, <2>2 DEF Frame, CommandsTypeOK, StepTypes
    <2> QED  BY <2>3, <2>4 DEF CommandsTypeOK
  <1>2. CASE TakeMessage
    <2>1. /\ Head(messages) = messages[1] /\ 1 \in 1..Len(messages)
      BY <1>2 DEF TakeMessage, CommandsTypeOK, RingTypes
    <2>2. Head(messages)[1] \in Ring /\ Head(messages)[2] \in Ring
      BY <2>1, RangeTypes DEF CommandsTypeOK, RingTypes
    <2>3. messages' \in Seq(Ring \X Ring) /\ Len(messages') <= Messages
      <3> DEFINE Ranges == Ring \X Ring
      <3>1. messages \in Seq(Ranges) /\ messages # << >> /\ messages' = Tail(messages)
        BY <1>2 DEF CommandsTypeOK, RingTypes, TakeMessage
      <3> HIDE DEF Ranges
      <3>2. messages' \in Seq(Ranges) /\ Len(messages') <= Len(messages)  BY <3>1
      <3> QED  BY <3>2, RingAssumption DEF Ranges, CommandsTypeOK, RingTypes
    <2>4. RingTypes'  BY <1>2, <2>1, <2>2, <2>3 DEF TakeMessage, CommandsTypeOK, RingTypes
    <2>5. StepTypes'  BY <1>2, <2>1, <2>2, <2>3 DEF TakeMessage, CommandsTypeOK, StepTypes
    <2> QED  BY <2>4, <2>5 DEF CommandsTypeOK
  <1>3. CASE EndFrame
    <2>1. RingTypes'  BY <1>3 DEF EndFrame, CommandsTypeOK, RingTypes
    <2>2. StepTypes'  BY <1>3 DEF EndFrame, CommandsTypeOK, StepTypes
    <2> QED  BY <2>1, <2>2 DEF CommandsTypeOK
  <1>4. CASE EndBatch
    <2>1. RingTypes'  BY <1>4 DEF EndBatch, CommandsTypeOK, RingTypes
    <2>2. StepTypes'  BY <1>4 DEF EndBatch, CommandsTypeOK, StepTypes
    <2> QED  BY <2>1, <2>2 DEF CommandsTypeOK
  <1>5. CASE Stop
    <2>1. RingTypes'  BY <1>5, FollowingIs DEF Stop, CommandsTypeOK, RingTypes
    <2>2. StepTypes'  BY <1>5 DEF Stop, CommandsTypeOK, StepTypes
    <2> QED  BY <2>1, <2>2 DEF CommandsTypeOK
  <1>6. CASE Execute
    <2>1. ring' \in [Ring -> [kind : Kinds, id : Nat, after : Nat]]
      BY <1>6 DEF Execute, CommandsTypeOK, RingTypes, Kinds
    <2>2. ran' \in [kind : Kinds, id : Nat, after : Nat]
      BY <1>6 DEF Execute, CommandsTypeOK, RingTypes
    <2>3. RingTypes'  BY <1>6, <2>1, <2>2, FollowingIs DEF Execute, CommandsTypeOK, RingTypes
    <2>4. StepTypes'  BY <1>6, <2>1, <2>2, FollowingIs DEF Execute, CommandsTypeOK, StepTypes
    <2> QED  BY <2>3, <2>4 DEF CommandsTypeOK
  <1> QED  BY <1>1, <1>2, <1>3, <1>4, <1>5, <1>6 DEF Audio

LEMMA TypesKept == CommandsTypeOK /\ [CommandsNext]_commandVars => CommandsTypeOK'
  <1> SUFFICES ASSUME CommandsTypeOK, [CommandsNext]_commandVars PROVE CommandsTypeOK'
    OBVIOUS
  <1>1. CASE UNCHANGED commandVars
    BY <1>1 DEF commandVars, gameVars, audioVars, tally, CommandsTypeOK,
       RingTypes, StepTypes
  <1> QED  BY <1>1, GameTypes, AudioTypes DEF CommandsNext

LEMMA TypesAtFirst == CommandsInit => CommandsTypeOK
  <1> SUFFICES ASSUME CommandsInit PROVE CommandsTypeOK
    OBVIOUS
  <1>1. NoCommand \in [kind : Kinds, id : Nat, after : Nat]  BY DEF NoCommand, Kinds
  <1>2. 0 \in Ring  BY RingAssumption DEF Ring
  <1>3. << >> \in Seq(Ring \X Ring) /\ Len(<< >>) <= Messages
    <2> DEFINE Ranges == Ring \X Ring
    <2> HIDE DEF Ranges
    <2>1. << >> \in Seq(Ranges) /\ Len(<< >>) <= Messages  BY RingAssumption
    <2>2. Len(<< >>) <= Messages  BY <2>1
    <2>3. << >> \in Seq(Ring \X Ring)  BY <2>1 DEF Ranges
    <2> QED  BY <2>2, <2>3
  <1>4. RingTypes  BY <1>1, <1>2, <1>3 DEF CommandsInit, RingTypes
  <1>5. StepTypes
    <2>1. finished \in BOOLEAN /\ overrun \in BOOLEAN /\ overtaken \in BOOLEAN
      BY Zenon DEF CommandsInit
    <2>2. /\ status = "ready" /\ game = "idle" /\ audio = "head"
          /\ stops = 0 /\ resetStep = 0 /\ barriers = 0 /\ changes = 0 /\ resets = 0
      BY Zenon DEF CommandsInit
    <2> QED  BY <2>1, <2>2 DEF StepTypes
  <1> QED  BY <1>4, <1>5 DEF CommandsTypeOK
-----------------------------------------------------------------------------
(* What was counted.                                                       *)
LEMMA QueueSlots ==
    ASSUME CommandsTypeOK, SlotInv, NEW kind \in Kinds, QueueCmd(kind)
    PROVE  /\ \A p \in Ring : ring'[p].id <= lastId' /\ ring'[p].after <= barriers
           /\ ran.id <= lastId'
  <1> USE DEF CommandsTypeOK, RingTypes, StepTypes
  <1>1. lastId' = lastId + 1  BY DEF QueueCmd
  <1>2. ASSUME NEW p \in Ring
        PROVE  ring'[p].id <= lastId' /\ ring'[p].after <= barriers
    <2>1. CASE p = write  BY <1>1, <2>1 DEF QueueCmd
    <2>2. CASE p # write  BY <1>1, <2>2 DEF QueueCmd, SlotInv
    <2> QED  BY <2>1, <2>2
  <1> QED  BY <1>1, <1>2 DEF SlotInv

LEMMA SlotsKept ==
    ASSUME CommandsTypeOK, SlotInv, [CommandsNext]_commandVars
    PROVE  SlotInv'
  <1> USE DEF gameVars, audioVars, tally
  <1>1. CASE UNCHANGED commandVars
    BY <1>1 DEF commandVars, SlotInv
  <1>2. CASE Queue1
    <2>1. QueueCmd("play") /\ "play" \in Kinds  BY <1>2 DEF Queue1, Kinds
    <2> QED  BY <1>2, <2>1, QueueSlots DEF Queue1, SlotInv
  <1>3. CASE QueueStop
    <2>1. QueueCmd("stop") /\ "stop" \in Kinds  BY <1>3 DEF QueueStop, Kinds
    <2> QED  BY <1>3, <2>1, QueueSlots DEF QueueStop, SlotInv
  <1>4. CASE StartReset
    <2>1. QueueCmd("play") /\ "play" \in Kinds  BY <1>4 DEF StartReset, Kinds
    <2> QED  BY <1>4, <2>1, QueueSlots DEF StartReset, SlotInv
  <1>5. CASE Barrier
    <2>1. QueueCmd("stop") /\ "stop" \in Kinds  BY <1>5 DEF Barrier, Kinds
    <2>2. /\ \A p \in Ring : ring'[p].id <= lastId' /\ ring'[p].after <= barriers
          /\ ran.id <= lastId'
      BY <2>1, QueueSlots
    <2>3. barriers' = barriers + 1 /\ ran' = ran  BY <1>5 DEF Barrier
    <2>4. \A p \in Ring : ring'[p].after \in Nat
      BY <2>1, QueueTypes
    <2> QED  BY <2>2, <2>3, <2>4 DEF SlotInv, CommandsTypeOK, StepTypes
  <1>6. CASE Execute
    <2>1. /\ lastId' = lastId /\ barriers' = barriers
          /\ ran' = ran \/ ran' = ring[cur]
      BY <1>6 DEF Execute
    <2>2. \A p \in Ring : ring'[p].id = ring[p].id /\ ring'[p].after = ring[p].after
      BY <1>6 DEF Execute, CommandsTypeOK, RingTypes
    <2> QED  BY <2>1, <2>2 DEF SlotInv, CommandsTypeOK, RingTypes
  <1>7. CASE BeginUpdate \/ RestartSeqPlayers \/ Restarted \/ SendSpec \/ EndUpdate
    BY <1>7 DEF BeginUpdate, RestartSeqPlayers, Restarted, SendSpec, EndUpdate,
       SlotInv
  <1>8. CASE \E s \in Specs : ChangeSpec(s)
    BY <1>8 DEF ChangeSpec, SlotInv
  <1>9. CASE Frame \/ TakeMessage \/ EndFrame \/ EndBatch \/ Stop
    BY <1>9 DEF Frame, TakeMessage, EndFrame, EndBatch, Stop, SlotInv
  <1> QED
    BY <1>1, <1>2, <1>3, <1>4, <1>5, <1>6, <1>7, <1>8, <1>9 DEF CommandsNext,
       Game, GameUpdate, Audio

LEMMA CountKept ==
    ASSUME CommandsTypeOK, CountInv, [CommandsNext]_commandVars
    PROVE  CountInv'
  <1> USE DEF gameVars, audioVars, tally, CountInv, Counted
  <1>1. CASE UNCHANGED commandVars
    BY <1>1 DEF commandVars
  <1>2. CASE Game
    BY <1>2 DEF Game, GameUpdate, Queue1, BeginUpdate, RestartSeqPlayers,
       QueueStop, Restarted, SendSpec, StartReset, Barrier, EndUpdate,
       ChangeSpec, CommandsTypeOK, StepTypes
  <1>3. CASE Audio
    BY <1>3 DEF Audio, Frame, TakeMessage, EndFrame, EndBatch, Stop, Execute
  <1> QED  BY <1>1, <1>2, <1>3 DEF CommandsNext

(* Only ChangeSpec starts a change, and it asks first.                     *)
LEMMA AwaitedKept ==
    ASSUME AwaitedInv, [CommandsNext]_commandVars
    PROVE  AwaitedInv'
  <1> USE DEF gameVars, audioVars, AwaitedInv, Awaited
  <1>1. CASE UNCHANGED commandVars
    BY <1>1 DEF commandVars
  <1>2. CASE GameUpdate \/ Queue1
    BY <1>2 DEF GameUpdate, Queue1, BeginUpdate, RestartSeqPlayers, QueueStop,
       Restarted, SendSpec, StartReset, Barrier, EndUpdate
  <1>3. CASE \E s \in Specs : ChangeSpec(s)
    BY <1>3 DEF ChangeSpec
  <1>4. CASE Audio
    BY <1>4 DEF Audio, Frame, TakeMessage, EndFrame, EndBatch, Stop, Execute
  <1> QED  BY <1>1, <1>2, <1>3, <1>4 DEF CommandsNext, Game

(* The message of a change goes to the audio thread once, and its answer   *)
(* comes only when the reset is over.                                      *)
LEMMA ChangeKept ==
    ASSUME CommandsTypeOK, ChangeInv, AwaitedInv, [CommandsNext]_commandVars
    PROVE  ChangeInv'
  <1> USE DEF gameVars, audioVars, tally
  <1>1. CASE UNCHANGED commandVars
    BY <1>1 DEF commandVars, ChangeInv, Settled, Asking, Awaiting
  <1> SUFFICES ASSUME CommandsNext, ~overtaken' PROVE ChangeInv'
    BY <1>1 DEF ChangeInv
  <1>2. ~overtaken
    BY DEF CommandsNext, Game, GameUpdate, Queue1, BeginUpdate,
       RestartSeqPlayers, QueueStop, Restarted, SendSpec, StartReset, Barrier,
       EndUpdate, ChangeSpec, Audio, Frame, TakeMessage, EndFrame, EndBatch,
       Stop, Execute, CommandsTypeOK, StepTypes
  <1>3. \/ Settled
        \/ changes = resets + 1 /\ resetQueue = << >> /\ (Asking \/ Awaiting)
    BY <1>2 DEF ChangeInv
  <1>4. CASE Queue1 \/ RestartSeqPlayers \/ QueueStop \/ Restarted \/ EndUpdate
    BY <1>3, <1>4 DEF Queue1, RestartSeqPlayers, QueueStop, Restarted,
       EndUpdate, ChangeInv, Settled, Asking, Awaiting
  <1>5. CASE BeginUpdate
    BY <1>3, <1>5 DEF BeginUpdate, ChangeInv, Settled, Asking, Awaiting
  <1>6. CASE SendSpec
    BY <1>3, <1>6 DEF SendSpec, SendNoBlock, HasRoom, ChangeInv, Settled,
       Asking, Awaiting
  <1>7. CASE StartReset \/ Barrier
    BY <1>3, <1>7 DEF StartReset, Barrier, AwaitedInv, ChangeInv, Settled,
       Asking, Awaiting
  <1>8. ASSUME NEW s \in Specs, ChangeSpec(s) PROVE ChangeInv'
    <2>1. ~(changes > resets)
      BY <1>8, Zenon DEF ChangeSpec
    <2>2. changes = resets
      BY <1>3, <2>1 DEF Settled, CommandsTypeOK, StepTypes
    <2> QED  BY <1>3, <1>8, <2>2 DEF ChangeSpec, ChangeInv, Settled, Asking,
                CommandsTypeOK, StepTypes
  <1>9. CASE Frame
    <2>1. CASE Settled
      BY <1>9, <2>1 DEF Frame, Polled, Discard, Answer, ChangeInv, Settled
    <2>2. CASE Asking /\ changes = resets + 1 /\ resetQueue = << >>
      BY <1>9, <2>2 DEF Frame, Polled, Discard, Answer, ChangeInv, Asking
    <2>3. CASE Awaiting /\ changes = resets + 1 /\ resetQueue = << >>
      <3>1. Polled # 0 /\ specQueue' = << >> /\ audioSpec' = gameSpec'
        <4>1. gameSpec' = gameSpec  BY <1>9 DEF Frame
        <4>2. CASE specQueue = <<gameSpec>> /\ resetStep = 0
          BY <1>9, <4>1, <4>2 DEF Frame, Polled, Discard
        <4>3. CASE specQueue = << >> /\ resetStep # 0 /\ audioSpec = gameSpec
          BY <1>9, <4>1, <4>3 DEF Frame, Polled, Discard
        <4> QED  BY <2>3, <4>2, <4>3 DEF Awaiting
      <3>2. CASE resetStep' = 0
        BY <1>9, <2>3, <3>1, <3>2 DEF Frame, ChangeInv, Settled, Awaiting
      <3>3. CASE resetStep' # 0
        <4>1. resetQueue' = << >> /\ resets' = resets
          BY <1>9, <2>3, <3>1, <3>3 DEF Frame, Answer
        <4> QED  BY <1>9, <2>3, <3>1, <3>3, <4>1 DEF Frame, ChangeInv, Awaiting
      <3> QED  BY <3>2, <3>3
    <2> QED  BY <1>3, <2>1, <2>2, <2>3
  <1>10. CASE TakeMessage \/ EndFrame \/ EndBatch \/ Stop \/ Execute
    BY <1>3, <1>10 DEF TakeMessage, EndFrame, EndBatch, Stop, Execute,
       ChangeInv, Settled, Asking, Awaiting
  <1> QED
    BY <1>4, <1>5, <1>6, <1>7, <1>8, <1>9, <1>10 DEF CommandsNext, Game,
       GameUpdate, Audio
-----------------------------------------------------------------------------
LEMMA MarksInRing ==
    ASSUME CommandsTypeOK
    PROVE  /\ Position \in Ring /\ write \in Ring /\ read \in Ring /\ upto \in Ring
           /\ \A i \in 1..Len(messages) : messages[i][1] \in Ring /\ messages[i][2] \in Ring
           /\ \A p \in Ring : Ahead(p) \in Nat
           /\ Len(messages) \in Nat
  <1>1. Position \in Ring  BY PositionInRing
  <1>2. \A p \in Ring : Ahead(p) \in Nat  BY <1>1, Distances DEF Ahead
  <1>3. messages \in Seq(Ring \X Ring)  BY DEF CommandsTypeOK, RingTypes
  <1>4. \A i \in 1..Len(messages) : messages[i][1] \in Ring /\ messages[i][2] \in Ring
    BY <1>3, RangeTypes
  <1>5. Len(messages) \in Nat  BY <1>3, LenProperties
  <1> QED  BY <1>1, <1>2, <1>4, <1>5 DEF CommandsTypeOK, RingTypes

(* Only what the game has sent is due.                                     *)
LEMMA CoveredIsSent ==
    ASSUME CommandsTypeOK, RangesInv, NEW p \in Ring, Covered(p)
    PROVE  Ahead(p) < Ahead(read) /\ InArc(p)
  <1>1. CASE Resuming /\ Ahead(p) < Ahead(upto)
    BY <1>1, MarksInRing DEF RangesInv, InArc
  <1>2. CASE \E i \in 1..Len(messages) :
               Ahead(messages[i][1]) <= Ahead(p) /\ Ahead(p) < Ahead(messages[i][2])
    BY <1>2, MarksInRing DEF RangesInv, InArc
  <1> QED  BY <1>1, <1>2 DEF Covered

(* A new command changes no slot ahead, and lengthens the arc by its own.  *)
LEMMA QueueFacts ==
    ASSUME CommandsTypeOK, NEW kind \in Kinds, QueueCmd(kind), ~overrun',
           UNCHANGED <<messages, read, cur, finished, audio>>
    PROVE  /\ ~overrun /\ Position' = Position
           /\ \A p \in Ring : p # write => ring'[p] = ring[p]
           /\ ring'[write] = [kind |-> kind, id |-> lastId + 1, after |-> barriers]
           /\ \/ write' = write /\ Following(write) = read
              \/ /\ write' = Following(write) /\ Following(write) # read
                 /\ Behind(write', Position) = Behind(write, Position) + 1
           /\ \A p \in Ring : InArc(p) => p # write /\ InArc(p)'
           /\ \A p \in Ring : InArc(p)' => InArc(p) \/ p = write
  <1>1. Position' = Position  BY DEF Position
  <1>2. ~overrun /\ ~(Following(write) = Position /\ write' # write)
    BY Zenon DEF QueueCmd
  <1>3. /\ \A p \in Ring : p # write => ring'[p] = ring[p]
        /\ ring'[write] = [kind |-> kind, id |-> lastId + 1, after |-> barriers]
    BY DEF QueueCmd, CommandsTypeOK, RingTypes
  <1>4. write \in Ring /\ Position \in Ring  BY MarksInRing
  <1>5. Following(write) # write  BY <1>4, FollowingIs, RingAssumption DEF Ring
  <1>6. \/ write' = write /\ Following(write) = read
        \/ /\ write' = Following(write) /\ Following(write) # read
           /\ Behind(write', Position) = Behind(write, Position) + 1
    <2>1. CASE Following(write) = read  BY <2>1 DEF QueueCmd
    <2>2. CASE Following(write) # read
      <3>1. write' = Following(write)  BY <2>2 DEF QueueCmd
      <3>2. Following(write) # Position  BY <1>2, <1>5, <3>1
      <3> QED  BY <1>4, <2>2, <3>1, <3>2, Onwards
    <2> QED  BY <2>1, <2>2
  <1>7. \A p \in Ring : Behind(p, Position) \in Nat
           /\ (Behind(p, Position) = Behind(write, Position) => p = write)
    BY <1>4, Distances
  <1>8. \A p \in Ring : InArc(p) => p # write /\ InArc(p)'
    BY <1>1, <1>4, <1>6, <1>7 DEF InArc, Ahead
  <1>9. \A p \in Ring : InArc(p)' => InArc(p) \/ p = write
    BY <1>1, <1>4, <1>6, <1>7 DEF InArc, Ahead
  <1> QED  BY <1>1, <1>2, <1>3, <1>6, <1>8, <1>9

LEMMA QueueKeepsRing ==
    ASSUME CommandsTypeOK, SlotInv, RingInv, NEW kind \in Kinds, QueueCmd(kind),
           UNCHANGED <<messages, read, cur, finished, upto, audio, due, ran>>
    PROVE  RingInv'
  <1> SUFFICES ASSUME ~overrun' PROVE RangesInv' /\ OrderInv' /\ DueInv'
    BY DEF RingInv
  <1>1. /\ ~overrun /\ Position' = Position
        /\ \A p \in Ring : p # write => ring'[p] = ring[p]
        /\ ring'[write] = [kind |-> kind, id |-> lastId + 1, after |-> barriers]
        /\ \/ write' = write /\ Following(write) = read
           \/ /\ write' = Following(write) /\ Following(write) # read
              /\ Behind(write', Position) = Behind(write, Position) + 1
        /\ \A p \in Ring : InArc(p) => p # write /\ InArc(p)'
        /\ \A p \in Ring : InArc(p)' => InArc(p) \/ p = write
    BY QueueFacts
  <1>2. RangesInv /\ OrderInv /\ DueInv  BY <1>1 DEF RingInv
  <1>3. RangesInv'
    BY <1>1, <1>2, MarksInRing DEF RangesInv, Ahead, Resuming
  <1>4. ring'[write].id = lastId + 1 /\ lastId \in Nat
    BY <1>1 DEF CommandsTypeOK, RingTypes
  <1>5. \A p \in Ring : ring[p].id \in Nat /\ ring[p].id <= lastId
    BY DEF SlotInv, CommandsTypeOK, RingTypes
  <1>6. ran.id \in Nat /\ ran.id <= lastId  BY DEF SlotInv, CommandsTypeOK, RingTypes
  <1>7. ASSUME NEW p \in Ring, InArc(p)' PROVE ran'.id < ring'[p].id
    <2>1. CASE InArc(p)
      BY <1>1, <1>2, <2>1 DEF OrderInv
    <2>2. CASE p = write
      BY <1>4, <1>6, <2>2
    <2> QED  BY <1>1, <1>7, <2>1, <2>2
  <1>8. ASSUME NEW p \in Ring, NEW q \in Ring, Ahead(p)' < Ahead(q)', InArc(q)'
        PROVE  ring'[p].id < ring'[q].id
    <2>1. Ahead(p) < Ahead(q)  BY <1>1, <1>8 DEF Ahead
    <2>2. CASE InArc(q)
      <3>1. InArc(p)  BY <2>1, <2>2, MarksInRing DEF InArc
      <3> QED  BY <1>1, <1>2, <2>1, <2>2, <3>1 DEF OrderInv
    <2>3. CASE q = write
      <3>1. p # write  BY <2>1, <2>3, MarksInRing
      <3> QED  BY <1>1, <1>4, <1>5, <2>3, <3>1
    <2> QED  BY <1>1, <1>8, <2>2, <2>3
  <1>9. OrderInv'  BY <1>7, <1>8 DEF OrderInv
  <1>10. ASSUME NEW id \in due PROVE \E p \in Ring : ring'[p].id = id /\ Covered(p)'
    <2>1. PICK p \in Ring : ring[p].id = id /\ Covered(p)  BY <1>2 DEF DueInv
    <2>2. Covered(p)'  BY <1>1, <2>1 DEF Covered, Ahead, Resuming
    <2>3. p # write  BY <1>1, <1>2, <2>1, CoveredIsSent
    <2> QED  BY <1>1, <2>1, <2>2, <2>3
  <1>11. DueInv'  BY <1>10 DEF DueInv
  <1> QED  BY <1>3, <1>9, <1>11
(* A message is appended behind the others, or dropped.                    *)
LEMMA ScheduleFacts ==
    ASSUME CommandsTypeOK, Schedule, UNCHANGED <<cur, finished, audio>>
    PROVE  /\ Position' = Position /\ read' = write
           /\ \/ /\ messages' = messages /\ due' = due /\ messages # << >>
              \/ /\ messages' = Append(messages, <<read, write>>)
                 /\ due' = due \cup {ring[p].id : p \in SlotsFrom(read, write)}
  <1>1. messages \in Seq(Ring \X Ring)  BY DEF CommandsTypeOK, RingTypes
  <1>2. \/ /\ messages' = messages /\ due' = due /\ messages # << >>
        \/ /\ messages' = Append(messages, <<read, write>>)
           /\ due' = due \cup {ring[p].id : p \in SlotsFrom(read, write)}
    <2>1. CASE HasRoom(messages, Messages)
      BY <2>1, Zenon DEF Schedule, SendNoBlock
    <2>2. CASE ~HasRoom(messages, Messages)
      <3>1. messages # << >>  BY <2>2, RingAssumption DEF HasRoom
      <3> QED  BY <2>2, <3>1, Zenon DEF Schedule, SendNoBlock
    <2> QED  BY <2>1, <2>2
  <1>3. Position' = Position
    <2>1. CASE messages' = messages  BY <1>2, <2>1 DEF Position
    <2>2. CASE messages' = Append(messages, <<read, write>>)
      <3>1. messages' # << >>  BY <1>1, <2>2
      <3>2. messages # << >> => Head(messages') = Head(messages)
        BY <1>1, <2>2
      <3>3. messages = << >> => Head(messages') = <<read, write>>
        BY <2>2
      <3> QED  BY <3>1, <3>2, <3>3 DEF Position
    <2> QED  BY <1>2, <2>1, <2>2
  <1> QED  BY <1>2, <1>3 DEF Schedule

LEMMA ScheduleKeepsRing ==
    ASSUME CommandsTypeOK, RingInv, Schedule,
           UNCHANGED <<ring, write, cur, finished, upto, audio, ran, overrun>>
    PROVE  RingInv'
  <1> SUFFICES ASSUME ~overrun PROVE RangesInv' /\ OrderInv' /\ DueInv'
    BY DEF RingInv
  <1>1. RangesInv /\ OrderInv /\ DueInv  BY DEF RingInv
  <1>2. /\ Position' = Position /\ read' = write
        /\ \/ /\ messages' = messages /\ due' = due /\ messages # << >>
           \/ /\ messages' = Append(messages, <<read, write>>)
              /\ due' = due \cup {ring[p].id : p \in SlotsFrom(read, write)}
    BY ScheduleFacts
  <1>3. OrderInv'  BY <1>1, <1>2 DEF OrderInv, InArc, Ahead
  <1>4. CASE messages' = messages /\ due' = due
    <2>1. RangesInv'  BY <1>1, <1>2, <1>4, MarksInRing DEF RangesInv, Ahead, Resuming
    <2>2. DueInv'  BY <1>1, <1>2, <1>4 DEF DueInv, Covered, Ahead, Resuming
    <2> QED  BY <1>3, <2>1, <2>2
  <1>5. CASE /\ messages' = Append(messages, <<read, write>>)
             /\ due' = due \cup {ring[p].id : p \in SlotsFrom(read, write)}
    <2>0. messages \in Seq(Ring \X Ring)  BY DEF CommandsTypeOK, RingTypes
    <2> DEFINE n == Len(messages) + 1
    <2>1. /\ Len(messages') = n /\ n \in Nat /\ n \in 1..n
          /\ messages'[n] = <<read, write>>
          /\ \A i \in 1..n : i # n => i \in 1..Len(messages) /\ messages'[i] = messages[i]
          /\ \A i \in 1..Len(messages) : i \in 1..n /\ messages'[i] = messages[i]
      BY <1>5, <2>0
    <2> HIDE DEF n
    <2>2. ASSUME NEW i \in 1..n
          PROVE  /\ Ahead(messages[i][1])' <= Ahead(messages[i][2])'
                 /\ Ahead(messages[i][2])' <= Ahead(read)'
                 /\ Resuming' => Ahead(upto)' <= Ahead(messages[i][1])'
                 /\ \A j \in 1..n : i < j => Ahead(messages[i][2])' <= Ahead(messages[j][1])'
      <3>1. CASE i = n
        BY <1>1, <1>2, <2>1, <3>1, MarksInRing DEF RangesInv, Ahead, Resuming
      <3>2. CASE i # n
        <4>1. i \in 1..Len(messages) /\ messages'[i] = messages[i]  BY <2>1, <3>2
        <4>2. /\ Ahead(messages[i][1]) <= Ahead(messages[i][2])
              /\ Ahead(messages[i][2]) <= Ahead(read)
              /\ Resuming => Ahead(upto) <= Ahead(messages[i][1])
              /\ Ahead(read) <= Ahead(write)
          BY <1>1, <4>1 DEF RangesInv
        <4>3. /\ Ahead(messages[i][1])' <= Ahead(messages[i][2])'
              /\ Resuming' => Ahead(upto)' <= Ahead(messages[i][1])'
          BY <1>2, <4>1, <4>2 DEF Ahead, Resuming
        <4>4. Ahead(messages[i][2])' <= Ahead(read)'
          BY <1>2, <4>1, <4>2, MarksInRing DEF Ahead
        <4>5. ASSUME NEW j \in 1..n, i < j
              PROVE  Ahead(messages[i][2])' <= Ahead(messages[j][1])'
          <5>1. CASE j = n  BY <1>2, <2>1, <4>1, <4>2, <5>1 DEF Ahead
          <5>2. CASE j # n
            BY <1>1, <1>2, <2>1, <4>1, <4>5, <5>2 DEF RangesInv, Ahead
          <5> QED  BY <5>1, <5>2
        <4> QED  BY <4>3, <4>4, <4>5
      <3> QED  BY <3>1, <3>2
    <2>3. RangesInv'
      <3>1. Ahead(read)' <= Ahead(write)'
        BY <1>2, MarksInRing DEF Ahead
      <3>2. Resuming' => Ahead(upto)' <= Ahead(read)'
        BY <1>1, <1>2, MarksInRing DEF RangesInv, Ahead, Resuming
      <3> QED  BY <2>1, <2>2, <3>1, <3>2 DEF RangesInv
    <2>4. ASSUME NEW p \in Ring, Covered(p) PROVE Covered(p)'
      BY <1>2, <2>1, <2>4 DEF Covered, Ahead, Resuming
    <2>5. ASSUME NEW p \in SlotsFrom(read, write) PROVE p \in Ring /\ Covered(p)'
      <3>1. p \in Ring /\ Ahead(read) <= Ahead(p) /\ Ahead(p) < Ahead(write)
        BY <1>1, <2>5, MarksInRing, SlotsOfRange DEF RangesInv, Ahead
      <3> QED  BY <1>2, <2>1, <3>1 DEF Covered, Ahead
    <2>6. DueInv'
      BY <1>1, <1>5, <2>4, <2>5 DEF DueInv
    <2> QED  BY <1>3, <2>3, <2>6
  <1> QED  BY <1>2, <1>4, <1>5

(* What was not sent is given up: the arc begins at read, or where it did. *)
LEMMA GivingUpKeepsRing ==
    ASSUME CommandsTypeOK, RingInv, read' = write,
           UNCHANGED <<ring, write, messages, cur, finished, upto, audio, due, ran, overrun>>
    PROVE  RingInv'
  <1> SUFFICES ASSUME ~overrun PROVE RangesInv' /\ OrderInv' /\ DueInv'
    BY DEF RingInv
  <1>1. RangesInv /\ OrderInv /\ DueInv  BY DEF RingInv
  <1>2. CASE Resuming \/ messages # << >>
    <2>1. Position' = Position  BY <1>2 DEF Position, Resuming
    <2>2. OrderInv'  BY <1>1, <2>1 DEF OrderInv, InArc, Ahead
    <2>3. RangesInv'  BY <1>1, <2>1, MarksInRing DEF RangesInv, Ahead, Resuming
    <2>4. DueInv'  BY <1>1, <2>1 DEF DueInv, Covered, Ahead, Resuming
    <2> QED  BY <2>2, <2>3, <2>4
  <1>3. CASE ~Resuming /\ messages = << >>
    <2>1. Position' = write  BY <1>3 DEF Position, Resuming
    <2>2. Behind(write, write) = 0 /\ \A p \in Ring : Behind(p, write) \in Nat
      BY Distances, MarksInRing
    <2>3. RangesInv' /\ OrderInv'
      BY <1>3, <2>1, <2>2, MarksInRing DEF RangesInv, OrderInv, InArc, Ahead,
         Resuming
    <2>4. DueInv'  BY <1>1, <1>3 DEF DueInv, Covered, Resuming
    <2> QED  BY <2>3, <2>4
  <1> QED  BY <1>2, <1>3

(* Between batches the audio thread goes on where it would.                *)
LEMMA FrameKeepsRing ==
    ASSUME CommandsTypeOK, RingInv, audio # "batch", audio' # "batch",
           UNCHANGED <<ring, write, read, messages, cur, finished, upto, due, ran, overrun>>
    PROVE  RingInv' /\ Position' = Position
  <1>1. Position' = Position /\ Resuming' = Resuming  BY DEF Position, Resuming
  <1> QED
    BY <1>1 DEF RingInv, RangesInv, OrderInv, DueInv, Covered, InArc, Ahead
(* A message is taken where the audio thread is, or a STOP left it before. *)
LEMMA TakeFacts ==
    ASSUME CommandsTypeOK, TakeMessage
    PROVE  /\ Position' = Position /\ Resuming'
           /\ 1 \in 1..Len(messages) /\ upto' = messages[1][2]
           /\ ~Resuming => Position = messages[1][1]
           /\ Len(messages') = Len(messages) - 1
           /\ \A i \in 1..Len(messages') :
                 i + 1 \in 1..Len(messages) /\ messages'[i] = messages[i + 1]
           /\ \A i \in 1..Len(messages) :
                 i # 1 => i - 1 \in 1..Len(messages') /\ messages'[i - 1] = messages[i]
  <1>1. messages \in Seq(Ring \X Ring) /\ messages # << >> /\ messages' = Tail(messages)
    BY DEF TakeMessage, CommandsTypeOK, RingTypes
  <1>2. /\ 1 \in 1..Len(messages) /\ Head(messages) = messages[1]
        /\ Len(messages') = Len(messages) - 1
        /\ \A i \in 1..Len(messages') :
              i + 1 \in 1..Len(messages) /\ messages'[i] = messages[i + 1]
        /\ \A i \in 1..Len(messages) :
              i # 1 => i - 1 \in 1..Len(messages') /\ messages'[i - 1] = messages[i]
    BY <1>1
  <1>3. upto' = messages[1][2] /\ audio' = "batch" /\ audio = "process"
    BY <1>2 DEF TakeMessage
  <1>4. Position = cur'  BY <1>1, <1>3 DEF TakeMessage, Position
  <1>5. Position' = cur' /\ Resuming'  BY <1>3 DEF Position, Resuming
  <1>6. ~Resuming => Position = messages[1][1]
    BY <1>1, <1>2, <1>3 DEF Position, Resuming
  <1> QED  BY <1>2, <1>3, <1>4, <1>5, <1>6

LEMMA TakeKeepsRing ==
    ASSUME CommandsTypeOK, RingInv, TakeMessage
    PROVE  RingInv'
  <1> USE DEF gameVars, tally
  <1> SUFFICES ASSUME ~overrun PROVE RangesInv' /\ OrderInv' /\ DueInv'
    BY DEF RingInv, TakeMessage
  <1>1. RangesInv /\ OrderInv /\ DueInv  BY DEF RingInv
  <1>2. /\ Position' = Position /\ Resuming'
        /\ 1 \in 1..Len(messages) /\ upto' = messages[1][2]
        /\ ~Resuming => Position = messages[1][1]
        /\ Len(messages') = Len(messages) - 1
        /\ \A i \in 1..Len(messages') :
              i + 1 \in 1..Len(messages) /\ messages'[i] = messages[i + 1]
        /\ \A i \in 1..Len(messages) :
              i # 1 => i - 1 \in 1..Len(messages') /\ messages'[i - 1] = messages[i]
    BY TakeFacts
  <1>3. /\ ring' = ring /\ write' = write /\ read' = read /\ due' = due /\ ran' = ran
    BY DEF TakeMessage
  <1>4. OrderInv'  BY <1>1, <1>2, <1>3 DEF OrderInv, InArc, Ahead
  <1>5. ASSUME NEW i \in 1..Len(messages')
        PROVE  /\ Ahead(messages[i][1])' <= Ahead(messages[i][2])'
               /\ Ahead(messages[i][2])' <= Ahead(read)'
               /\ Ahead(upto)' <= Ahead(messages[i][1])'
               /\ \A j \in 1..Len(messages') :
                     i < j => Ahead(messages[i][2])' <= Ahead(messages[j][1])'
    <2>1. i + 1 \in 1..Len(messages) /\ messages'[i] = messages[i + 1] /\ 1 < i + 1
      BY <1>2, <1>5, MarksInRing
    <2>2. /\ Ahead(messages[i + 1][1]) <= Ahead(messages[i + 1][2])
          /\ Ahead(messages[i + 1][2]) <= Ahead(read)
          /\ Ahead(messages[1][2]) <= Ahead(messages[i + 1][1])
      BY <1>1, <1>2, <2>1 DEF RangesInv
    <2>3. ASSUME NEW j \in 1..Len(messages'), i < j
          PROVE  Ahead(messages[i][2])' <= Ahead(messages[j][1])'
      <3>1. j + 1 \in 1..Len(messages) /\ messages'[j] = messages[j + 1] /\ i + 1 < j + 1
        BY <1>2, <2>3, MarksInRing
      <3> QED  BY <1>1, <1>2, <2>1, <3>1 DEF RangesInv, Ahead
    <2> QED  BY <1>2, <1>3, <2>1, <2>2, <2>3 DEF Ahead
  <1>6. RangesInv'
    <2>1. Ahead(read)' <= Ahead(write)' /\ Ahead(upto)' <= Ahead(read)'
      BY <1>1, <1>2, <1>3 DEF RangesInv, Ahead
    <2> QED  BY <1>5, <2>1 DEF RangesInv
  <1>7. ASSUME NEW p \in Ring, Covered(p) PROVE Covered(p)'
    <2>1. CASE Ahead(p) < Ahead(messages[1][2])
      BY <1>2, <2>1 DEF Covered, Ahead
    <2>2. CASE Resuming /\ Ahead(p) < Ahead(upto)
      <3>1. Ahead(p) < Ahead(messages[1][2])
        BY <1>1, <1>2, <2>2, MarksInRing DEF RangesInv
      <3> QED  BY <2>1, <3>1
    <2>3. ASSUME NEW i \in 1..Len(messages), i # 1,
                 Ahead(messages[i][1]) <= Ahead(p), Ahead(p) < Ahead(messages[i][2])
          PROVE  Covered(p)'
      BY <1>2, <2>3 DEF Covered, Ahead
    <2> QED  BY <1>7, <2>1, <2>2, <2>3 DEF Covered
  <1>8. DueInv'  BY <1>1, <1>3, <1>7 DEF DueInv
  <1> QED  BY <1>4, <1>6, <1>8

(* At the end of a batch the audio thread jumps to the next message, or to *)
(* what the game has not sent: nothing that is due lies in between.        *)
LEMMA EndFacts ==
    ASSUME CommandsTypeOK, RangesInv, EndBatch
    PROVE  /\ Position' \in Ring /\ Behind(upto, Position) = 0 /\ ~Resuming'
           /\ Behind(Position', Position) <= Behind(read, Position)
           /\ \A i \in 1..Len(messages) :
                 Behind(Position', Position) <= Behind(messages[i][1], Position)
           /\ messages = << >> => Position' = read
  <1> USE DEF gameVars, tally
  <1>1. /\ audio = "batch" /\ cur = upto /\ finished' = FALSE /\ audio' = "process"
        /\ messages' = messages /\ read' = read
    BY DEF EndBatch
  <1>2. Position = upto /\ ~Resuming'  BY <1>1 DEF Position, Resuming
  <1>3. Behind(upto, Position) = 0  BY <1>2, Distances, MarksInRing
  <1>4. CASE messages = << >>
    <2>1. Position' = read  BY <1>1, <1>4 DEF Position
    <2> QED  BY <1>2, <1>3, <1>4, <2>1, MarksInRing DEF Ahead
  <1>5. CASE messages # << >>
    <2>1. messages \in Seq(Ring \X Ring)  BY DEF CommandsTypeOK, RingTypes
    <2>2. 1 \in 1..Len(messages) /\ Head(messages) = messages[1]  BY <1>5, <2>1
    <2>3. Position' = messages[1][1]  BY <1>1, <1>5, <2>2 DEF Position
    <2>4. Ahead(messages[1][1]) <= Ahead(read)
      BY <2>2, MarksInRing DEF RangesInv
    <2>5. \A i \in 1..Len(messages) : Ahead(messages[1][1]) <= Ahead(messages[i][1])
      <3>1. ASSUME NEW i \in 1..Len(messages), i # 1
            PROVE  Ahead(messages[1][1]) <= Ahead(messages[i][1])
        <4>1. 1 < i  BY <3>1
        <4> QED  BY <2>2, <3>1, <4>1, MarksInRing DEF RangesInv
      <3> QED  BY <2>2, <3>1, MarksInRing
    <2> QED  BY <1>2, <1>3, <1>5, <2>2, <2>3, <2>4, <2>5, MarksInRing DEF Ahead
  <1> QED  BY <1>4, <1>5

LEMMA EndKeepsRing ==
    ASSUME CommandsTypeOK, RingInv, EndBatch
    PROVE  RingInv'
  <1> USE DEF gameVars, tally
  <1> SUFFICES ASSUME ~overrun PROVE RangesInv' /\ OrderInv' /\ DueInv'
    BY DEF RingInv, EndBatch
  <1>1. RangesInv /\ OrderInv /\ DueInv  BY DEF RingInv
  <1>2. /\ Position' \in Ring /\ Behind(upto, Position) = 0 /\ ~Resuming'
        /\ Behind(Position', Position) <= Behind(read, Position)
        /\ \A i \in 1..Len(messages) :
              Behind(Position', Position) <= Behind(messages[i][1], Position)
    BY <1>1, EndFacts
  <1>3. /\ ring' = ring /\ write' = write /\ read' = read /\ messages' = messages
        /\ due' = due /\ ran' = ran
    BY DEF EndBatch
  <1>4. Behind(Position', Position) <= Behind(write, Position)
        /\ Behind(Position', Position) \in Nat
    BY <1>1, <1>2, MarksInRing, Distances DEF RangesInv, Ahead
  <1>5. /\ \A p \in Ring : Behind(Position', Position) <= Behind(p, Position) =>
              Behind(p, Position') = Behind(p, Position) - Behind(Position', Position)
        /\ \A p \in Ring : Behind(p, Position') < Behind(write, Position') =>
              Behind(p, Position) = Behind(p, Position') + Behind(Position', Position)
    BY <1>2, <1>4, MarksInRing, Rebased
  <1>6. OrderInv'
    <2>1. \A p \in Ring : InArc(p)' =>
             InArc(p) /\ Ahead(p) = Ahead(p)' + Behind(Position', Position)
      BY <1>3, <1>4, <1>5, MarksInRing DEF InArc, Ahead
    <2>2. \A p \in Ring : Behind(p, Position') \in Nat  BY <1>2, Distances
    <2>3. \A p, q \in Ring : Ahead(p)' < Ahead(q)' /\ InArc(q)' => InArc(p)'
      BY <1>2, <1>3, <2>2, MarksInRing DEF InArc, Ahead
    <2>4. \A p, q \in Ring : Ahead(p)' < Ahead(q)' /\ InArc(q)' => Ahead(p) < Ahead(q)
      BY <1>4, <2>1, <2>2, <2>3 DEF Ahead
    <2> QED  BY <1>1, <1>3, <2>1, <2>4 DEF OrderInv
  <1>7. RangesInv'
    <2>1. \A i \in 1..Len(messages) :
             /\ Behind(Position', Position) <= Behind(messages[i][2], Position)
             /\ messages[i][1] \in Ring /\ messages[i][2] \in Ring
      BY <1>1, <1>2, <1>4, MarksInRing DEF RangesInv, Ahead
    <2>2. \A i \in 1..Len(messages) :
             /\ Ahead(messages[i][1])' = Ahead(messages[i][1]) - Behind(Position', Position)
             /\ Ahead(messages[i][2])' = Ahead(messages[i][2]) - Behind(Position', Position)
      BY <1>2, <1>3, <1>5, <2>1 DEF Ahead
    <2>3. /\ Ahead(read)' = Ahead(read) - Behind(Position', Position)
          /\ Ahead(write)' = Ahead(write) - Behind(Position', Position)
      BY <1>2, <1>3, <1>4, <1>5, MarksInRing DEF Ahead
    <2>4. Ahead(read)' <= Ahead(write)'
      BY <1>1, <1>4, <2>3, MarksInRing DEF RangesInv
    <2>5. ASSUME NEW i \in 1..Len(messages)
          PROVE  /\ Ahead(messages[i][1])' <= Ahead(messages[i][2])'
                 /\ Ahead(messages[i][2])' <= Ahead(read)'
                 /\ \A j \in 1..Len(messages) :
                       i < j => Ahead(messages[i][2])' <= Ahead(messages[j][1])'
      <3>1. /\ Ahead(messages[i][1]) <= Ahead(messages[i][2])
            /\ Ahead(messages[i][2]) <= Ahead(read)
            /\ \A j \in 1..Len(messages) :
                  i < j => Ahead(messages[i][2]) <= Ahead(messages[j][1])
        BY <1>1 DEF RangesInv
      <3>2. /\ Ahead(read) \in Nat
            /\ Ahead(messages[i][1]) \in Nat /\ Ahead(messages[i][2]) \in Nat
            /\ \A j \in 1..Len(messages) : Ahead(messages[j][1]) \in Nat
        BY <2>1, MarksInRing
      <3> QED  BY <1>4, <2>2, <2>3, <3>1, <3>2
    <2> QED  BY <1>2, <1>3, <2>4, <2>5 DEF RangesInv
  <1>8. ASSUME NEW p \in Ring, Covered(p) PROVE Covered(p)'
    <2>1. ~(Ahead(p) < Ahead(upto))  BY <1>2, MarksInRing DEF Ahead
    <2>2. PICK i \in 1..Len(messages) :
             Ahead(messages[i][1]) <= Ahead(p) /\ Ahead(p) < Ahead(messages[i][2])
      BY <1>8, <2>1 DEF Covered
    <2>3. /\ Behind(Position', Position) <= Behind(messages[i][1], Position)
          /\ Behind(Position', Position) <= Behind(messages[i][2], Position)
          /\ Behind(Position', Position) <= Behind(p, Position)
          /\ messages[i][1] \in Ring /\ messages[i][2] \in Ring
      BY <1>2, <1>4, <2>2, MarksInRing DEF Ahead
    <2>4. /\ Ahead(messages[i][1])' <= Ahead(p)'
          /\ Ahead(p)' < Ahead(messages[i][2])'
      BY <1>3, <1>4, <1>5, <2>2, <2>3, MarksInRing DEF Ahead
    <2> QED  BY <1>3, <2>4 DEF Covered
  <1>9. DueInv'  BY <1>1, <1>3, <1>8 DEF DueInv
  <1> QED  BY <1>6, <1>7, <1>9
(* The audio thread makes a step in the ring.                              *)
LEMMA StepFacts ==
    ASSUME CommandsTypeOK, RangesInv, audio = "batch", cur # upto,
           cur' = Following(cur), finished' \/ audio' = "batch"
    PROVE  /\ Position = cur /\ Position' \in Ring /\ Resuming /\ Resuming'
           /\ \A p \in Ring : p # cur => Behind(p, Position') = Ahead(p) - 1
           /\ \A p \in Ring : Behind(p, Position') < Behind(write, Position') =>
                 p # cur /\ InArc(p)
           /\ Ahead(cur) = 0 /\ \A p \in Ring : p # cur => Ahead(p) > 0
           /\ InArc(cur) /\ 0 < Ahead(upto)
  <1>1. Position = cur /\ Resuming /\ Resuming' /\ Position' = cur'
    BY DEF Position, Resuming
  <1>2. cur \in Ring /\ cur' \in Ring  BY FollowingIs DEF CommandsTypeOK, RingTypes
  <1>3. /\ Ahead(cur) = 0 /\ \A p \in Ring : p # cur => Ahead(p) > 0
        /\ \A p \in Ring : Ahead(p) \in Nat
    BY <1>1, <1>2, Distances DEF Ahead
  <1>4. Behind(cur', cur) = 1
    <2>1. Following(cur) # cur  BY <1>2, FollowingIs, RingAssumption DEF Ring
    <2> QED  BY <1>2, <2>1, Onwards, Distances
  <1>5. 0 < Ahead(upto) /\ InArc(cur) /\ 0 < Ahead(write)
    BY <1>1, <1>3, MarksInRing DEF RangesInv, InArc
  <1>6. /\ \A p \in Ring : Behind(cur', cur) <= Behind(p, cur) =>
              Behind(p, cur') = Behind(p, cur) - Behind(cur', cur)
        /\ \A p \in Ring : Behind(p, cur') < Behind(write, cur') =>
              Behind(p, cur) = Behind(p, cur') + Behind(cur', cur)
    <2>1. Behind(cur', cur) <= Behind(write, cur)
      BY <1>1, <1>3, <1>4, <1>5, MarksInRing DEF Ahead
    <2> QED  BY <1>2, <2>1, MarksInRing, Rebased
  <1>7. \A p \in Ring : p # cur => Behind(p, Position') = Ahead(p) - 1
    BY <1>1, <1>3, <1>4, <1>6 DEF Ahead
  <1>8. ASSUME NEW p \in Ring, Behind(p, cur') < Behind(write, cur')
        PROVE  p # cur /\ InArc(p)
    <2>1. Behind(p, cur) = Behind(p, cur') + 1  BY <1>4, <1>6, <1>8
    <2>2. Behind(p, cur') \in Nat  BY <1>2, Distances
    <2>3. p # cur  BY <1>1, <1>3, <2>1, <2>2 DEF Ahead
    <2>4. write # cur  BY <1>3, <1>5
    <2>5. Behind(write, cur') = Ahead(write) - 1  BY <1>1, <1>7, <2>4, MarksInRing
    <2> QED  BY <1>1, <1>3, <1>8, <2>1, <2>2, <2>3, <2>5, MarksInRing DEF InArc, Ahead
  <1> QED  BY <1>1, <1>2, <1>3, <1>5, <1>7, <1>8

LEMMA StepKeepsRing ==
    ASSUME CommandsTypeOK, RingInv, audio = "batch", cur # upto,
           cur' = Following(cur), finished' \/ audio' = "batch",
           \A p \in Ring : ring'[p].id = ring[p].id,
           ran' = ran \/ ran' = ring[cur], due' = due \ {ring[cur].id},
           UNCHANGED <<write, read, messages, upto, overrun>>
    PROVE  RingInv'
  <1> SUFFICES ASSUME ~overrun PROVE RangesInv' /\ OrderInv' /\ DueInv'
    BY DEF RingInv
  <1>1. RangesInv /\ OrderInv /\ DueInv  BY DEF RingInv
  <1>2. /\ Position = cur /\ Position' \in Ring /\ Resuming /\ Resuming'
        /\ \A p \in Ring : p # cur => Behind(p, Position') = Ahead(p) - 1
        /\ \A p \in Ring : Behind(p, Position') < Behind(write, Position') =>
              p # cur /\ InArc(p)
        /\ Ahead(cur) = 0 /\ \A p \in Ring : p # cur => Ahead(p) > 0
        /\ InArc(cur) /\ 0 < Ahead(upto)
    BY <1>1, StepFacts
  <1>3. cur \in Ring /\ \A p \in Ring : Behind(p, Position') \in Nat
    BY <1>2, Distances DEF CommandsTypeOK, RingTypes
  <1>4. ran.id \in Nat /\ \A p \in Ring : ring[p].id \in Nat
    BY DEF CommandsTypeOK, RingTypes
  <1>5. OrderInv'
    <2>1. ASSUME NEW p \in Ring, InArc(p)' PROVE ran'.id < ring'[p].id
      <3>1. p # cur /\ InArc(p) /\ Ahead(cur) < Ahead(p)
        BY <1>2, <2>1 DEF InArc, Ahead
      <3>2. ran.id < ring[p].id /\ ring[cur].id < ring[p].id
        BY <1>1, <1>3, <3>1 DEF OrderInv
      <3> QED  BY <3>2
    <2>2. ASSUME NEW p \in Ring, NEW q \in Ring, Ahead(p)' < Ahead(q)', InArc(q)'
          PROVE  ring'[p].id < ring'[q].id
      <3>1. q # cur /\ InArc(q)  BY <1>2, <2>2 DEF InArc, Ahead
      <3>2. InArc(p)'  BY <1>3, <2>2, MarksInRing DEF InArc, Ahead
      <3>3. p # cur  BY <1>2, <3>2 DEF InArc, Ahead
      <3>4. Ahead(p) < Ahead(q)  BY <1>2, <2>2, <3>1, <3>3, MarksInRing DEF Ahead
      <3> QED  BY <1>1, <3>1, <3>4 DEF OrderInv
    <2> QED  BY <2>1, <2>2 DEF OrderInv
  <1>6. \A p \in Ring : Ahead(upto) <= Ahead(p) => Ahead(p)' = Ahead(p) - 1
    BY <1>2, MarksInRing DEF Ahead
  <1>7. /\ Ahead(upto)' = Ahead(upto) - 1
        /\ Ahead(read)' = Ahead(read) - 1 /\ Ahead(write)' = Ahead(write) - 1
        /\ \A i \in 1..Len(messages) :
              /\ Ahead(messages[i][1])' = Ahead(messages[i][1]) - 1
              /\ Ahead(messages[i][2])' = Ahead(messages[i][2]) - 1
    <2>1. /\ Ahead(upto) <= Ahead(read) /\ Ahead(upto) <= Ahead(write)
          /\ \A i \in 1..Len(messages) :
                /\ Ahead(upto) <= Ahead(messages[i][1])
                /\ Ahead(upto) <= Ahead(messages[i][2])
      BY <1>1, <1>2, MarksInRing DEF RangesInv
    <2> QED  BY <1>6, <2>1, MarksInRing DEF Ahead
  <1>8. RangesInv'
    <2>1. Ahead(read)' <= Ahead(write)' /\ Ahead(upto)' <= Ahead(read)'
      BY <1>1, <1>2, <1>7, MarksInRing DEF RangesInv
    <2>2. ASSUME NEW i \in 1..Len(messages)
          PROVE  /\ Ahead(messages[i][1])' <= Ahead(messages[i][2])'
                 /\ Ahead(messages[i][2])' <= Ahead(read)'
                 /\ Ahead(upto)' <= Ahead(messages[i][1])'
                 /\ \A j \in 1..Len(messages) :
                       i < j => Ahead(messages[i][2])' <= Ahead(messages[j][1])'
      <3>1. /\ Ahead(messages[i][1]) <= Ahead(messages[i][2])
            /\ Ahead(messages[i][2]) <= Ahead(read)
            /\ Ahead(upto) <= Ahead(messages[i][1])
            /\ \A j \in 1..Len(messages) :
                  i < j => Ahead(messages[i][2]) <= Ahead(messages[j][1])
        BY <1>1, <1>2 DEF RangesInv
      <3>2. /\ Ahead(read) \in Nat /\ Ahead(upto) \in Nat
            /\ Ahead(messages[i][1]) \in Nat /\ Ahead(messages[i][2]) \in Nat
            /\ \A j \in 1..Len(messages) : Ahead(messages[j][1]) \in Nat
        BY MarksInRing
      <3>3. /\ Ahead(messages[i][1])' <= Ahead(messages[i][2])'
            /\ Ahead(messages[i][2])' <= Ahead(read)'
            /\ Ahead(upto)' <= Ahead(messages[i][1])'
        BY <1>7, <3>1, <3>2
      <3>4. ASSUME NEW j \in 1..Len(messages), i < j
            PROVE  Ahead(messages[i][2])' <= Ahead(messages[j][1])'
        <4>1. /\ Ahead(messages[i][2])' = Ahead(messages[i][2]) - 1
              /\ Ahead(messages[j][1])' = Ahead(messages[j][1]) - 1
          BY <1>7
        <4> QED  BY <3>1, <3>2, <3>4, <4>1
      <3> QED  BY <3>3, <3>4
    <2> QED  BY <2>1, <2>2 DEF RangesInv
  <1>9. ASSUME NEW p \in Ring, Covered(p), p # cur PROVE Covered(p)'
    <2>1. Ahead(p)' = Ahead(p) - 1 /\ Ahead(p) \in Nat
      BY <1>2, <1>9, MarksInRing DEF Ahead
    <2>2. CASE Ahead(p) < Ahead(upto)
      BY <1>2, <1>7, <2>1, <2>2, MarksInRing DEF Covered
    <2>3. ASSUME NEW i \in 1..Len(messages),
                 Ahead(messages[i][1]) <= Ahead(p), Ahead(p) < Ahead(messages[i][2])
          PROVE  Covered(p)'
      <3>1. Ahead(messages[i][1])' <= Ahead(p)' /\ Ahead(p)' < Ahead(messages[i][2])'
        BY <1>7, <2>1, <2>3, MarksInRing
      <3> QED  BY <3>1 DEF Covered
    <2> QED  BY <1>9, <2>2, <2>3 DEF Covered
  <1>10. DueInv'
    <2>1. ASSUME NEW id \in due' PROVE \E p \in Ring : ring'[p].id = id /\ Covered(p)'
      <3>1. PICK p \in Ring : ring[p].id = id /\ Covered(p)  BY <1>1, <2>1 DEF DueInv
      <3>2. p # cur  BY <2>1, <3>1
      <3> QED  BY <1>9, <3>1, <3>2
    <2> QED  BY <2>1 DEF DueInv
  <1> QED  BY <1>5, <1>8, <1>10
LEMMA RingKept ==
    ASSUME CommandsTypeOK, SlotInv, RingInv, [CommandsNext]_commandVars
    PROVE  RingInv'
  <1> USE DEF gameVars, audioVars, tally
  <1>1. CASE UNCHANGED commandVars
    BY <1>1 DEF commandVars, RingInv, RangesInv, OrderInv, DueInv, Covered,
       InArc, Ahead, Resuming, Position
  <1>2. CASE Queue1
    <2>1. QueueCmd("play") /\ "play" \in Kinds  BY <1>2 DEF Queue1, Kinds
    <2>2. UNCHANGED <<messages, read, cur, finished, upto, audio, due, ran>>
      BY <1>2 DEF Queue1
    <2> QED  BY <2>1, <2>2, QueueKeepsRing
  <1>3. CASE QueueStop
    <2>1. QueueCmd("stop") /\ "stop" \in Kinds  BY <1>3 DEF QueueStop, Kinds
    <2>2. UNCHANGED <<messages, read, cur, finished, upto, audio, due, ran>>
      BY <1>3 DEF QueueStop
    <2> QED  BY <2>1, <2>2, QueueKeepsRing
  <1>4. CASE StartReset
    <2>1. QueueCmd("play") /\ "play" \in Kinds  BY <1>4 DEF StartReset, Kinds
    <2>2. UNCHANGED <<messages, read, cur, finished, upto, audio, due, ran>>
      BY <1>4 DEF StartReset
    <2> QED  BY <2>1, <2>2, QueueKeepsRing
  <1>5. CASE Barrier
    <2>1. QueueCmd("stop") /\ "stop" \in Kinds  BY <1>5 DEF Barrier, Kinds
    <2>2. UNCHANGED <<messages, read, cur, finished, upto, audio, due, ran>>
      BY <1>5 DEF Barrier
    <2> QED  BY <2>1, <2>2, QueueKeepsRing
  <1>6. CASE BeginUpdate \/ Restarted \/ SendSpec
    BY <1>6 DEF BeginUpdate, Restarted, SendSpec, RingInv, RangesInv, OrderInv,
       DueInv, Covered, InArc, Ahead, Resuming, Position
  <1>7. CASE RestartSeqPlayers \/ EndUpdate
    <2>1. Schedule /\ UNCHANGED <<ring, write, cur, finished, upto, audio, ran, overrun>>
      BY <1>7 DEF RestartSeqPlayers, EndUpdate
    <2> QED  BY <2>1, ScheduleKeepsRing
  <1>8. CASE \E s \in Specs : ChangeSpec(s)
    BY <1>8, GivingUpKeepsRing DEF ChangeSpec
  <1>9. CASE Frame
    <2>1. audio # "batch" /\ audio' # "batch"  BY <1>9 DEF Frame
    <2>2. UNCHANGED <<ring, write, read, messages, cur, finished, upto, due, ran, overrun>>
      BY <1>9 DEF Frame
    <2> QED  BY <2>1, <2>2, FrameKeepsRing
  <1>10. CASE EndFrame
    <2>1. audio # "batch" /\ audio' # "batch"  BY <1>10 DEF EndFrame
    <2>2. UNCHANGED <<ring, write, read, messages, cur, finished, upto, due, ran, overrun>>
      BY <1>10 DEF EndFrame
    <2> QED  BY <2>1, <2>2, FrameKeepsRing
  <1>11. CASE TakeMessage  BY <1>11, TakeKeepsRing
  <1>12. CASE EndBatch  BY <1>12, EndKeepsRing
  <1>13. CASE Stop
    <2>1. /\ audio = "batch" /\ cur # upto /\ cur' = Following(cur) /\ finished'
          /\ ring' = ring /\ ran' = ran /\ due' = due \ {ring[cur].id}
          /\ UNCHANGED <<write, read, messages, upto, overrun>>
      BY <1>13 DEF Stop
    <2> QED  BY <2>1, StepKeepsRing
  <1>14. CASE Execute
    <2>1. /\ audio = "batch" /\ cur # upto /\ cur' = Following(cur) /\ audio' = "batch"
          /\ ran' = ran \/ ran' = ring[cur]
          /\ due' = due \ {ring[cur].id}
          /\ UNCHANGED <<write, read, messages, upto, overrun>>
      BY <1>14 DEF Execute
    <2>2. \A p \in Ring : ring'[p].id = ring[p].id
      BY <1>14 DEF Execute, CommandsTypeOK, RingTypes
    <2> QED  BY <2>1, <2>2, StepKeepsRing
  <1> QED
    BY <1>1, <1>2, <1>3, <1>4, <1>5, <1>6, <1>7, <1>8, <1>9, <1>10, <1>11,
       <1>12, <1>13,
       <1>14 DEF CommandsNext, Game, GameUpdate, Audio
-----------------------------------------------------------------------------
(* While the STOP of the last change counts, the game waits.               *)
LEMMA WhileChanging ==
    ASSUME CommandsTypeOK, CountInv, ChangeInv, ~overtaken, barriers > resets
    PROVE  /\ changes = resets + 1 /\ barriers = changes
           /\ status = "wait" /\ resetQueue = << >> /\ game \in {"update", "idle"}
           /\ ~Settled
  <1>1. barriers <= changes /\ (game \in {"send", "reset", "barrier"} => barriers < changes)
    BY DEF CountInv, Counted, CommandsTypeOK, StepTypes
  <1>2. ~Settled  BY <1>1 DEF Settled, CommandsTypeOK, StepTypes
  <1>3. changes = resets + 1 /\ resetQueue = << >> /\ (Asking \/ Awaiting)
    BY <1>2 DEF ChangeInv
  <1>4. barriers = changes /\ game \notin {"send", "reset", "barrier"}
    BY <1>1, <1>3 DEF CommandsTypeOK, StepTypes
  <1>5. status = "wait" /\ game \in {"update", "idle"}
    BY <1>3, <1>4 DEF Asking, Awaiting
  <1> QED  BY <1>2, <1>3, <1>4, <1>5

LEMMA NoneHeld ==
    ASSUME CommandsTypeOK, SlotInv, ~(barriers > resets)
    PROVE  BarrierInv
  <1>1. \A p \in Ring : ~(ring[p].after > resets)
    BY DEF SlotInv, CommandsTypeOK, RingTypes, StepTypes
  <1> QED  BY <1>1 DEF BarrierInv, UpdateBarrier, IdleBarrier, Held

(* A command of the game's own finds its place behind the STOP.            *)
LEMMA QueueKeepsBarrier ==
    ASSUME CommandsTypeOK, RingInv, BarrierInv, ~overtaken, ~overrun', barriers > resets,
           NEW kind \in Kinds, QueueCmd(kind),
           UNCHANGED <<messages, read, cur, finished, audio, game, barriers, resets>>
    PROVE  UpdateBarrier' /\ IdleBarrier'
  <1>1. /\ ~overrun /\ Position' = Position
        /\ \A p \in Ring : p # write => ring'[p] = ring[p]
        /\ ring'[write] = [kind |-> kind, id |-> lastId + 1, after |-> barriers]
        /\ \/ write' = write /\ Following(write) = read
           \/ /\ write' = Following(write) /\ Following(write) # read
              /\ Behind(write', Position) = Behind(write, Position) + 1
        /\ \A p \in Ring : InArc(p) => p # write /\ InArc(p)'
        /\ \A p \in Ring : InArc(p)' => InArc(p) \/ p = write
    BY QueueFacts
  <1>2. UpdateBarrier /\ IdleBarrier /\ RangesInv  BY <1>1 DEF BarrierInv, RingInv
  <1>3. write \in Ring /\ \A p \in Ring : Ahead(p) \in Nat  BY MarksInRing
  <1>4. ASSUME NEW p \in Ring, StopBetween(read, p), InArc(p) \/ p = write
        PROVE  StopBetween(read, p)'
    <2>1. PICK q \in Ring :
             Ahead(read) <= Ahead(q) /\ Ahead(q) < Ahead(p) /\ ring[q].kind = "stop"
      BY <1>4 DEF StopBetween
    <2>2. InArc(q)  BY <1>3, <1>4, <2>1 DEF InArc
    <2>3. ring'[q] = ring[q]  BY <1>1, <2>2
    <2> QED  BY <1>1, <2>1, <2>3 DEF StopBetween, Ahead
  <1>5. UpdateBarrier'
    <2> SUFFICES ASSUME game = "update"
                 PROVE  /\ Following(write') = read \/ StopBetween(read, write)'
                        /\ \A p \in Ring : Held(p)' => StopBetween(read, p)'
      BY DEF UpdateBarrier
    <2>1. /\ Following(write) = read \/ StopBetween(read, write)
          /\ \A p \in Ring : Held(p) => StopBetween(read, p)
      BY <1>2 DEF UpdateBarrier
    <2>2. CASE write' = write /\ Following(write) = read
      <3>1. \A p \in Ring : InArc(p)' => InArc(p)  BY <1>1, <2>2 DEF InArc, Ahead
      <3>2. \A p \in Ring : Held(p)' => Held(p)  BY <1>1, <3>1 DEF Held
      <3> QED  BY <1>4, <2>1, <2>2, <3>2 DEF Held
    <2>3. CASE /\ write' = Following(write) /\ Following(write) # read
               /\ Behind(write', Position) = Behind(write, Position) + 1
      <3>1. StopBetween(read, write)  BY <2>1, <2>3
      <3>2. PICK q \in Ring : /\ Ahead(read) <= Ahead(q) /\ Ahead(q) < Ahead(write)
                              /\ ring[q].kind = "stop"
        BY <3>1 DEF StopBetween
      <3>3. InArc(q) /\ ring'[q] = ring[q]  BY <1>1, <3>2 DEF InArc
      <3>4. StopBetween(read, write)'
        BY <1>1, <1>3, <2>3, <3>2, <3>3 DEF StopBetween, Ahead
      <3>5. ASSUME NEW p \in Ring, Held(p)' PROVE StopBetween(read, p)'
        <4>1. InArc(p) \/ p = write  BY <1>1, <3>5 DEF Held
        <4>2. CASE InArc(p)
          <5>1. Held(p)  BY <1>1, <3>5, <4>2 DEF Held
          <5> QED  BY <1>4, <2>1, <4>2, <5>1
        <4>3. CASE p = write  BY <1>3, <1>4, <3>1, <4>3
        <4> QED  BY <4>1, <4>2, <4>3
      <3> QED  BY <3>4, <3>5
    <2> QED  BY <1>1, <2>2, <2>3
  <1>6. IdleBarrier'
    <2> SUFFICES ASSUME game = "idle", NEW p \in Ring, Held(p)', Ahead(p)' < Ahead(read)'
                 PROVE  HeldBack(p)'
      BY DEF IdleBarrier
    <2>1. Ahead(p) < Ahead(read) /\ InArc(p)
      BY <1>1, <1>2, <1>3, MarksInRing DEF Ahead, InArc, RangesInv
    <2>2. Held(p)  BY <1>1, <2>1 DEF Held
    <2>3. HeldBack(p)  BY <1>2, <2>1, <2>2 DEF IdleBarrier
    <2>4. CASE messages = << >> /\ audio # "batch"  BY <2>4 DEF HeldBack
    <2>5. ASSUME NEW q \in Ring, Ahead(q) < Ahead(p), ring[q].kind = "stop",
                 messages # << >> => Ahead(messages[Len(messages)][1]) <= Ahead(q)
          PROVE  HeldBack(p)'
      <3>1. InArc(q)  BY <1>3, <2>1, <2>5 DEF InArc
      <3>2. ring'[q] = ring[q]  BY <1>1, <3>1
      <3> QED  BY <1>1, <2>5, <3>2 DEF HeldBack, Ahead
    <2> QED  BY <2>3, <2>4, <2>5 DEF HeldBack
  <1> QED  BY <1>5, <1>6

(* The STOP of a change is queued while none is held.                      *)
LEMMA BarrierBegins ==
    ASSUME CommandsTypeOK, SlotInv, RingInv, ~(barriers > resets), ~overrun', Barrier
    PROVE  UpdateBarrier' /\ IdleBarrier'
  <1>1. /\ QueueCmd("stop") /\ "stop" \in Kinds /\ game' = "update"
        /\ UNCHANGED <<messages, read, cur, finished, audio, resets>>
    BY DEF Barrier, Kinds, audioVars
  <1>2. /\ ~overrun /\ Position' = Position
        /\ \A p \in Ring : p # write => ring'[p] = ring[p]
        /\ ring'[write] = [kind |-> "stop", id |-> lastId + 1, after |-> barriers]
        /\ \/ write' = write /\ Following(write) = read
           \/ /\ write' = Following(write) /\ Following(write) # read
              /\ Behind(write', Position) = Behind(write, Position) + 1
    BY <1>1, QueueFacts
  <1>3. \A p \in Ring : ~(ring'[p].after > resets)
    <2>1. \A p \in Ring : ~(ring[p].after > resets)
      BY DEF SlotInv, CommandsTypeOK, RingTypes, StepTypes
    <2>2. ASSUME NEW p \in Ring PROVE ~(ring'[p].after > resets)
      <3>1. CASE p = write  BY <1>2, <3>1
      <3>2. CASE p # write  BY <1>2, <2>1, <3>2
      <3> QED  BY <3>1, <3>2
    <2> QED  BY <2>2
  <1>4. \A p \in Ring : ~Held(p)'  BY <1>1, <1>3 DEF Held
  <1>5. Following(write') = read \/ StopBetween(read, write)'
    <2>1. CASE write' = write /\ Following(write) = read  BY <2>1
    <2>2. CASE /\ write' = Following(write) /\ Following(write) # read
               /\ Behind(write', Position) = Behind(write, Position) + 1
      <3>1. RangesInv  BY <1>2 DEF RingInv
      <3>2. ring'[write].kind = "stop" /\ write \in Ring  BY <1>2, MarksInRing
      <3>3. Ahead(read) <= Ahead(write) /\ Ahead(write) < Behind(write', Position)
        BY <2>2, <3>1, MarksInRing DEF RangesInv, Ahead
      <3> QED  BY <1>1, <1>2, <3>2, <3>3 DEF StopBetween, Ahead
    <2> QED  BY <1>2, <2>1, <2>2
  <1> QED  BY <1>1, <1>4, <1>5 DEF UpdateBarrier, IdleBarrier

(* At the end of the update they go into one message, behind the STOP.     *)
LEMMA EndUpdateKeepsBarrier ==
    ASSUME CommandsTypeOK, RingInv, BarrierInv, ~overtaken, ~overrun, barriers > resets,
           EndUpdate
    PROVE  UpdateBarrier' /\ IdleBarrier'
  <1> USE DEF audioVars, tally
  <1>1. /\ Schedule /\ game = "update" /\ game' = "idle"
        /\ UNCHANGED <<ring, write, cur, finished, audio, barriers, resets>>
    BY DEF EndUpdate
  <1>2. /\ Position' = Position /\ read' = write
        /\ \/ messages' = messages /\ messages # << >>
           \/ messages' = Append(messages, <<read, write>>)
    BY <1>1, ScheduleFacts
  <1>3. RangesInv /\ \A p \in Ring : Held(p) => StopBetween(read, p)
    BY <1>1 DEF BarrierInv, UpdateBarrier, RingInv
  <1>4. messages' # << >> => /\ Ahead(messages[Len(messages)][1])' <= Ahead(read)
                             /\ Ahead(messages[Len(messages)][1])' \in Nat
    <2>1. CASE messages' = messages /\ messages # << >>
      <3>1. Len(messages) \in 1..Len(messages)
        BY <2>1, MarksInRing DEF CommandsTypeOK, RingTypes
      <3> QED  BY <1>2, <1>3, <2>1, <3>1, MarksInRing DEF RangesInv, Ahead
    <2>2. CASE messages' = Append(messages, <<read, write>>)
      <3>1. messages'[Len(messages')] = <<read, write>>
        BY <2>2 DEF CommandsTypeOK, RingTypes
      <3> QED  BY <1>2, <3>1, MarksInRing DEF Ahead
    <2> QED  BY <1>2, <2>1, <2>2
  <1>5. ASSUME NEW p \in Ring, Held(p)' PROVE HeldBack(p)'
    <2>1. Held(p)  BY <1>1, <1>2, <1>5 DEF Held, InArc, Ahead
    <2>2. PICK q \in Ring :
             Ahead(read) <= Ahead(q) /\ Ahead(q) < Ahead(p) /\ ring[q].kind = "stop"
      BY <1>3, <2>1 DEF StopBetween
    <2>3. Ahead(q)' = Ahead(q) /\ Ahead(p)' = Ahead(p)  BY <1>2 DEF Ahead
    <2>4. messages' # << >> => Ahead(messages[Len(messages)][1])' <= Ahead(q)'
      BY <1>4, <2>2, <2>3, MarksInRing
    <2> QED  BY <1>1, <2>2, <2>3, <2>4 DEF HeldBack
  <1> QED  BY <1>1, <1>5 DEF UpdateBarrier, IdleBarrier
LEMMA TakeKeepsBarrier ==
    ASSUME CommandsTypeOK, RingInv, BarrierInv, ~overtaken, ~overrun, TakeMessage
    PROVE  UpdateBarrier' /\ IdleBarrier'
  <1> USE DEF gameVars, tally
  <1>1. /\ Position' = Position /\ 1 \in 1..Len(messages)
        /\ Len(messages') = Len(messages) - 1
        /\ \A i \in 1..Len(messages) :
              i # 1 => i - 1 \in 1..Len(messages') /\ messages'[i - 1] = messages[i]
    BY TakeFacts
  <1>2. /\ messages # << >>
        /\ UNCHANGED <<ring, write, read, game, barriers, resets>>
    BY DEF TakeMessage
  <1>3. UpdateBarrier /\ IdleBarrier  BY DEF BarrierInv
  <1>4. UpdateBarrier'
    BY <1>1, <1>2, <1>3 DEF UpdateBarrier, StopBetween, Held, InArc, Ahead
  <1>5. messages' # << >> => messages'[Len(messages')] = messages[Len(messages)]
    <2>1. messages' \in Seq(Ring \X Ring)
      <3>1. Audio  BY DEF Audio
      <3> QED  BY <3>1, AudioTypes DEF CommandsTypeOK, RingTypes
    <2>2. messages' # << >> => Len(messages') # 0  BY <2>1
    <2>3. Len(messages) \in Nat  BY MarksInRing
    <2> QED  BY <1>1, <2>2, <2>3
  <1>6. ASSUME NEW p \in Ring, HeldBack(p) PROVE HeldBack(p)'
    <2>1. PICK q \in Ring : /\ Ahead(q) < Ahead(p) /\ ring[q].kind = "stop"
                            /\ Ahead(messages[Len(messages)][1]) <= Ahead(q)
      BY <1>2, <1>6 DEF HeldBack
    <2> QED  BY <1>1, <1>2, <1>5, <2>1 DEF HeldBack, Ahead
  <1>7. IdleBarrier'
    BY <1>1, <1>2, <1>3, <1>6 DEF IdleBarrier, Held, InArc, Ahead
  <1> QED  BY <1>4, <1>7

LEMMA EndKeepsBarrier ==
    ASSUME CommandsTypeOK, RingInv, BarrierInv, ~overtaken, ~overrun, EndBatch
    PROVE  UpdateBarrier' /\ IdleBarrier'
  <1> USE DEF gameVars, tally
  <1>1. RangesInv /\ UpdateBarrier /\ IdleBarrier  BY DEF BarrierInv, RingInv
  <1>2. /\ Position' \in Ring
        /\ Behind(Position', Position) <= Behind(read, Position)
        /\ \A i \in 1..Len(messages) :
              Behind(Position', Position) <= Behind(messages[i][1], Position)
    BY <1>1, EndFacts
  <1>3. /\ UNCHANGED <<ring, write, read, messages, game, barriers, resets>>
        /\ audio' = "process"
    BY DEF EndBatch
  <1>4. Behind(Position', Position) <= Behind(write, Position)
        /\ Behind(Position', Position) \in Nat
    BY <1>1, <1>2, MarksInRing, Distances DEF RangesInv, Ahead
  <1>5. /\ \A p \in Ring : Behind(Position', Position) <= Ahead(p) =>
              Behind(p, Position') = Ahead(p) - Behind(Position', Position)
        /\ \A p \in Ring : Behind(p, Position') < Behind(write, Position') =>
              Ahead(p) = Behind(p, Position') + Behind(Position', Position)
    BY <1>2, <1>4, MarksInRing, Rebased DEF Ahead
  <1>6. \A p \in Ring : Behind(p, Position') \in Nat  BY <1>2, Distances
  <1>7. ASSUME NEW p \in Ring, Held(p)'
        PROVE  Held(p) /\ Ahead(p) = Behind(p, Position') + Behind(Position', Position)
    BY <1>3, <1>4, <1>5, <1>6, <1>7, MarksInRing DEF Held, InArc, Ahead
  <1>8. ASSUME NEW p \in Ring, NEW from \in Ring,
               Behind(Position', Position) <= Ahead(from), StopBetween(from, p)
        PROVE  \E q \in Ring : /\ Behind(from, Position') <= Behind(q, Position')
                               /\ Behind(q, Position') < Behind(p, Position')
                               /\ ring[q].kind = "stop"
    <2>1. PICK q \in Ring :
             Ahead(from) <= Ahead(q) /\ Ahead(q) < Ahead(p) /\ ring[q].kind = "stop"
      BY <1>8 DEF StopBetween
    <2>2. /\ Behind(Position', Position) <= Ahead(q)
          /\ Behind(Position', Position) <= Ahead(p)
      BY <1>4, <1>8, <2>1, MarksInRing
    <2>3. /\ Behind(from, Position') = Ahead(from) - Behind(Position', Position)
          /\ Behind(q, Position') = Ahead(q) - Behind(Position', Position)
          /\ Behind(p, Position') = Ahead(p) - Behind(Position', Position)
      BY <1>5, <1>8, <2>2
    <2>4. Ahead(from) \in Nat /\ Ahead(q) \in Nat /\ Ahead(p) \in Nat
      BY <1>8, <2>1, MarksInRing
    <2>5. /\ Behind(from, Position') <= Behind(q, Position')
          /\ Behind(q, Position') < Behind(p, Position')
      BY <1>4, <2>1, <2>3, <2>4
    <2> QED  BY <2>1, <2>5
  <1>9. Behind(Position', Position) <= Ahead(read) /\ read \in Ring /\ write \in Ring
    BY <1>2, MarksInRing DEF Ahead
  <1>10. UpdateBarrier'
    <2> SUFFICES ASSUME game = "update", barriers > resets
                 PROVE  /\ Following(write) = read \/ StopBetween(read, write)'
                        /\ \A p \in Ring : Held(p)' => StopBetween(read, p)'
      BY <1>3 DEF UpdateBarrier
    <2>1. /\ Following(write) = read \/ StopBetween(read, write)
          /\ \A p \in Ring : Held(p) => StopBetween(read, p)
      BY <1>1 DEF UpdateBarrier
    <2>2. ASSUME NEW p \in Ring, StopBetween(read, p) PROVE StopBetween(read, p)'
      BY <1>3, <1>8, <1>9, <2>2 DEF StopBetween, Ahead
    <2>3. StopBetween(read, write) => StopBetween(read, write)'
      BY <1>3, <1>8, <1>9 DEF StopBetween, Ahead
    <2> QED  BY <1>7, <2>1, <2>2, <2>3
  <1>11. IdleBarrier'
    <2> SUFFICES ASSUME game = "idle", NEW p \in Ring, Held(p)', Ahead(p)' < Ahead(read)'
                 PROVE  HeldBack(p)'
      BY <1>3 DEF IdleBarrier
    <2>1. Held(p) /\ Ahead(p) < Ahead(read)
      BY <1>3, <1>4, <1>5, <1>6, <1>7, <1>9, MarksInRing DEF Ahead
    <2>2. HeldBack(p)  BY <1>1, <2>1 DEF IdleBarrier
    <2>3. CASE messages = << >>  BY <1>3, <2>3 DEF HeldBack
    <2>4. CASE messages # << >>
      <3>1. Len(messages) \in 1..Len(messages)
        BY <2>4, MarksInRing DEF CommandsTypeOK, RingTypes
      <3>2. /\ messages[Len(messages)][1] \in Ring
            /\ Behind(Position', Position) <= Ahead(messages[Len(messages)][1])
        BY <1>2, <3>1, MarksInRing DEF Ahead
      <3>3. StopBetween(messages[Len(messages)][1], p)
        BY <2>2, <2>4 DEF HeldBack, StopBetween
      <3> QED  BY <1>3, <1>8, <3>2, <3>3 DEF HeldBack, Ahead
    <2> QED  BY <2>3, <2>4
  <1> QED  BY <1>10, <1>11

(* A step onto the STOP of the last change is a stop with no message left. *)
LEMMA StepKeepsBarrier ==
    ASSUME CommandsTypeOK, RingInv, BarrierInv, ~overtaken, ~overrun,
           audio = "batch", cur # upto, cur' = Following(cur), finished' \/ audio' = "batch",
           \A p \in Ring : ring'[p].after = ring[p].after,
           \A p \in Ring : p # cur => ring'[p] = ring[p],
           ring[cur].kind = "stop" => audio' # "batch",
           UNCHANGED <<write, read, messages, upto, game, barriers, resets>>
    PROVE  UpdateBarrier' /\ IdleBarrier'
  <1>1. RangesInv /\ UpdateBarrier /\ IdleBarrier  BY DEF BarrierInv, RingInv
  <1>2. /\ Position = cur /\ Position' \in Ring /\ Resuming
        /\ \A p \in Ring : p # cur => Behind(p, Position') = Ahead(p) - 1
        /\ \A p \in Ring : Behind(p, Position') < Behind(write, Position') =>
              p # cur /\ InArc(p)
        /\ Ahead(cur) = 0 /\ \A p \in Ring : p # cur => Ahead(p) > 0
        /\ InArc(cur) /\ 0 < Ahead(upto)
    BY <1>1, StepFacts
  <1>3. ASSUME NEW p \in Ring, Held(p)' PROVE Held(p) /\ p # cur
    BY <1>2, <1>3 DEF Held, InArc, Ahead
  <1>4. \A p \in Ring : 0 < Ahead(p) => p # cur  BY <1>2
  <1>5. Ahead(upto) <= Ahead(read) /\ 0 < Ahead(read) /\ 0 < Ahead(write)
    BY <1>1, <1>2, MarksInRing DEF RangesInv
  <1>6. ASSUME NEW p \in Ring, NEW from \in Ring, 0 < Ahead(from), StopBetween(from, p)
        PROVE  \E q \in Ring : /\ Behind(from, Position') <= Behind(q, Position')
                               /\ Behind(q, Position') < Behind(p, Position')
                               /\ ring'[q].kind = "stop"
    <2>1. PICK q \in Ring :
             Ahead(from) <= Ahead(q) /\ Ahead(q) < Ahead(p) /\ ring[q].kind = "stop"
      BY <1>6 DEF StopBetween
    <2>2. 0 < Ahead(q) /\ 0 < Ahead(p)  BY <1>6, <2>1, MarksInRing
    <2>3. /\ Behind(from, Position') = Ahead(from) - 1
          /\ Behind(q, Position') = Ahead(q) - 1
          /\ Behind(p, Position') = Ahead(p) - 1
          /\ ring'[q] = ring[q]
      BY <1>2, <1>4, <1>6, <2>2
    <2> QED  BY <1>6, <2>1, <2>3, MarksInRing
  <1>7. UpdateBarrier'
    <2> SUFFICES ASSUME game = "update", barriers > resets
                 PROVE  /\ Following(write) = read \/ StopBetween(read, write)'
                        /\ \A p \in Ring : Held(p)' => StopBetween(read, p)'
      BY DEF UpdateBarrier
    <2>1. /\ Following(write) = read \/ StopBetween(read, write)
          /\ \A p \in Ring : Held(p) => StopBetween(read, p)
      BY <1>1 DEF UpdateBarrier
    <2>2. ASSUME NEW p \in Ring, StopBetween(read, p) PROVE StopBetween(read, p)'
      BY <1>5, <1>6, <2>2, MarksInRing DEF StopBetween, Ahead
    <2>3. StopBetween(read, write) => StopBetween(read, write)'
      BY <1>5, <1>6, MarksInRing DEF StopBetween, Ahead
    <2> QED  BY <1>3, <2>1, <2>2, <2>3
  <1>8. IdleBarrier'
    <2> SUFFICES ASSUME game = "idle", NEW p \in Ring, Held(p)', Ahead(p)' < Ahead(read)'
                 PROVE  HeldBack(p)'
      BY DEF IdleBarrier
    <2>1. Held(p) /\ p # cur  BY <1>3
    <2>2. Ahead(p) < Ahead(read)
      BY <1>2, <1>4, <1>5, <2>1, MarksInRing DEF Ahead
    <2>3. HeldBack(p)  BY <1>1, <2>1, <2>2 DEF IdleBarrier
    <2>4. PICK q \in Ring :
             /\ Ahead(q) < Ahead(p) /\ ring[q].kind = "stop"
             /\ messages # << >> => Ahead(messages[Len(messages)][1]) <= Ahead(q)
      BY <2>3 DEF HeldBack
    <2>5. messages # << >> => /\ messages[Len(messages)][1] \in Ring
                              /\ 0 < Ahead(messages[Len(messages)][1])
      <3>1. messages # << >> => Len(messages) \in 1..Len(messages)
        BY MarksInRing DEF CommandsTypeOK, RingTypes
      <3> QED  BY <1>1, <1>2, <3>1, MarksInRing DEF RangesInv
    <2>6. CASE q = cur
      <3>1. messages = << >>  BY <1>2, <2>4, <2>5, <2>6, MarksInRing
      <3> QED  BY <2>4, <2>6, <3>1 DEF HeldBack
    <2>7. CASE q # cur
      <3>1. /\ Behind(q, Position') = Ahead(q) - 1 /\ Behind(p, Position') = Ahead(p) - 1
            /\ ring'[q] = ring[q]
        BY <1>2, <2>1, <2>7
      <3>2. messages # << >> => Behind(messages[Len(messages)][1], Position')
                                  = Ahead(messages[Len(messages)][1]) - 1
        BY <1>2, <1>4, <2>5
      <3> QED  BY <2>4, <2>5, <3>1, <3>2, MarksInRing DEF HeldBack, Ahead
    <2> QED  BY <2>6, <2>7
  <1> QED  BY <1>7, <1>8
LEMMA BarrierKept ==
    ASSUME CommandsTypeOK, SlotInv, CountInv, ChangeInv, RingInv, BarrierInv,
           [CommandsNext]_commandVars, SlotInv', CountInv', ChangeInv'
    PROVE  BarrierInv'
  <1> USE DEF gameVars, audioVars, tally
  <1>0. CommandsTypeOK'  BY TypesKept
  <1>1. CASE UNCHANGED commandVars
    BY <1>1 DEF commandVars, BarrierInv, UpdateBarrier, IdleBarrier, HeldBack,
       StopBetween, Held, InArc, Ahead, Position
  <1>2. CASE ~(barriers' > resets')
    <2>1. \A p \in Ring : ~(ring'[p].after > resets')
      <3>1. \A p \in Ring : ring'[p].after \in Nat /\ ring'[p].after <= barriers'
        BY <1>0 DEF SlotInv, CommandsTypeOK, RingTypes
      <3>2. barriers' \in Nat /\ resets' \in Nat  BY <1>0 DEF CommandsTypeOK, StepTypes
      <3> QED  BY <1>2, <3>1, <3>2
    <2> QED  BY <1>2, <2>1 DEF BarrierInv, UpdateBarrier, IdleBarrier, Held
  <1> SUFFICES ASSUME CommandsNext, ~overrun', ~overtaken', barriers' > resets'
               PROVE  UpdateBarrier' /\ IdleBarrier'
    BY <1>1, <1>2 DEF BarrierInv
  <1>3. ~overtaken
    BY DEF CommandsNext, Game, GameUpdate, Queue1, BeginUpdate,
       RestartSeqPlayers, QueueStop, Restarted, SendSpec, StartReset, Barrier,
       EndUpdate, ChangeSpec, Audio, Frame, TakeMessage, EndFrame, EndBatch,
       Stop, Execute, CommandsTypeOK, StepTypes
  <1>4. ~overrun
    BY DEF CommandsNext, Game, GameUpdate, Queue1, BeginUpdate,
       RestartSeqPlayers, QueueStop, Restarted, SendSpec, StartReset, Barrier,
       EndUpdate, ChangeSpec, Audio, Frame, TakeMessage, EndFrame, EndBatch,
       Stop, Execute, QueueCmd
  <1>5. CASE ~(barriers > resets)
    <2>1. Barrier
      <3>1. ASSUME barriers' = barriers, resets' = resets PROVE FALSE  BY <1>5, <3>1
      <3>2. ASSUME Frame PROVE FALSE
        <4>1. barriers' = barriers /\ (resets' = resets \/ resets' = resets + 1)
          BY <3>2 DEF Frame
        <4> QED  BY <1>5, <4>1 DEF CommandsTypeOK, StepTypes
      <3> QED  BY <3>1, <3>2 DEF CommandsNext, Game, GameUpdate, Queue1, BeginUpdate,
                  RestartSeqPlayers, QueueStop, Restarted, SendSpec, StartReset, EndUpdate,
                  ChangeSpec, Audio, TakeMessage, EndFrame, EndBatch, Stop, Execute
    <2> QED  BY <1>5, <2>1, BarrierBegins
  <1>6. CASE barriers > resets
    <2>1. /\ changes = resets + 1 /\ barriers = changes
          /\ status = "wait" /\ resetQueue = << >> /\ game \in {"update", "idle"}
      BY <1>3, <1>6, WhileChanging
    <2>2. UpdateBarrier /\ IdleBarrier  BY <1>3, <1>4 DEF BarrierInv
    <2>3. CASE Queue1
      <3>1. /\ QueueCmd("play") /\ "play" \in Kinds
            /\ UNCHANGED <<messages, read, cur, finished, audio, game, barriers, resets>>
        BY <2>3 DEF Queue1, Kinds
      <3> QED  BY <1>3, <1>6, <3>1, QueueKeepsBarrier
    <2>4. CASE EndUpdate  BY <1>3, <1>4, <1>6, <2>4, EndUpdateKeepsBarrier
    <2>5. ASSUME NEW s \in Specs, ChangeSpec(s) PROVE FALSE
      <3>1. changes > resets  BY <2>1 DEF CommandsTypeOK, StepTypes
      <3> QED  BY <2>5, <3>1, Zenon DEF ChangeSpec
    <2>6. ~(BeginUpdate \/ RestartSeqPlayers \/ QueueStop \/ Restarted \/ SendSpec
              \/ StartReset \/ Barrier)
      BY <2>1 DEF BeginUpdate, RestartSeqPlayers, QueueStop, Restarted,
         SendSpec, StartReset, Barrier
    <2>7. CASE Frame \/ EndFrame
      <3>1. /\ audio # "batch" /\ audio' # "batch"
            /\ UNCHANGED <<ring, write, read, messages, cur, finished, upto, due, ran,
                           overrun, game, barriers>>
        BY <2>7 DEF Frame, EndFrame
      <3>2. Position' = Position  BY <3>1, FrameKeepsRing
      <3>3. resets' = resets \/ resets' = resets + 1  BY <2>7 DEF Frame, EndFrame
      <3>4. resets' = resets
        BY <2>1, <3>1, <3>3 DEF CommandsTypeOK, StepTypes
      <3> QED  BY <2>2, <3>1, <3>2, <3>4 DEF UpdateBarrier, IdleBarrier, HeldBack,
                  StopBetween, Held, InArc, Ahead
    <2>8. CASE TakeMessage  BY <1>3, <1>4, <2>8, TakeKeepsBarrier
    <2>9. CASE EndBatch  BY <1>3, <1>4, <2>9, EndKeepsBarrier
    <2>10. CASE Stop
      <3>1. /\ audio = "batch" /\ cur # upto /\ cur' = Following(cur) /\ finished'
            /\ ring' = ring /\ audio' = "process"
            /\ UNCHANGED <<write, read, messages, upto, game, barriers, resets>>
        BY <2>10 DEF Stop
      <3> QED  BY <1>3, <1>4, <3>1, StepKeepsBarrier
    <2>11. CASE Execute
      <3>1. /\ audio = "batch" /\ cur # upto /\ cur' = Following(cur) /\ audio' = "batch"
            /\ ring[cur].kind # "stop"
            /\ UNCHANGED <<write, read, messages, upto, game, barriers, resets>>
        BY <2>11 DEF Execute
      <3>2. /\ \A p \in Ring : ring'[p].after = ring[p].after
            /\ \A p \in Ring : p # cur => ring'[p] = ring[p]
        BY <2>11 DEF Execute, CommandsTypeOK, RingTypes
      <3> QED  BY <1>3, <1>4, <3>1, <3>2, StepKeepsBarrier
    <2> QED  BY <2>3, <2>4, <2>5, <2>6, <2>7, <2>8, <2>9, <2>10, <2>11
                DEF CommandsNext, Game, GameUpdate, Audio
  <1> QED  BY <1>5, <1>6
-----------------------------------------------------------------------------
(* The invariant of the commands is inductive.                             *)
LEMMA CommandsKept == CommandsInv /\ [CommandsNext]_commandVars => CommandsInv'
  <1> SUFFICES ASSUME CommandsInv, [CommandsNext]_commandVars PROVE CommandsInv'
    OBVIOUS
  <1>1. /\ CommandsTypeOK /\ SlotInv /\ CountInv /\ ChangeInv /\ AwaitedInv
        /\ RingInv /\ BarrierInv
    BY DEF CommandsInv
  <1>2. /\ CommandsTypeOK' /\ SlotInv' /\ CountInv' /\ ChangeInv' /\ AwaitedInv'
        /\ RingInv'
    BY <1>1, TypesKept, SlotsKept, CountKept, ChangeKept, AwaitedKept, RingKept
  <1>3. BarrierInv'  BY <1>1, <1>2, BarrierKept
  <1> QED  BY <1>2, <1>3 DEF CommandsInv

LEMMA CommandsAtFirst == CommandsInit => CommandsInv
  <1> SUFFICES ASSUME CommandsInit PROVE CommandsInv
    OBVIOUS
  <1>1. CommandsTypeOK  BY TypesAtFirst
  <1>2. SlotInv  BY DEF CommandsInit, SlotInv, NoCommand
  <1>3. CountInv /\ ChangeInv /\ AwaitedInv
    BY DEF CommandsInit, CountInv, Counted, ChangeInv, AwaitedInv, Settled
  <1>4. ~(barriers > resets)  BY DEF CommandsInit
  <1>5. BarrierInv  BY <1>1, <1>2, <1>4, NoneHeld
  <1>6. RingInv
    <2>1. /\ write = 0 /\ read = 0 /\ messages = << >> /\ finished = FALSE
          /\ audio = "head" /\ due = {}
      BY Zenon DEF CommandsInit
    <2>2. Position = 0 /\ ~Resuming  BY <2>1 DEF Position, Resuming
    <2>3. 0 \in Ring  BY RingAssumption DEF Ring
    <2>4. Behind(0, 0) = 0 /\ \A p \in Ring : Behind(p, 0) \in Nat  BY <2>3, Distances
    <2>5. RangesInv  BY <2>1, <2>2, <2>4 DEF RangesInv, Ahead
    <2>6. OrderInv  BY <2>1, <2>2, <2>4 DEF OrderInv, InArc, Ahead
    <2>7. DueInv  BY <2>1 DEF DueInv
    <2> QED  BY <2>5, <2>6, <2>7 DEF RingInv
  <1> QED  BY <1>1, <1>2, <1>3, <1>5, <1>6 DEF CommandsInv

(* It holds for a ring of any size, any queue of messages, any commands    *)
(* and any changes of specification.                                       *)
THEOREM CommandsInvariance == CommandsSpec => []CommandsInv
  BY CommandsAtFirst, CommandsKept, PTL DEF CommandsSpec

(* When Audio_Update takes a change of specification to be over, the audio *)
(* thread has it, and is not in the middle of a reset (audio_heap.c).      *)
THEOREM SpecIsFollowed == CommandsSpec => []SpecFollows
  <1>1. CommandsInv => SpecFollows
    BY DEF CommandsInv, ChangeInv, Settled, Asking, Awaiting, SpecFollows
  <1> QED  BY <1>1, CommandsInvariance, PTL

(* Only Execute runs a command, one in the arc.                            *)
LEMMA Running ==
    ASSUME CommandsInv, CommandsNext, ran' # ran, ~overrun
    PROVE  /\ Execute /\ ran' = ring[cur] /\ cur \in Ring
           /\ RangesInv /\ OrderInv /\ DueInv
           /\ Position = cur /\ Ahead(cur) = 0 /\ InArc(cur)
           /\ \A p \in Ring : p # cur => Ahead(p) > 0
           /\ 0 < Ahead(upto)
  <1> USE DEF gameVars, audioVars, tally
  <1>1. Execute
    BY DEF CommandsNext, Game, GameUpdate, Queue1, BeginUpdate,
       RestartSeqPlayers, QueueStop, Restarted, SendSpec, StartReset, Barrier,
       EndUpdate, ChangeSpec, Audio, Frame, TakeMessage, EndFrame, EndBatch,
       Stop
  <1>2. /\ ran' = ring[cur] /\ audio = "batch" /\ cur # upto /\ cur' = Following(cur)
        /\ audio' = "batch"
    BY <1>1 DEF Execute
  <1>3. CommandsTypeOK /\ RangesInv /\ OrderInv /\ DueInv  BY DEF CommandsInv, RingInv
  <1>4. cur \in Ring  BY <1>3 DEF CommandsTypeOK, RingTypes
  <1> QED  BY <1>1, <1>2, <1>3, <1>4, StepFacts

(* AudioThread_ProcessCmds executes commands in the order of               *)
(* AudioThread_QueueCmd, and passes over none that was sent to it.         *)
THEOREM CommandsTakeTheirTurn == CommandsSpec => CommandsInTurn
  <1>1. ASSUME CommandsInv, [CommandsNext]_commandVars
        PROVE  [ran' # ran =>
                  overrun \/ (ran'.id > ran.id /\ \A id \in due' : id > ran'.id)]_commandVars
    <2> SUFFICES ASSUME CommandsNext, ran' # ran, ~overrun
                 PROVE  ran'.id > ran.id /\ \A id \in due' : id > ran'.id
      BY <1>1
    <2>1. /\ Execute /\ ran' = ring[cur] /\ cur \in Ring
          /\ OrderInv /\ DueInv /\ RangesInv /\ Ahead(cur) = 0 /\ InArc(cur)
          /\ \A p \in Ring : p # cur => Ahead(p) > 0
      BY <1>1, Running
    <2>2. CommandsTypeOK  BY <1>1 DEF CommandsInv
    <2>3. /\ ran.id \in Nat /\ ran'.id \in Nat /\ \A p \in Ring : ring[p].id \in Nat
      BY <2>1, <2>2 DEF CommandsTypeOK, RingTypes
    <2>4. ran'.id > ran.id  BY <2>1, <2>3 DEF OrderInv
    <2>5. ASSUME NEW id \in due' PROVE id > ran'.id
      <3>1. id \in due /\ id # ring[cur].id  BY <2>1, <2>5 DEF Execute
      <3>2. PICK p \in Ring : ring[p].id = id /\ Covered(p)  BY <2>1, <3>1 DEF DueInv
      <3>3. p # cur /\ InArc(p)  BY <2>1, <2>2, <3>1, <3>2, CoveredIsSent
      <3> QED  BY <2>1, <2>3, <3>2, <3>3 DEF OrderInv
    <2> QED  BY <2>4, <2>5
  <1> QED  BY <1>1, CommandsInvariance, PTL DEF CommandsSpec, CommandsInTurn

(* A command behind the STOP of a change runs after the reset, though the  *)
(* STOP holds back only what is in its own message.                        *)
THEOREM BarrierIsHeld == CommandsSpec => BarrierHolds
  <1>1. ASSUME CommandsInv, [CommandsNext]_commandVars
        PROVE  [ran' # ran => overrun \/ overtaken \/ ran'.after <= resets]_commandVars
    <2> SUFFICES ASSUME CommandsNext, ran' # ran, ~overrun, ~overtaken,
                        ~(ran'.after <= resets)
                 PROVE  FALSE
      BY <1>1
    <2>1. /\ Execute /\ ran' = ring[cur] /\ cur \in Ring /\ RangesInv
          /\ Ahead(cur) = 0 /\ InArc(cur) /\ 0 < Ahead(upto)
          /\ Position = cur
      BY <1>1, Running
    <2>2. /\ CommandsTypeOK /\ SlotInv /\ CountInv /\ ChangeInv
          /\ UpdateBarrier /\ IdleBarrier
      BY <1>1 DEF CommandsInv, BarrierInv
    <2>3. Held(cur)
      BY <2>1, <2>2 DEF Held, CommandsTypeOK, RingTypes, StepTypes
    <2>4. barriers > resets
      BY <2>1, <2>2, <2>3 DEF Held, SlotInv, CommandsTypeOK, RingTypes,
         StepTypes
    <2>5. game \in {"update", "idle"}  BY <2>2, <2>4, WhileChanging
    <2>6. Ahead(cur) < Ahead(read) /\ audio = "batch"
      <3>1. audio = "batch"  BY <2>1 DEF Execute
      <3>2. Ahead(upto) <= Ahead(read)  BY <2>1, <3>1 DEF RangesInv, Resuming
      <3> QED  BY <2>1, <2>2, <3>1, <3>2, MarksInRing
    <2>7. CASE game = "update"
      <3>1. StopBetween(read, cur)  BY <2>1, <2>2, <2>3, <2>4, <2>7 DEF UpdateBarrier
      <3> QED  BY <2>1, <2>2, <2>6, <3>1, MarksInRing DEF StopBetween
    <2>8. CASE game = "idle"
      <3>1. HeldBack(cur)  BY <2>1, <2>2, <2>3, <2>6, <2>8 DEF IdleBarrier
      <3> QED  BY <2>1, <2>2, <2>6, <3>1, MarksInRing DEF HeldBack
    <2> QED  BY <2>5, <2>7, <2>8
  <1> QED  BY <1>1, CommandsInvariance, PTL DEF CommandsSpec, BarrierHolds
=============================================================================
