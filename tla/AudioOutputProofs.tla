--------------------------- MODULE AudioOutputProofs ---------------------------
(***************************************************************************)
(* For every number of blocks and every smaller queue: no reservation      *)
(* fails, no wake-up is false or missing, no block is written while it is  *)
(* handed over or heard, and what is heard is what was queued, in order.   *)
(***************************************************************************)
EXTENDS AudioOutput, SequenceTheorems, TLAPS

CountOf(p) == IF p THEN 1 ELSE 0
Taken == producer \in {"reserve", "fill", "commit"}
Holding == producer \in {"fill", "commit"}
Playing == output \in {"play", "advance"}

(* Each unit of space is in one place: free, taken by the audio thread, in *)
(* a queued block, or about to be released.                                *)
SpaceInv ==
    sSpace + CountOf(Taken) + sQueuedBlocks + CountOf(output = "release")
        = QUEUE_TARGET

ReadyInv ==
    sQueuedBlocks = sReady + CountOf(output \in {"peek", "play", "advance"})
                    + CountOf(producer = "signal")

(* The reserved block is the next to be written.                           *)
ReservedInv ==
    /\ producer # "overrun"
    /\ Holding => sReservedBlock = sWriteIndex /\ sReservedFrames \in Lengths
    /\ ~Holding => sReservedBlock = NONE

(* The writer is ahead of the reader by the queued blocks.                 *)
IndexInv ==
    \/ sWriteIndex = sReadIndex + sQueuedBlocks
    \/ sWriteIndex = sReadIndex + sQueuedBlocks - BLOCK_COUNT

(* The block handed over is the first of the queue; the one heard is that  *)
(* block, or the one before it.                                            *)
OutputInv ==
    /\ Playing => block = sReadIndex
    /\ sounding # NONE =>
         IF output = "advance" THEN sounding = sReadIndex
                               ELSE Next1(sounding) = sReadIndex

(* The block filled, and not yet committed, holds what was asked for.       *)
FilledInv == producer = "commit" => sBlocks[sReservedBlock] = sReservedFrames

Types ==
    /\ sBlocks \in [Blocks -> Lengths]
    /\ sReadIndex \in Blocks /\ sWriteIndex \in Blocks
    /\ sQueuedBlocks \in Nat /\ sQueuedBytes \in Nat
    /\ sReservedBlock \in Blocks \union {NONE}
    /\ sReservedFrames \in Lengths \union {0}
    /\ sReady \in Nat /\ sSpace \in Nat
    /\ producer \in {"idle", "reserve", "overrun", "fill", "commit", "signal"}
    /\ output \in {"wait", "peek", "play", "advance", "release"}
    /\ block \in Blocks /\ blockBytes \in Nat
    /\ sounding \in Blocks \union {NONE} /\ heard \in Lengths

IInv == /\ Types /\ SpaceInv /\ ReadyInv
        /\ ReservedInv /\ FilledInv /\ IndexInv /\ OutputInv

LEMMA IndexType ==
  /\ Blocks \subseteq Nat /\ NONE \notin Blocks /\ 0 \in Blocks
  /\ \A b \in Blocks : Next1(b) \in Blocks
  BY AudioAssumption DEF Blocks, Next1

(* What the places of SpaceInv leave for one of them.                      *)
LEMMA Bounds ==
  ASSUME IInv
  PROVE  /\ sQueuedBlocks \in 0..QUEUE_TARGET
         /\ sSpace \in 0..QUEUE_TARGET
         /\ sReady \in 0..QUEUE_TARGET
         /\ Taken => sQueuedBlocks < QUEUE_TARGET
         /\ output = "release" => sSpace < QUEUE_TARGET
         /\ producer = "signal" => sReady < BLOCK_COUNT
         /\ output \in {"peek", "play", "advance"} => sQueuedBlocks > 0
  BY AudioAssumption DEF IInv, Types, SpaceInv, ReadyInv, CountOf

LEMMA InitInv == Init => IInv
  BY AudioAssumption, IndexType DEF Init, IInv, Types, SpaceInv, ReadyInv,
     ReservedInv, FilledInv, IndexInv, OutputInv, CountOf, Taken, Holding,
     Playing, Blocks

LEMMA ProducerStep == IInv /\ Producer => IInv'
  <1> SUFFICES ASSUME IInv, Producer PROVE IInv'
    OBVIOUS
  <1> USE AudioAssumption, IndexType, Bounds DEF IInv, Types, ring, outputVars
  <1>1. CASE TakeSpace
    BY <1>1 DEF TakeSpace, SpaceInv, ReadyInv, ReservedInv, FilledInv,
       IndexInv, OutputInv, CountOf, Taken, Holding, Playing
  <1>2. CASE \E n \in Lengths : Reserve(n)
    <2> PICK n \in Lengths : Reserve(n)
      BY <1>2
    <2>1. ~Overrun
      BY DEF Reserve, Overrun, ReservedInv, Holding, Taken
    <2>2. /\ producer = "reserve" /\ producer' = "fill"
          /\ sReservedBlock' = sWriteIndex /\ sReservedFrames' = n
          /\ UNCHANGED <<sSpace, sBlocks, sReadIndex, sWriteIndex,
                         sQueuedBlocks, sQueuedBytes, sReady, outputVars>>
      BY <2>1 DEF Reserve
    <2> QED
      BY <2>2 DEF SpaceInv, ReadyInv, ReservedInv, FilledInv, IndexInv,
         OutputInv, CountOf, Taken, Holding, Playing
  <1>3. CASE Fill
    BY <1>3 DEF Fill, SpaceInv, ReadyInv, ReservedInv, FilledInv, IndexInv,
       OutputInv, CountOf, Taken, Holding, Playing
  <1>4. CASE Commit
    <2>1. Types'
      BY <1>4 DEF Commit, ReservedInv, Holding
    <2>2. SpaceInv' /\ ReadyInv'
      BY <1>4 DEF Commit, SpaceInv, ReadyInv, CountOf, Taken
    <2>3. ReservedInv' /\ FilledInv' /\ OutputInv'
      BY <1>4 DEF Commit, ReservedInv, FilledInv, Holding, OutputInv, Playing
    <2>4. IndexInv'
      BY <1>4 DEF Commit, IndexInv, Next1, Blocks
    <2> QED
      BY <2>1, <2>2, <2>3, <2>4
  <1>5. CASE SignalReady
    <2>1. sReady' = sReady + 1
      BY <1>5 DEF SignalReady, Signal
    <2> QED
      BY <1>5, <2>1 DEF SignalReady, SpaceInv, ReadyInv, ReservedInv,
         FilledInv, IndexInv, OutputInv, CountOf, Taken, Holding, Playing
  <1> QED
    BY <1>1, <1>2, <1>3, <1>4, <1>5 DEF Producer

LEMMA OutputStep == IInv /\ Output => IInv'
  <1> SUFFICES ASSUME IInv, Output PROVE IInv'
    OBVIOUS
  <1> USE AudioAssumption, IndexType, Bounds DEF IInv, Types, ring
  <1>1. CASE AwaitReady
    BY <1>1 DEF AwaitReady, SpaceInv, ReadyInv, ReservedInv, FilledInv,
       IndexInv, OutputInv, CountOf, Taken, Holding, Playing
  <1>2. CASE Peek
    <2>0. sQueuedBlocks # 0 /\ sBlocks[sReadIndex] \in Nat
      <3>1. output = "peek"
        BY <1>2 DEF Peek
      <3>2. sQueuedBlocks # 0
        BY <3>1
      <3>3. sBlocks[sReadIndex] \in Nat
        <4>1. sBlocks[sReadIndex] \in Lengths
          OBVIOUS
        <4>2. Lengths \subseteq Nat
          OBVIOUS
        <4> QED
          BY <4>1, <4>2, Zenon
      <3> QED
        BY <3>2, <3>3
    <2>1. /\ output = "peek" /\ output' = "play"
          /\ block' = sReadIndex /\ blockBytes' \in Nat
          /\ UNCHANGED <<sBlocks, ring, sReady, sSpace, producer, sounding,
                         heard>>
      BY <1>2, <2>0 DEF Peek
    <2>2. Types' /\ IndexInv'
      BY <2>1 DEF IndexInv
    <2>3. SpaceInv' /\ ReadyInv'
      BY <2>1 DEF SpaceInv, ReadyInv, CountOf, Taken
    <2>4. ReservedInv' /\ FilledInv' /\ OutputInv'
      BY <2>1 DEF ReservedInv, FilledInv, Holding, OutputInv, Playing
    <2> QED
      BY <2>2, <2>3, <2>4
  <1>3. CASE Play
    BY <1>3 DEF Play, SpaceInv, ReadyInv, ReservedInv, FilledInv, IndexInv,
       OutputInv, CountOf, Taken, Holding, Playing
  <1>4. CASE Advance
    <2>1. Types'
      BY <1>4 DEF Advance
    <2>2. SpaceInv' /\ ReadyInv'
      BY <1>4 DEF Advance, SpaceInv, ReadyInv, CountOf, Taken
    <2>3. ReservedInv' /\ FilledInv' /\ OutputInv'
      BY <1>4 DEF Advance, ReservedInv, FilledInv, Holding, OutputInv, Playing
    <2>4. IndexInv'
      BY <1>4 DEF Advance, IndexInv, Next1, Blocks
    <2> QED
      BY <2>1, <2>2, <2>3, <2>4
  <1>5. CASE ReleaseSpace
    <2>1. sSpace' = sSpace + 1
      BY <1>5 DEF ReleaseSpace, Signal
    <2> QED
      BY <1>5, <2>1 DEF ReleaseSpace, SpaceInv, ReadyInv, ReservedInv,
         FilledInv, IndexInv, OutputInv, CountOf, Taken, Holding, Playing
  <1> QED
    BY <1>1, <1>2, <1>3, <1>4, <1>5 DEF Output

THEOREM Invariance == Spec => []IInv
  <1>1. Init => IInv
    BY InitInv
  <1>2. IInv /\ [Next]_vars => IInv'
    <2> SUFFICES ASSUME IInv, [Next]_vars PROVE IInv'
      OBVIOUS
    <2>1. CASE Next
      BY <2>1, ProducerStep, OutputStep DEF Next
    <2>2. CASE UNCHANGED vars
      BY <2>2 DEF vars, ring, outputVars, IInv, Types, SpaceInv, ReadyInv,
         ReservedInv, FilledInv, IndexInv, OutputInv, Taken, Holding, Playing
    <2> QED
      BY <2>1, <2>2
  <1> QED
    BY <1>1, <1>2, PTL DEF Spec

(* The counters stay within the queue's target, whatever the number of     *)
(* blocks, and the rest has its type.                                      *)
THEOREM TypeCorrect == Spec => []TypeOK
  <1>1. IInv => TypeOK
    BY Bounds DEF IInv, Types, TypeOK
  <1> QED
    BY <1>1, Invariance, PTL

(* PspAudioOutput_Reserve never fails once it has waited for space.        *)
THEOREM NeverOverruns == Spec => []NoOverrun
  <1>1. IInv => NoOverrun
    <2> SUFFICES ASSUME IInv, producer = "reserve" PROVE ~Overrun
      BY DEF NoOverrun
    <2>1. sReservedBlock = NONE
      BY DEF IInv, ReservedInv, Holding
    <2>2. sQueuedBlocks # BLOCK_COUNT
      BY AudioAssumption, Bounds
    <2> QED
      BY <2>1, <2>2 DEF Overrun
  <1> QED
    BY <1>1, Invariance, PTL

(* sReady and the threads' places account for every queued block.          *)
THEOREM NoFalseWakes == Spec => []WakesMatchBlocks
  <1>1. IInv => WakesMatchBlocks
    BY DEF IInv, ReadyInv, WakesMatchBlocks, CountOf
  <1> QED
    BY <1>1, Invariance, PTL

(* The audio thread never writes the block that is handed over, nor the    *)
(* one the device still reads: one spare block is enough.                  *)
THEOREM NeverOverwritten == Spec => []NotOverwritten
  <1>1. IInv => NotOverwritten
    <2> SUFFICES ASSUME IInv, sReservedBlock # NONE
                 PROVE  /\ sReservedBlock # sounding
                        /\ Playing => sReservedBlock # block
      BY DEF NotOverwritten, Playing
    <2>1. Holding /\ sReservedBlock = sWriteIndex
      BY DEF IInv, ReservedInv
    <2>2. sQueuedBlocks + 1 < BLOCK_COUNT
      BY <2>1, Bounds, AudioAssumption DEF Holding, Taken, IInv, Types
    <2>3. Playing => sReservedBlock # block
      BY <2>1, <2>2, Bounds, AudioAssumption DEF IInv, Types, IndexInv,
         OutputInv, Playing, Blocks
    <2>4. sReservedBlock # sounding
      <3> SUFFICES ASSUME sounding \in Blocks PROVE sWriteIndex # sounding
        BY <2>1, IndexType DEF IInv, Types
      <3>1. sounding # NONE
        BY IndexType
      <3>2. CASE output = "advance"
        BY <2>2, <3>1, <3>2, Bounds, AudioAssumption DEF IInv, Types, IndexInv,
           OutputInv, Blocks
      <3>3. CASE output # "advance"
        BY <2>2, <3>1, <3>3, AudioAssumption DEF IInv, Types, IndexInv,
           OutputInv, Next1, Blocks
      <3> QED
        BY <3>2, <3>3
    <2> QED
      BY <2>3, <2>4
  <1> QED
    BY <1>1, Invariance, PTL
-----------------------------------------------------------------------------
(* The blocks queued, as the abstract stream sees them.                    *)
Waiting == IF output = "advance" THEN Tail(Queued) ELSE Queued
Place(k) == (sReadIndex + k - 1) % BLOCK_COUNT

LEMMA RestOf ==
  ASSUME NEW n \in Nat, NEW x \in Nat, n > 0
  PROVE  /\ x < n => x % n = x
         /\ n <= x /\ x < 2 * n => x % n = x - n
         /\ x % n \in 0..(n - 1)
  OBVIOUS

LEMMA PlaceIs ==
  ASSUME IInv, NEW k \in 1..BLOCK_COUNT
  PROVE  /\ Place(k) \in Blocks
         /\ Place(k) = IF sReadIndex + k <= BLOCK_COUNT
                         THEN sReadIndex + k - 1
                         ELSE sReadIndex + k - 1 - BLOCK_COUNT
  <1> DEFINE x == sReadIndex + k - 1
  <1>1. BLOCK_COUNT \in Nat /\ BLOCK_COUNT > 0
    BY AudioAssumption
  <1>2. x \in Nat /\ x < 2 * BLOCK_COUNT
    BY <1>1 DEF IInv, Types, Blocks
  <1>3. /\ x < BLOCK_COUNT => x % BLOCK_COUNT = x
        /\ BLOCK_COUNT <= x => x % BLOCK_COUNT = x - BLOCK_COUNT
        /\ x % BLOCK_COUNT \in 0..(BLOCK_COUNT - 1)
    BY <1>1, <1>2, RestOf
  <1>4. Place(k) = x % BLOCK_COUNT
    BY DEF Place
  <1>5. sReadIndex \in Nat
    BY DEF IInv, Types, Blocks
  <1> QED
    BY <1>1, <1>3, <1>4, <1>5 DEF Blocks

(* The queue holds the lengths of the blocks from sReadIndex on.           *)
QueueInv ==
    /\ Queued \in Seq(Lengths) /\ Len(Queued) = sQueuedBlocks
    /\ \A k \in 1..sQueuedBlocks :
          Place(k) \in Blocks /\ Queued[k] = sBlocks[Place(k)]

LEMMA QueuedIs == IInv => QueueInv
  <1> SUFFICES ASSUME IInv PROVE QueueInv
    OBVIOUS
  <1>1. sQueuedBlocks \in Nat /\ sQueuedBlocks < BLOCK_COUNT
    BY Bounds, AudioAssumption
  <1>2. \A k \in 1..sQueuedBlocks : Place(k) \in Blocks
    BY <1>1, PlaceIs, AudioAssumption
  <1>3. \A k \in 1..sQueuedBlocks : sBlocks[Place(k)] \in Lengths
    BY <1>2 DEF IInv, Types
  <1>4. Queued = [k \in 1..sQueuedBlocks |-> sBlocks[Place(k)]]
    BY DEF Queued, Place
  <1>5. Queued \in Seq(Lengths) /\ Len(Queued) = sQueuedBlocks
    <2> HIDE DEF Place
    <2> QED
      BY <1>1, <1>3, <1>4
  <1> QED
    BY <1>2, <1>4, <1>5 DEF QueueInv

(* What makes two queues the same.                                         *)
LEMMA SameQueue ==
  ASSUME QueueInv, QueueInv', sQueuedBlocks' = sQueuedBlocks,
         \A k \in 1..sQueuedBlocks : sBlocks'[Place(k)'] = sBlocks[Place(k)]
  PROVE  Queued' = Queued
  BY SeqEqual DEF QueueInv

LEMMA SamePlace ==
  ASSUME sReadIndex' = sReadIndex, NEW k
  PROVE  Place(k)' = Place(k)
  BY DEF Place

(* The places of the queue are not the one being written.                  *)
LEMMA WriterApart ==
  ASSUME IInv, NEW k \in 1..sQueuedBlocks
  PROVE  Place(k) # sWriteIndex
  <1>1. /\ sQueuedBlocks \in Nat /\ sQueuedBlocks < BLOCK_COUNT
        /\ BLOCK_COUNT \in Nat
    BY Bounds, AudioAssumption
  <1>2. k \in 1..BLOCK_COUNT
    BY <1>1
  <1> QED
    BY <1>1, <1>2, PlaceIs DEF IInv, Types, IndexInv, Blocks

(* Committing adds the length reserved at the end of the queue.            *)
LEMMA CommittedQueue ==
  ASSUME IInv, QueueInv, QueueInv', Commit
  PROVE  /\ sReservedFrames \in Lengths
         /\ Queued' = Append(Queued, sReservedFrames)
  <1>1. /\ sQueuedBlocks \in Nat /\ sQueuedBlocks + 1 <= BLOCK_COUNT
        /\ BLOCK_COUNT \in Nat
    BY Bounds, AudioAssumption DEF Commit
  <1>2. /\ producer = "commit" /\ sQueuedBlocks' = sQueuedBlocks + 1
        /\ sReadIndex' = sReadIndex /\ sBlocks' = sBlocks
    BY DEF Commit
  <1>3. /\ sReservedBlock = sWriteIndex /\ sReservedFrames \in Lengths
        /\ sBlocks[sWriteIndex] = sReservedFrames
    BY <1>2 DEF IInv, ReservedInv, FilledInv, Holding
  <1>4. Place(sQueuedBlocks + 1) = sWriteIndex
    <2>1. sQueuedBlocks + 1 \in 1..BLOCK_COUNT
      BY <1>1
    <2> QED
      BY <1>1, <2>1, PlaceIs DEF IInv, Types, IndexInv, Blocks
  <1>5. \A k \in 1..sQueuedBlocks' : Queued'[k] = sBlocks[Place(k)]
    BY <1>2, SamePlace DEF QueueInv
  <1> DEFINE longer == Append(Queued, sReservedFrames)
  <1>6. /\ longer \in Seq(Lengths) /\ Len(longer) = sQueuedBlocks + 1
        /\ \A k \in 1..sQueuedBlocks : longer[k] = Queued[k]
        /\ longer[sQueuedBlocks + 1] = sReservedFrames
    BY <1>3, AppendProperties DEF QueueInv
  <1>7. \A k \in 1..sQueuedBlocks' : Queued'[k] = longer[k]
    <2> SUFFICES ASSUME NEW k \in 1..sQueuedBlocks'
                 PROVE  Queued'[k] = longer[k]
      OBVIOUS
    <2>1. CASE k = sQueuedBlocks + 1
      BY <2>1, <1>3, <1>4, <1>5, <1>6
    <2>2. CASE k # sQueuedBlocks + 1
      <3>1. k \in 1..sQueuedBlocks
        BY <2>2, <1>1, <1>2
      <3> QED
        BY <3>1, <1>5, <1>6 DEF QueueInv
    <2> QED
      BY <2>1, <2>2
  <1>8. Queued' \in Seq(Lengths) /\ Len(Queued') = sQueuedBlocks + 1
    BY <1>2 DEF QueueInv
  <1>9. Queued' = longer
    <2> HIDE DEF longer
    <2> QED
      BY <1>2, <1>6, <1>7, <1>8, SeqEqual
  <1> QED
    BY <1>3, <1>9

(* The queue once the reader is past its first block.                      *)
LEMMA AdvancedQueue ==
  ASSUME IInv, IInv', QueueInv, QueueInv', Advance
  PROVE  Queued' = Tail(Queued)
  <1>1. /\ sQueuedBlocks \in Nat /\ sQueuedBlocks > 0
        /\ sQueuedBlocks < BLOCK_COUNT /\ BLOCK_COUNT \in Nat
    BY Bounds, AudioAssumption DEF Advance
  <1>2. /\ sQueuedBlocks' = sQueuedBlocks - 1
        /\ sReadIndex' = Next1(sReadIndex) /\ sBlocks' = sBlocks
    BY DEF Advance
  <1>3. \A k \in 1..sQueuedBlocks' : Place(k)' = Place(k + 1)
    <2> SUFFICES ASSUME NEW k \in 1..sQueuedBlocks'
                 PROVE  Place(k)' = Place(k + 1)
      OBVIOUS
    <2>1. k \in 1..BLOCK_COUNT /\ k + 1 \in 1..BLOCK_COUNT
      BY <1>1, <1>2
    <2>2. sReadIndex \in Nat /\ sReadIndex < BLOCK_COUNT
      BY <1>1 DEF IInv, Types, Blocks
    <2>3. CASE sReadIndex = BLOCK_COUNT - 1
      <3>1. Place(k)' = (k - 1) % BLOCK_COUNT
        BY <2>1, <2>3, <1>1, <1>2 DEF Place, Next1
      <3>2. (k - 1) % BLOCK_COUNT = k - 1
        BY <2>1, <1>1, RestOf
      <3>3. Place(k + 1) = k - 1
        BY <2>1, <2>3, <1>1, PlaceIs
      <3> QED
        BY <3>1, <3>2, <3>3
    <2>4. CASE sReadIndex # BLOCK_COUNT - 1
      <3>1. sReadIndex' + k - 1 = sReadIndex + (k + 1) - 1
        BY <2>1, <2>2, <2>4, <1>2 DEF Next1
      <3> QED
        BY <3>1 DEF Place
    <2> QED
      BY <2>3, <2>4
  <1>4. Queued # << >>
    BY <1>1 DEF QueueInv
  <1>5. /\ Tail(Queued) \in Seq(Lengths)
        /\ Len(Tail(Queued)) = sQueuedBlocks - 1
        /\ \A k \in 1..(sQueuedBlocks - 1) : Tail(Queued)[k] = Queued[k + 1]
    BY <1>4, HeadTailProperties DEF QueueInv
  <1>6. \A k \in 1..sQueuedBlocks' : Queued'[k] = Tail(Queued)[k]
    <2> SUFFICES ASSUME NEW k \in 1..sQueuedBlocks'
                 PROVE  Queued'[k] = Tail(Queued)[k]
      OBVIOUS
    <2>1. k + 1 \in 1..sQueuedBlocks
      BY <1>1, <1>2
    <2>2. Queued'[k] = sBlocks[Place(k + 1)]
      BY <1>2, <1>3 DEF QueueInv
    <2>3. Queued[k + 1] = sBlocks[Place(k + 1)]
      BY <2>1 DEF QueueInv
    <2> QED
      BY <1>2, <1>5, <2>2, <2>3
  <1> QED
    BY <1>2, <1>5, <1>6, SeqEqual DEF QueueInv
(* Every step of the ring gives a block, hands the first one over, or is   *)
(* none to the stream; UNCHANGED is said of the stream's variables.        *)
Still == Queued' = Queued /\ heard' = heard

LEMMA QuietStep ==
  ASSUME IInv, QueueInv, QueueInv',
         UNCHANGED <<sReadIndex, sQueuedBlocks, heard>>,
         UNCHANGED sBlocks \/ Fill
  PROVE  Still
  <1>1. \A k \in 1..sQueuedBlocks : sBlocks'[Place(k)] = sBlocks[Place(k)]
    <2>1. CASE UNCHANGED sBlocks
      BY <2>1
    <2>2. CASE Fill
      <3>1. sReservedBlock = sWriteIndex /\ sReservedBlock \in Blocks
        BY <2>2 DEF Fill, IInv, Types, ReservedInv, Holding
      <3>2. \A k \in 1..sQueuedBlocks : Place(k) # sReservedBlock
        BY <3>1, WriterApart
      <3>3. sBlocks' = [sBlocks EXCEPT ![sReservedBlock] = sReservedFrames]
        BY <2>2 DEF Fill
      <3> QED
        BY <3>1, <3>2, <3>3 DEF IInv, Types, QueueInv
    <2> QED
      BY <2>1, <2>2
  <1>2. \A k \in 1..sQueuedBlocks : sBlocks'[Place(k)'] = sBlocks[Place(k)]
    BY <1>1, SamePlace
  <1> QED
    BY <1>2, SameQueue DEF Still

LEMMA StreamStep ==
  ASSUME IInv, IInv', [Next]_vars
  PROVE  [Stream!Next]_<<Waiting, heard>>
  <1> USE DEF Waiting
  <1>0. QueueInv /\ QueueInv'
    BY QueuedIs, PTL
  <1>1. CASE \/ TakeSpace \/ (\E n \in Lengths : Reserve(n)) \/ Fill
             \/ SignalReady \/ AwaitReady \/ Peek \/ ReleaseSpace
             \/ UNCHANGED vars
    <2>1. /\ UNCHANGED <<sReadIndex, sQueuedBlocks, heard>>
          /\ UNCHANGED sBlocks \/ Fill
          /\ output' = "advance" <=> output = "advance"
      BY <1>1 DEF TakeSpace, Reserve, Fill, SignalReady, AwaitReady, Peek,
         ReleaseSpace, vars, ring, outputVars
    <2>2. Still
      BY <1>0, <2>1, QuietStep
    <2> QED
      BY <2>1, <2>2, Zenon DEF Still
  <1>2. CASE Commit
    <2>1. /\ sReservedFrames \in Lengths
          /\ Queued' = Append(Queued, sReservedFrames)
      BY <1>0, <1>2, CommittedQueue
    <2>2. heard' = heard /\ output' = output
      BY <1>2 DEF Commit, outputVars
    <2>3. /\ sQueuedBlocks \in Nat /\ sQueuedBlocks < QUEUE_TARGET
          /\ output = "advance" => sQueuedBlocks > 0
      BY <1>2, Bounds DEF Commit, Taken
    <2>4. Waiting' = Append(Waiting, sReservedFrames)
      <3>1. CASE output = "advance"
        BY <2>1, <2>2, <2>3, <3>1, <1>0, AppendProperties, HeadTailProperties
           DEF QueueInv
      <3>2. CASE output # "advance"
        BY <2>1, <2>2, <3>2
      <3> QED
        BY <3>1, <3>2
    <2>5. Len(Waiting) < QUEUE_TARGET
      <3>1. CASE output = "advance"
        <4>1. Len(Tail(Queued)) = sQueuedBlocks - 1
          BY <3>1, <2>3, <1>0, HeadTailProperties DEF QueueInv
        <4> QED
          BY <4>1, <3>1, <2>3, AudioAssumption
      <3>2. CASE output # "advance"
        BY <2>3, <3>2, <1>0 DEF QueueInv
      <3> QED
        BY <3>1, <3>2
    <2>6. Stream!Give(sReservedFrames)
      BY <2>2, <2>4, <2>5 DEF Stream!Give
    <2> QED
      BY <2>1, <2>6 DEF Stream!Next
  <1>3. CASE Play
    <2>1. /\ output = "play" /\ output' = "advance"
          /\ heard' \in {sBlocks[block], heard}
          /\ UNCHANGED <<sBlocks, sReadIndex, sQueuedBlocks>>
      BY <1>3 DEF Play, ring
    <2>2. Queued' = Queued
      BY <2>1, <1>0, SamePlace, SameQueue
    <2>3. sQueuedBlocks \in Nat /\ sQueuedBlocks > 0
      BY <2>1, Bounds
    <2>4. Queued # << >> /\ Head(Queued) = sBlocks[sReadIndex]
      <3>1. /\ sReadIndex \in Nat /\ sReadIndex + 1 <= BLOCK_COUNT
            /\ BLOCK_COUNT \in Nat
        BY AudioAssumption DEF IInv, Types, Blocks
      <3>2. Place(1) = sReadIndex
        BY <3>1, PlaceIs
      <3>3. Queued[1] = sBlocks[Place(1)]
        BY <2>3, <1>0 DEF QueueInv
      <3>4. Len(Queued) > 0
        BY <2>3, <1>0 DEF QueueInv
      <3> QED
        BY <3>2, <3>3, <3>4, <1>0 DEF QueueInv
    <2>5. block = sReadIndex
      BY <2>1 DEF IInv, OutputInv, Playing
    <2>6. Waiting = Queued /\ Waiting' = Tail(Queued)
      BY <2>1, <2>2
    <2> QED
      BY <2>1, <2>4, <2>5, <2>6 DEF Stream!Next, Stream!Hear
  <1>4. CASE Advance
    <2>1. output = "advance" /\ output' # "advance" /\ heard' = heard
      BY <1>4 DEF Advance
    <2>2. Queued' = Tail(Queued)
      BY <1>0, <1>4, AdvancedQueue
    <2> QED
      BY <2>1, <2>2
  <1> QED
    BY <1>1, <1>2, <1>3, <1>4 DEF Next, Producer, Output

(* The blocks the audio thread commits reach the device whole, once each   *)
(* and in order, a refused one excepted: what StreamsInOrder says, but for *)
(* its fairness.                                                           *)
BlocksInOrder == Stream!Init /\ [][Stream!Next]_<<Waiting, heard>>

(* The ring of audio_output.c implements the stream PcmStream promises.    *)
THEOREM StreamImplemented == Spec => BlocksInOrder
  <1>1. Init => Stream!Init
    <2> SUFFICES ASSUME Init PROVE Stream!Init
      OBVIOUS
    <2>1. IInv /\ output = "wait" /\ sQueuedBlocks = 0 /\ heard \in Lengths
      BY InitInv DEF Init
    <2>2. Queued = << >>
      BY <2>1, QueuedIs DEF QueueInv
    <2> QED
      BY <2>1, <2>2 DEF Stream!Init
  <1>2. IInv /\ IInv' /\ [Next]_vars => [Stream!Next]_<<Waiting, heard>>
    BY StreamStep
  <1> QED
    BY <1>1, <1>2, Invariance, PTL DEF Spec, BlocksInOrder
=============================================================================
