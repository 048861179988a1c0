------------------------------ MODULE AudioOutput ------------------------------
(***************************************************************************)
(* The ring of sound blocks of audio_output.c.  The audio thread reserves  *)
(* the block at sWriteIndex, has it filled without the lock, by itself or  *)
(* by the Media Engine, and commits it; the output thread hands the block  *)
(* at sReadIndex to the device, without the lock too.  sSpace counts the   *)
(* blocks the audio thread may still take and sReady those committed.      *)
(*                                                                         *)
(* What runs under sMutex is one step.  The device reads the block it was  *)
(* given last until it has taken the next; a call that fails leaves it     *)
(* silent.  A block is told by its length in frames.  Statistics are left  *)
(* out; so are Submit, which the audio thread calls only after a failed    *)
(* Reserve (NoOverrun), and Cancel, which nothing calls.                   *)
(***************************************************************************)
EXTENDS Naturals, Sequences

CONSTANTS
    BLOCK_COUNT,   (* PSP_AUDIO_BLOCK_COUNT                                  *)
    QUEUE_TARGET,  (* PSP_AUDIO_QUEUE_TARGET                                 *)
    Lengths,       (* of a block                                             *)
    NONE

ASSUME AudioAssumption ==
    /\ BLOCK_COUNT \in Nat /\ QUEUE_TARGET \in Nat
    /\ 0 < QUEUE_TARGET /\ QUEUE_TARGET < BLOCK_COUNT
    /\ Lengths \subseteq Nat /\ Lengths # {}
    /\ NONE \notin Nat

Blocks == 0..(BLOCK_COUNT - 1)
Next1(b) == IF b = BLOCK_COUNT - 1 THEN 0 ELSE b + 1

VARIABLES
    sBlocks,       (* what each block holds                                  *)
    sReadIndex, sWriteIndex, sQueuedBlocks, sQueuedBytes,
    sReservedBlock, sReservedFrames,
    sReady, sSpace,     (* semaphores                                        *)
    producer,      (* the audio thread's next step                           *)
    output,        (* the output thread's next step                          *)
    block, blockBytes,  (* its locals                                        *)
    sounding,      (* the block the device reads, or NONE                    *)
    heard          (* what the device was handed last                        *)

ring == <<sReadIndex, sWriteIndex, sQueuedBlocks, sQueuedBytes,
          sReservedBlock, sReservedFrames>>
outputVars == <<output, block, blockBytes, sounding, heard>>
vars == <<sBlocks, ring, sReady, sSpace, producer, outputVars>>

(* A semaphore does not count above its maximum.                           *)
Signal(count, max) == IF count < max THEN count + 1 ELSE count

Init ==
    /\ sBlocks \in {[b \in Blocks |-> n] : n \in Lengths}
    /\ sReadIndex = 0 /\ sWriteIndex = 0
    /\ sQueuedBlocks = 0 /\ sQueuedBytes = 0
    /\ sReservedBlock = NONE /\ sReservedFrames = 0
    /\ sReady = 0 /\ sSpace = QUEUE_TARGET
    /\ producer = "idle" /\ output = "wait"
    /\ block = 0 /\ blockBytes = 0
    /\ sounding = NONE /\ heard \in Lengths
-----------------------------------------------------------------------------
(* PspAudioOutput_Reserve waits for space, then takes the block.           *)
Overrun == sReservedBlock # NONE \/ sQueuedBlocks = BLOCK_COUNT

TakeSpace ==
    /\ producer = "idle" /\ sSpace > 0
    /\ sSpace' = sSpace - 1 /\ producer' = "reserve"
    /\ UNCHANGED <<sBlocks, ring, sReady, outputVars>>

Reserve(n) ==
    /\ producer = "reserve"
    /\ IF Overrun
         THEN /\ producer' = "overrun"
              /\ sSpace' = Signal(sSpace, QUEUE_TARGET)
              /\ UNCHANGED <<sReservedBlock, sReservedFrames>>
         ELSE /\ producer' = "fill"
              /\ sReservedBlock' = sWriteIndex /\ sReservedFrames' = n
              /\ UNCHANGED sSpace
    /\ UNCHANGED <<sBlocks, sReadIndex, sWriteIndex, sQueuedBlocks,
                   sQueuedBytes, sReady, outputVars>>

(* The mixer or the Media Engine writes the samples.                       *)
Fill ==
    /\ producer = "fill" /\ producer' = "commit"
    /\ sBlocks' = [sBlocks EXCEPT ![sReservedBlock] = sReservedFrames]
    /\ UNCHANGED <<ring, sReady, sSpace, outputVars>>

(* PspAudioOutput_Commit; the size is always the reserved one.             *)
Commit ==
    /\ producer = "commit" /\ producer' = "signal"
    /\ sReservedBlock' = NONE /\ sReservedFrames' = 0
    /\ sWriteIndex' = Next1(sWriteIndex)
    /\ sQueuedBlocks' = sQueuedBlocks + 1
    /\ sQueuedBytes' = sQueuedBytes + 4 * sReservedFrames
    /\ UNCHANGED <<sBlocks, sReadIndex, sReady, sSpace, outputVars>>

(* Variant: the semaphore holds one wake-up.                               *)
SignalReadyOnce ==
    /\ producer = "signal" /\ producer' = "idle"
    /\ sReady' = Signal(sReady, 1)
    /\ UNCHANGED <<sBlocks, ring, sSpace, outputVars>>

SignalReady ==
    /\ producer = "signal" /\ producer' = "idle"
    /\ sReady' = Signal(sReady, BLOCK_COUNT)
    /\ UNCHANGED <<sBlocks, ring, sSpace, outputVars>>
-----------------------------------------------------------------------------
(* psp_audio_output_thread.                                                *)
AwaitReady ==
    /\ output = "wait" /\ sReady > 0
    /\ sReady' = sReady - 1 /\ output' = "peek"
    /\ UNCHANGED <<sBlocks, ring, sSpace, producer, block, blockBytes,
                   sounding, heard>>

Peek ==
    /\ output = "peek"
    /\ IF sQueuedBlocks = 0
         THEN output' = "wait" /\ UNCHANGED <<block, blockBytes>>
         ELSE /\ output' = "play"
              /\ block' = sReadIndex
              /\ blockBytes' = 4 * sBlocks[sReadIndex]
    /\ UNCHANGED <<sBlocks, ring, sReady, sSpace, producer, sounding, heard>>

(* Variant: the audio thread is let in before the block is given back.     *)
PlayReleasing ==
    /\ output = "play" /\ output' = "advance"
    /\ \/ sounding' = block /\ heard' = sBlocks[block]
       \/ sounding' = NONE /\ UNCHANGED heard
    /\ sSpace' = Signal(sSpace, QUEUE_TARGET)
    /\ UNCHANGED <<sBlocks, ring, sReady, producer, block, blockBytes>>

(* The device takes the block once it is done with the one before, or      *)
(* refuses it.                                                             *)
Play ==
    /\ output = "play" /\ output' = "advance"
    /\ \/ sounding' = block /\ heard' = sBlocks[block]
       \/ sounding' = NONE /\ UNCHANGED heard
    /\ UNCHANGED <<sBlocks, ring, sReady, sSpace, producer, block, blockBytes>>

Advance ==
    /\ output = "advance" /\ output' = "release"
    /\ sReadIndex' = Next1(sReadIndex)
    /\ sQueuedBlocks' = sQueuedBlocks - 1
    /\ sQueuedBytes' = IF sQueuedBytes >= blockBytes
                         THEN sQueuedBytes - blockBytes ELSE 0
    /\ UNCHANGED <<sBlocks, sWriteIndex, sReservedBlock, sReservedFrames,
                   sReady, sSpace, producer, block, blockBytes, sounding,
                   heard>>

ReleaseSpace ==
    /\ output = "release" /\ output' = "wait"
    /\ sSpace' = Signal(sSpace, QUEUE_TARGET)
    /\ UNCHANGED <<sBlocks, ring, sReady, producer, block, blockBytes,
                   sounding, heard>>
-----------------------------------------------------------------------------
Producer == TakeSpace \/ (\E n \in Lengths : Reserve(n)) \/ Fill \/ Commit
            \/ SignalReady
Output == AwaitReady \/ Peek \/ Play \/ Advance \/ ReleaseSpace

Next == Producer \/ Output

Spec == Init /\ [][Next]_vars

(* The output thread runs, and the device takes or refuses what it is      *)
(* given.  The audio thread, once in Commit, reaches its end.              *)
FairSpec == Spec /\ WF_vars(Output) /\ WF_vars(SignalReady)
-----------------------------------------------------------------------------
TypeOK ==
    /\ sBlocks \in [Blocks -> Lengths]
    /\ sReadIndex \in Blocks /\ sWriteIndex \in Blocks
    /\ sQueuedBlocks \in 0..QUEUE_TARGET /\ sQueuedBytes \in Nat
    /\ sReservedBlock \in Blocks \union {NONE}
    /\ sReservedFrames \in Lengths \union {0}
    /\ sReady \in 0..QUEUE_TARGET /\ sSpace \in 0..QUEUE_TARGET
    /\ producer \in {"idle", "reserve", "overrun", "fill", "commit", "signal"}
    /\ output \in {"wait", "peek", "play", "advance", "release"}
    /\ block \in Blocks /\ blockBytes \in Nat
    /\ sounding \in Blocks \union {NONE} /\ heard \in Lengths

(* No call of Reserve fails: whoever got past sSpace finds a free block    *)
(* and no reservation.  The audio thread has nowhere to put its sound      *)
(* otherwise.                                                              *)
NoOverrun == producer = "reserve" => ~Overrun

(* No wake-up of the output thread is false, and none is lost: what it is  *)
(* told of, it has taken up, or is about to be told of, is what is queued. *)
WakesMatchBlocks ==
    sQueuedBlocks = sReady
                    + (IF output \in {"peek", "play", "advance"} THEN 1 ELSE 0)
                    + (IF producer = "signal" THEN 1 ELSE 0)

(* The block being filled without the lock is neither the one the output   *)
(* thread hands over without the lock nor the one the device still reads.  *)
NotOverwritten ==
    sReservedBlock # NONE =>
        /\ sReservedBlock # sounding
        /\ output \in {"play", "advance"} => sReservedBlock # block

(* The lengths of the blocks queued.                                       *)
Queued == [k \in 1..sQueuedBlocks |->
             sBlocks[(sReadIndex + k - 1) % BLOCK_COUNT]]

(* Blocks are heard whole, once and in order, and each is in the end.      *)
Stream == INSTANCE PcmStream WITH
    Sounds <- Lengths, Limit <- QUEUE_TARGET,
    waiting <- IF output = "advance" THEN Tail(Queued) ELSE Queued

StreamsInOrder == Stream!Spec
=============================================================================
