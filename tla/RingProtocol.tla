---------------------------- MODULE RingProtocol ----------------------------
(***************************************************************************)
(* The arithmetic of the shared PCM ring, protocol version 2: slot stamps, *)
(* slot indices and the window of readable frames.  User mode and driver   *)
(* compile the same header, vsn_virtual_mic_protocol.h; the Rust desktop   *)
(* client mirrors it in virtual_mic_protocol.rs.                           *)
(***************************************************************************)
EXTENDS Integers

CONSTANTS Capacity,          \* capacity_frames of the validated header
          MaxFrameSequence   \* kMaxFrameSequence: UINT64_MAX >> 1 in the code

ASSUME CapacityAssumption == Capacity \in Nat \ {0}
ASSUME MaxFrameSequenceAssumption == MaxFrameSequence \in Nat

(***************************************************************************)
(* 64-bit words hold 2^64 = 2 * (MaxFrameSequence + 1) values: the stamp   *)
(* keeps one bit for "writing", which is why a frame sequence has one bit  *)
(* less than a word.                                                       *)
(***************************************************************************)
Word == 2 * (MaxFrameSequence + 1)

FrameSequences == 0 .. MaxFrameSequence
CursorValues == 0 .. MaxFrameSequence + 1   \* a cursor counts frames
Slots == 0 .. Capacity - 1

CanEncodeFrameSequence(sequence) == sequence <= MaxFrameSequence

StableStamp(sequence) == (2 * sequence) % Word
WritingStamp(sequence) == StableStamp(sequence) + 1

SlotIndex(sequence) == sequence % Capacity

-----------------------------------------------------------------------------
(***************************************************************************)
(* PlanRingWindow: which frames between the two cursors are still in the   *)
(* ring.  More than Capacity frames behind, the oldest are given up.       *)
(***************************************************************************)
RawBuffered(producer, consumer) == producer - consumer

\* Mutant: one frame beyond the ring's capacity is still taken for readable.
DroppedFramesLate(producer, consumer) ==
    IF producer - consumer > Capacity + 1 THEN producer - consumer - Capacity ELSE 0

DroppedFrames(producer, consumer) ==
    IF RawBuffered(producer, consumer) > Capacity
    THEN RawBuffered(producer, consumer) - Capacity ELSE 0

\* Mutant: an overrun skips to the producer, retained frames included.
NormalizedConsumerSkipsAll(producer, consumer) ==
    IF DroppedFrames(producer, consumer) = 0 THEN consumer ELSE producer

\* Mutant: an overrun skips one retained frame that was not counted as dropped.
NormalizedConsumerOffByOne(producer, consumer) ==
    IF DroppedFrames(producer, consumer) = 0 THEN consumer ELSE producer - Capacity + 1

NormalizedConsumer(producer, consumer) ==
    IF DroppedFrames(producer, consumer) = 0 THEN consumer ELSE producer - Capacity

BufferedFrames(producer, consumer) ==
    IF RawBuffered(producer, consumer) < Capacity
    THEN RawBuffered(producer, consumer) ELSE Capacity

PlanStatus(producer, consumer) ==
    IF producer < consumer THEN "kCursorOrderInvalid"
    ELSE IF producer > MaxFrameSequence + 1 \/ consumer > MaxFrameSequence + 1
         THEN "kFrameSequenceOverflow"
         ELSE "kOk"
=============================================================================
