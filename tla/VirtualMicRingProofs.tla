------------------------ MODULE VirtualMicRingProofs ------------------------
(***************************************************************************)
(* Proofs about VirtualMicRing for every capacity, sequence limit, number  *)
(* of pieces a frame is copied in, and number of snapshot attempts.        *)
(***************************************************************************)
EXTENDS VirtualMicRing, TLAPS

(***************************************************************************)
(* Arithmetic of the protocol.                                             *)
(***************************************************************************)

\* A slot index is the index of a slot.
LEMMA SlotIndexInRange ==
  ASSUME NEW n \in Nat
  PROVE  SlotIndex(n) \in Slots
BY CapacityAssumption DEF SlotIndex, Slots

\* A frame sequence loses nothing in a stamp.
LEMMA StampValue ==
  ASSUME NEW n \in FrameSequences
  PROVE  StableStamp(n) = 2 * n /\ WritingStamp(n) = 2 * n + 1
<1>1. 2 * n \in 0 .. Word - 1 /\ Word \in Nat \ {0}
  BY MaxFrameSequenceAssumption DEF FrameSequences, Word
<1>2. (2 * n) % Word = 2 * n
  BY <1>1
<1> QED BY <1>2 DEF StableStamp, WritingStamp

\* What PlanRingWindow returns for ordered cursors.
LEMMA WindowPlan ==
  ASSUME NEW p \in CursorValues, NEW c \in CursorValues, c <= p
  PROVE  /\ PlanStatus(p, c) = "kOk"
         /\ DroppedFrames(p, c) \in CursorValues
         /\ NormalizedConsumer(p, c) \in CursorValues
         /\ BufferedFrames(p, c) \in 0 .. Capacity
         /\ NormalizedConsumer(p, c) = c + DroppedFrames(p, c)
         /\ NormalizedConsumer(p, c) + BufferedFrames(p, c) = p
         /\ DroppedFrames(p, c) # 0 => BufferedFrames(p, c) = Capacity
BY CapacityAssumption, MaxFrameSequenceAssumption
   DEF PlanStatus, DroppedFrames, NormalizedConsumer, BufferedFrames, RawBuffered, CursorValues

-----------------------------------------------------------------------------
(***************************************************************************)
(* The inductive invariant.                                                *)
(***************************************************************************)

\* The producer's slot holds what its place in the publication order says.
ProducerInv ==
  /\ ppc = "fill" => /\ stamps[SlotIndex(producer)] = WritingStamp(producer)
                     /\ \A s \in written : pcm[SlotIndex(producer)][s] = producer
  /\ ppc = "publish" => pcm[SlotIndex(producer)] = Frame(producer)

\* A published frame whose stable stamp still stands is in its slot, whole.
StableSlots ==
  \A n \in FrameSequences :
    n < producer /\ stamps[SlotIndex(n)] = StableStamp(n) => pcm[SlotIndex(n)] = Frame(n)

\* What the consumer remembers between two accesses still holds, or the stamp
\* tells that it does not.
ConsumerInv ==
  /\ consumer <= producer
  /\ cpc \in {"normalize", "record"} =>
       /\ window.normalized = consumer + (IF cpc = "normalize" THEN window.dropped ELSE 0)
       /\ window.buffered = Capacity
       /\ window.normalized + Capacity <= producer
       /\ window.dropped # 0
  /\ cpc \in {"stamp", "copy", "deliver"} => window.normalized = consumer /\ consumer < producer
  /\ cpc \notin {"copy", "deliver"} => copied = {}
  /\ cpc = "copy" =>
       (stamps[SlotIndex(consumer)] = StableStamp(consumer) => \A s \in copied : out[s] = consumer)
  /\ cpc = "deliver" => out = Frame(consumer)

HeardInv ==
  /\ \A i \in DOMAIN heard : \E n \in 0 .. consumer - 1 : heard[i] = Frame(n)
  /\ HeardInOrder
  /\ ExactAccounting

\* Every attempt that failed saw the consumer pass the producer it had loaded.
QueryInv ==
  /\ qpc # "idle" => qattempt # 0
  /\ qpc = "producer" => consumer >= qstart + qattempt - 1
  /\ qpc = "consumer" => qproducer >= qstart + qattempt - 1
  /\ QueryFailsOnlyUnderTraffic

OutInv == SilenceUnlessOk /\ (cpc \in {"normalize", "record", "underrun", "stamp"} => out = Silence)

IInv == TypeOK /\ ProducerInv /\ StableSlots /\ ConsumerInv /\ HeardInv /\ QueryInv

-----------------------------------------------------------------------------
(***************************************************************************)
(* Type correctness.                                                       *)
(***************************************************************************)
LEMMA FrameIsPcm == \A n \in FrameSequences \cup {NoFrame} : Frame(n) \in Pcm
BY DEF Frame, Pcm

LEMMA InitTypeOK == Init => TypeOK
<1> SUFFICES ASSUME Init PROVE TypeOK
  OBVIOUS
<1>1. Word \in Nat \ {0} /\ 0 \in CursorValues /\ 0 \in 0 .. Word - 1 /\ 0 \in 0 .. SnapshotAttempts
  BY MaxFrameSequenceAssumption, SnapshotAttemptsAssumption DEF Word, CursorValues
<1>2. NoWindow \in Windows
  BY <1>1, CapacityAssumption DEF NoWindow, Windows
<1>3. Silence \in Pcm
  BY FrameIsPcm DEF Silence
<1> QED
  BY <1>1, <1>2, <1>3 DEF Init, TypeOK, ConsumeStatuses

LEMMA ProducerTypeOK == TypeOK /\ ProducerNext => TypeOK'
<1> SUFFICES ASSUME TypeOK, ProducerNext PROVE TypeOK'
  OBVIOUS
<1> USE DEF vars, ringVars, producerVars, consumerVars, queryVars
<1>1. SlotIndex(producer) \in Slots /\ producer \in Nat
  BY SlotIndexInRange, MaxFrameSequenceAssumption DEF TypeOK, CursorValues
<1>2. \A n \in FrameSequences : StableStamp(n) \in 0 .. Word - 1 /\ WritingStamp(n) \in 0 .. Word - 1
  BY StampValue, MaxFrameSequenceAssumption DEF Word, FrameSequences
<1>3. CASE BeginSlotWrite
  <2>1. producer \in FrameSequences
    BY <1>3 DEF BeginSlotWrite, CanEncodeFrameSequence, TypeOK, CursorValues, FrameSequences
  <2>2. stamps' \in [Slots -> 0 .. Word - 1]
    BY <1>1, <1>2, <1>3, <2>1 DEF BeginSlotWrite, TypeOK
  <2> QED
    BY <1>3, <2>1, <2>2 DEF BeginSlotWrite, TypeOK
<1>4. ASSUME NEW s \in Samples, WritePcm(s) PROVE TypeOK'
  <2>1. pcm' \in [Slots -> Pcm]
    BY <1>1, <1>4 DEF WritePcm, TypeOK, Pcm
  <2> QED
    BY <1>4, <2>1 DEF WritePcm, TypeOK
<1>5. CASE CommitSlotWrite
  <2>1. stamps' \in [Slots -> 0 .. Word - 1]
    BY <1>1, <1>2, <1>5 DEF CommitSlotWrite, TypeOK
  <2> QED
    BY <1>5, <2>1 DEF CommitSlotWrite, TypeOK
<1>6. CASE PublishProducerSequence
  BY <1>6, MaxFrameSequenceAssumption
     DEF PublishProducerSequence, CanPublishProducer, TypeOK, CursorValues, FrameSequences
<1> QED
  BY <1>3, <1>4, <1>5, <1>6 DEF ProducerNext

LEMMA ConsumerTypeOK == TypeOK /\ ConsumerNext => TypeOK'
<1> SUFFICES ASSUME TypeOK, ConsumerNext PROVE TypeOK'
  OBVIOUS
<1> USE DEF vars, ringVars, producerVars, consumerVars, queryVars
<1>1. Silence \in Pcm /\ NoWindow \in Windows
  BY FrameIsPcm, CapacityAssumption, MaxFrameSequenceAssumption
     DEF Silence, NoWindow, Windows, CursorValues
<1>2. CASE TakeSnapshot
  <2>1. CASE cpc' = "idle"
    BY <1>1, <1>2, <2>1 DEF TakeSnapshot, Return, TypeOK, ConsumeStatuses, AfterPlan
  <2>2. CASE cpc' # "idle"
    <3>1. consumer <= producer
      BY <1>2, <2>2 DEF TakeSnapshot, Return, TypeOK, CursorValues
    <3>2. window' \in Windows /\ out' \in Pcm
      BY <1>1, <1>2, <2>2, <3>1, WindowPlan DEF TakeSnapshot, Return, TypeOK, Windows
    <3> QED
      BY <1>2, <2>2, <3>2 DEF TakeSnapshot, Return, TypeOK, AfterPlan
  <2> QED
    BY <2>1, <2>2
<1>3. CASE NormalizeCursor
  BY <1>1, <1>3 DEF NormalizeCursor, Return, TypeOK, ConsumeStatuses, Windows
<1>4. CASE RecordOverrunDrops
  <2>1. Word \in Nat \ {0} /\ overrunDrops + window.dropped \in Nat
    BY MaxFrameSequenceAssumption DEF Word, TypeOK, Windows, CursorValues
  <2>2. window' \in Windows
    <3>1. window \in Windows /\ window' = [window EXCEPT !.dropped = 0]
      BY <1>4 DEF RecordOverrunDrops, TypeOK
    <3>2. 0 \in CursorValues
      BY MaxFrameSequenceAssumption DEF CursorValues
    <3> QED
      BY <3>1, <3>2 DEF Windows
  <2>3. overrunDrops' \in 0 .. Word - 1
    BY <1>4, <2>1 DEF RecordOverrunDrops
  <2> QED
    BY <1>4, <2>2, <2>3 DEF RecordOverrunDrops, TypeOK, AfterPlan
<1>5. CASE RecordUnderrun
  <2>1. underruns' \in 0 .. Word - 1
    BY <1>5, MaxFrameSequenceAssumption DEF RecordUnderrun, TypeOK, Word
  <2> QED
    BY <1>1, <1>5, <2>1 DEF RecordUnderrun, Return, TypeOK, ConsumeStatuses
<1>6. CASE CheckStampBefore
  BY <1>1, <1>6 DEF CheckStampBefore, Return, TypeOK, ConsumeStatuses
<1>7. ASSUME NEW s \in Samples, CopyPcm(s) PROVE TypeOK'
  <2>1. SlotIndex(window.normalized) \in Slots
    BY SlotIndexInRange, MaxFrameSequenceAssumption DEF TypeOK, Windows, CursorValues
  <2>2. out' \in Pcm
    BY <1>7, <2>1 DEF CopyPcm, TypeOK, Pcm
  <2> QED
    BY <1>7, <2>2 DEF CopyPcm, TypeOK
<1>8. CASE CheckStampAfter
  BY <1>1, <1>8 DEF CheckStampAfter, Return, TypeOK, ConsumeStatuses
<1>9. CASE DeliverFrame
  <2>1. consumer' \in CursorValues
    BY <1>9, MaxFrameSequenceAssumption
       DEF DeliverFrame, CanPublishConsumer, TypeOK, Windows, CursorValues
  <2>2. heard' \in Seq(Pcm)
    <3>1. heard \in Seq(Pcm) /\ out \in Pcm
      BY DEF TypeOK
    <3>2. heard' = heard \/ heard' = Append(heard, out)
      BY <1>9 DEF DeliverFrame
    <3> QED
      BY <3>1, <3>2
  <2> QED
    BY <1>1, <1>9, <2>1, <2>2 DEF DeliverFrame, Return, TypeOK, ConsumeStatuses
<1> QED
  BY <1>2, <1>3, <1>4, <1>5, <1>6, <1>7, <1>8, <1>9 DEF ConsumerNext

LEMMA QueryTypeOK == TypeOK /\ QueryNext => TypeOK'
<1> SUFFICES ASSUME TypeOK, QueryNext PROVE TypeOK'
  OBVIOUS
<1> USE SnapshotAttemptsAssumption DEF vars, ringVars, producerVars, consumerVars, queryVars
<1>1. CASE BeginQuery
  BY <1>1 DEF BeginQuery, TypeOK
<1>2. CASE QueryLoadProducer
  BY <1>2 DEF QueryLoadProducer, TypeOK
<1>3. CASE QueryLoadConsumer
  BY <1>3 DEF QueryLoadConsumer, TypeOK
<1> QED
  BY <1>1, <1>2, <1>3 DEF QueryNext

\* Every variable keeps its type, and a frame being written has a sequence that
\* the stamp can encode.
THEOREM TypeCorrect == Spec => []TypeOK
<1>1. TypeOK /\ UNCHANGED vars => TypeOK'
  BY DEF TypeOK, vars, ringVars, producerVars, consumerVars, queryVars
<1> QED
  BY <1>1, InitTypeOK, ProducerTypeOK, ConsumerTypeOK, QueryTypeOK, PTL DEF Spec, Next

-----------------------------------------------------------------------------
(***************************************************************************)
(* The invariant is inductive.                                             *)
(***************************************************************************)

\* Stamps of different frames, and of the two phases of one, differ.
LEMMA StampsDiffer ==
  ASSUME NEW m \in FrameSequences, NEW n \in FrameSequences
  PROVE  /\ WritingStamp(m) # StableStamp(n)
         /\ StableStamp(m) = StableStamp(n) => m = n
<1>1. m \in Nat /\ n \in Nat
  BY MaxFrameSequenceAssumption DEF FrameSequences
<1> QED
  BY <1>1, StampValue

LEMMA TypeFacts ==
  ASSUME TypeOK
  PROVE  /\ producer \in Nat /\ consumer \in Nat /\ Capacity \in Nat \ {0}
         /\ overrunDrops \in Nat /\ qattempt \in Nat /\ qproducer \in Nat /\ qstart \in Nat
         /\ window.normalized \in Nat /\ window.dropped \in Nat /\ window.buffered \in Nat
         /\ FrameSequences \subseteq Nat
         /\ \A n \in Nat : SlotIndex(n) \in Slots
         /\ \A n \in Nat : n < producer => n \in FrameSequences
BY CapacityAssumption, MaxFrameSequenceAssumption, SlotIndexInRange
   DEF TypeOK, CursorValues, FrameSequences, Windows, Word

LEMMA InitIInv == Init => IInv
<1> SUFFICES ASSUME Init PROVE IInv
  OBVIOUS
<1>1. TypeOK
  BY InitTypeOK
<1>2. ProducerInv /\ StableSlots /\ ConsumerInv /\ QueryInv
  BY <1>1, TypeFacts, SnapshotAttemptsAssumption
     DEF Init, ProducerInv, StableSlots, ConsumerInv, QueryInv, QueryFailsOnlyUnderTraffic
<1>3. HeardInv
  BY DEF Init, HeardInv, HeardInOrder, ExactAccounting, PendingDrops
<1> QED
  BY <1>1, <1>2, <1>3 DEF IInv

LEMMA ProducerIInv == IInv /\ ProducerNext => IInv'
<1> SUFFICES ASSUME IInv, ProducerNext PROVE IInv'
  OBVIOUS
<1> USE DEF IInv
<1>1. TypeOK'
  BY ProducerTypeOK
<1>2. UNCHANGED <<consumerVars, queryVars, consumer, overrunDrops, heard>>
  BY DEF ProducerNext, BeginSlotWrite, WritePcm, CommitSlotWrite, PublishProducerSequence,
         consumerVars, queryVars
<1>3. HeardInv' /\ QueryInv'
  BY <1>2 DEF HeardInv, HeardInOrder, ExactAccounting, PendingDrops, QueryInv,
              QueryFailsOnlyUnderTraffic, consumerVars, queryVars
<1>4. CASE BeginSlotWrite
  <2>1. producer \in FrameSequences
    BY <1>4, TypeFacts DEF BeginSlotWrite, CanEncodeFrameSequence, FrameSequences
  <2>2. \A i \in Slots : stamps'[i] = IF i = SlotIndex(producer) THEN WritingStamp(producer) ELSE stamps[i]
    BY <1>4 DEF BeginSlotWrite, TypeOK
  <2>3. ProducerInv'
    BY <1>4, <2>2, TypeFacts DEF BeginSlotWrite, ProducerInv
  <2>4. StableSlots'
    BY <1>4, <2>1, <2>2, TypeFacts, StampsDiffer DEF BeginSlotWrite, StableSlots
  <2>5. ConsumerInv'
    BY <1>2, <1>4, <2>1, <2>2, TypeFacts, StampsDiffer DEF BeginSlotWrite, ConsumerInv, consumerVars
  <2> QED
    BY <1>1, <1>3, <2>3, <2>4, <2>5
<1>5. ASSUME NEW s \in Samples, WritePcm(s) PROVE IInv'
  <2>1. producer \in FrameSequences /\ ppc = "fill"
    BY <1>5 DEF WritePcm, TypeOK
  <2>2. \A i \in Slots : i # SlotIndex(producer) => pcm'[i] = pcm[i]
    BY <1>5 DEF WritePcm, TypeOK
  <2>3. ProducerInv'
    BY <1>5, <2>1, TypeFacts DEF WritePcm, ProducerInv, TypeOK, Pcm
  <2>4. StableSlots'
    BY <1>5, <2>1, <2>2, TypeFacts, StampsDiffer DEF WritePcm, StableSlots, ProducerInv
  <2>5. ConsumerInv'
    BY <1>2, <1>5 DEF WritePcm, ConsumerInv, consumerVars
  <2> QED
    BY <1>1, <1>3, <2>3, <2>4, <2>5
<1>6. CASE CommitSlotWrite
  <2>1. producer \in FrameSequences /\ ppc = "fill"
    BY <1>6 DEF CommitSlotWrite, TypeOK
  <2>2. /\ \A i \in Slots : stamps'[i] = IF i = SlotIndex(producer) THEN StableStamp(producer) ELSE stamps[i]
        /\ ppc' = "publish" /\ UNCHANGED <<pcm, producer>>
    BY <1>6, <2>1 DEF CommitSlotWrite, TypeOK, ProducerInv
  <2>3. pcm[SlotIndex(producer)] = Frame(producer)
    BY <1>6, <2>1, TypeFacts DEF CommitSlotWrite, ProducerInv, Frame, TypeOK, Pcm
  <2>4. ProducerInv'
    BY <2>2, <2>3 DEF ProducerInv
  <2>5. StableSlots'
    BY <2>1, <2>2, TypeFacts, StampsDiffer DEF StableSlots
  <2>6. ConsumerInv'
    BY <1>2, <2>1, <2>2, TypeFacts, StampsDiffer DEF ConsumerInv, consumerVars
  <2> QED
    BY <1>1, <1>3, <2>4, <2>5, <2>6
<1>7. CASE PublishProducerSequence
  <2>1. producer' \in {producer, producer + 1} /\ ppc' = "idle" /\ ppc = "publish" /\ UNCHANGED <<stamps, pcm>>
    BY <1>7 DEF PublishProducerSequence
  <2>2. ProducerInv'
    BY <2>1 DEF ProducerInv
  <2>3. StableSlots'
    BY <2>1, TypeFacts DEF StableSlots, ProducerInv
  <2>4. ConsumerInv'
    BY <1>2, <2>1, TypeFacts DEF ConsumerInv, consumerVars
  <2> QED
    BY <1>1, <1>3, <2>2, <2>3, <2>4
<1> QED
  BY <1>4, <1>5, <1>6, <1>7 DEF ProducerNext

\* Steps of the consumer that leave its cursor and the history alone.
LEMMA ConsumerLocal ==
  ASSUME IInv, TypeOK', ConsumerInv',
         UNCHANGED <<producer, consumer, stamps, pcm, producerVars, queryVars, heard>>,
         overrunDrops' + PendingDrops' = overrunDrops + PendingDrops
  PROVE  IInv'
<1>1. ProducerInv' /\ StableSlots' /\ QueryInv'
  BY DEF IInv, ProducerInv, StableSlots, QueryInv, QueryFailsOnlyUnderTraffic, producerVars, queryVars
<1>2. Len(heard) \in Nat /\ overrunDrops \in Nat /\ overrunDrops' \in Nat
      /\ PendingDrops \in Nat /\ PendingDrops' \in Nat
  BY MaxFrameSequenceAssumption DEF IInv, TypeOK, PendingDrops, Windows, CursorValues, Word
<1>3. HeardInv'
  BY <1>2 DEF IInv, HeardInv, HeardInOrder, ExactAccounting
<1> QED
  BY <1>1, <1>3 DEF IInv

LEMMA ConsumerIInv == IInv /\ ConsumerNext => IInv'
<1> SUFFICES ASSUME IInv, ConsumerNext PROVE IInv'
  OBVIOUS
<1>1. TypeOK'
  BY ConsumerTypeOK DEF IInv
<1>2. TypeOK /\ ConsumerInv /\ HeardInv
  BY DEF IInv
<1> USE DEF ringVars, consumerVars
<1>3. CASE TakeSnapshot
  <2>1. consumer <= producer /\ producer \in CursorValues /\ consumer \in CursorValues
    BY <1>2 DEF ConsumerInv, TypeOK
  <2>2. ConsumerInv'
    BY <1>3, <2>1, TypeFacts, <1>2, WindowPlan DEF TakeSnapshot, Return, ConsumerInv, AfterPlan
  <2>3. cpc' # "record" /\ cpc # "record"
    BY <1>3 DEF TakeSnapshot, Return, AfterPlan
  <2> QED
    BY <1>1, <1>3, <2>2, <2>3, ConsumerLocal DEF TakeSnapshot, PendingDrops
<1>4. CASE NormalizeCursor
  <2>1. /\ window.normalized = consumer + window.dropped /\ window.buffered = Capacity
        /\ window.normalized + Capacity <= producer /\ window.dropped # 0
    BY <1>2, <1>4 DEF NormalizeCursor, ConsumerInv
  <2>2. CanPublishConsumer(window.normalized)
    <3>1. producer <= MaxFrameSequence + 1
      BY <1>2 DEF TypeOK, CursorValues
    <3> QED
      BY <1>2, <2>1, <3>1, TypeFacts, MaxFrameSequenceAssumption DEF CanPublishConsumer
  <2>3. /\ consumer' = window.normalized /\ cpc' = "record"
        /\ UNCHANGED <<producer, overrunDrops, stamps, pcm, window, copied, out, producerVars, queryVars, heard>>
    BY <1>4, <2>2 DEF NormalizeCursor
  <2>4. ConsumerInv'
    BY <1>2, <2>1, <2>3, TypeFacts DEF ConsumerInv
  <2>5. ProducerInv' /\ StableSlots'
    BY <2>3 DEF IInv, ProducerInv, StableSlots, producerVars
  <2>6. QueryInv'
    BY <1>2, <2>1, <2>3, TypeFacts, SnapshotAttemptsAssumption
       DEF IInv, QueryInv, QueryFailsOnlyUnderTraffic, queryVars
  <2>7. HeardInv'
    <3>1. \A i \in DOMAIN heard' : \E n \in 0 .. consumer' - 1 : heard'[i] = Frame(n)
      BY <1>2, <2>1, <2>3, TypeFacts DEF HeardInv
    <3>2. HeardInOrder'
      BY <1>2, <2>3 DEF HeardInv, HeardInOrder
    <3>3. Len(heard) \in Nat /\ cpc = "normalize"
      BY <1>2, <1>4 DEF TypeOK, NormalizeCursor
    <3>4. ExactAccounting'
      BY <1>2, <2>1, <2>3, <3>3, TypeFacts DEF HeardInv, ExactAccounting, PendingDrops
    <3> QED
      BY <3>1, <3>2, <3>4 DEF HeardInv
  <2> QED
    BY <1>1, <2>4, <2>5, <2>6, <2>7 DEF IInv
<1>5. CASE RecordOverrunDrops
  <2>1. /\ window.normalized = consumer /\ window.buffered = Capacity
        /\ window.normalized + Capacity <= producer
    BY <1>2, <1>5, TypeFacts DEF RecordOverrunDrops, ConsumerInv
  <2>2. overrunDrops' = overrunDrops + window.dropped
    <3>1. consumer = Len(heard) + overrunDrops + window.dropped /\ Len(heard) \in Nat
      BY <1>2, <1>5 DEF RecordOverrunDrops, HeardInv, ExactAccounting, PendingDrops, TypeOK
    <3>2. overrunDrops + window.dropped \in 0 .. Word - 1 /\ Word \in Nat \ {0}
      <4>1. consumer <= MaxFrameSequence + 1
        BY <1>2 DEF TypeOK, CursorValues
      <4>2. overrunDrops \in Nat /\ window.dropped \in Nat
        BY <1>2, TypeFacts
      <4> QED
        BY <3>1, <4>1, <4>2, MaxFrameSequenceAssumption DEF Word
    <3>3. (overrunDrops + window.dropped) % Word = overrunDrops + window.dropped
      BY <3>2
    <3> QED
      BY <1>5, <3>3 DEF RecordOverrunDrops
  <2>3. /\ cpc = "record" /\ cpc' = "stamp" /\ window'.normalized = window.normalized
        /\ UNCHANGED <<consumer, producer, copied, out>>
    BY <1>2, <1>5, <2>1, TypeFacts DEF RecordOverrunDrops, AfterPlan, TypeOK, Windows
  <2>4. ConsumerInv'
    BY <1>2, <2>1, <2>3, TypeFacts DEF ConsumerInv
  <2>5. overrunDrops' + PendingDrops' = overrunDrops + PendingDrops
    BY <1>2, <2>2, <2>3, TypeFacts DEF PendingDrops
  <2> QED
    BY <1>1, <1>5, <2>4, <2>5, ConsumerLocal DEF RecordOverrunDrops
<1>6. CASE RecordUnderrun
  <2>1. ConsumerInv' /\ PendingDrops' = PendingDrops
    BY <1>2, <1>6 DEF RecordUnderrun, Return, ConsumerInv, PendingDrops
  <2> QED
    BY <1>1, <1>6, <2>1, ConsumerLocal DEF RecordUnderrun
<1>7. CASE CheckStampBefore
  <2>1. ConsumerInv' /\ PendingDrops' = PendingDrops
    BY <1>2, <1>7 DEF CheckStampBefore, Return, ConsumerInv, PendingDrops
  <2> QED
    BY <1>1, <1>7, <2>1, ConsumerLocal DEF CheckStampBefore
<1>8. ASSUME NEW s \in Samples, CopyPcm(s) PROVE IInv'
  <2>1. window.normalized = consumer /\ consumer < producer /\ consumer \in FrameSequences
    BY <1>2, <1>8, TypeFacts DEF CopyPcm, ConsumerInv
  <2>2. stamps[SlotIndex(consumer)] = StableStamp(consumer) => pcm[SlotIndex(consumer)] = Frame(consumer)
    BY <2>1 DEF IInv, StableSlots
  <2>3. stamps[SlotIndex(consumer)] = StableStamp(consumer) => \A t \in copied' : out'[t] = consumer
    BY <1>2, <1>8, <2>1, <2>2 DEF CopyPcm, ConsumerInv, Frame, TypeOK, Pcm
  <2>4. ConsumerInv' /\ PendingDrops' = PendingDrops
    BY <1>2, <1>8, <2>1, <2>3 DEF CopyPcm, ConsumerInv, PendingDrops
  <2> QED
    BY <1>1, <1>8, <2>4, ConsumerLocal DEF CopyPcm
<1>9. CASE CheckStampAfter
  <2>1. cpc' = "deliver" => out = Frame(consumer)
    BY <1>2, <1>9 DEF CheckStampAfter, Return, ConsumerInv, TypeOK, Pcm, Frame
  <2>2. ConsumerInv' /\ PendingDrops' = PendingDrops
    BY <1>2, <1>9, <2>1 DEF CheckStampAfter, Return, ConsumerInv, PendingDrops
  <2> QED
    BY <1>1, <1>9, <2>2, ConsumerLocal DEF CheckStampAfter
<1>10. CASE DeliverFrame
  <2>1. window.normalized = consumer /\ consumer < producer /\ out = Frame(consumer) /\ cpc = "deliver"
    BY <1>2, <1>10 DEF DeliverFrame, ConsumerInv
  <2>2. CanPublishConsumer(consumer + 1)
    <3>1. producer <= MaxFrameSequence + 1
      BY <1>2 DEF TypeOK, CursorValues
    <3> QED
      BY <1>2, <2>1, <3>1, TypeFacts, MaxFrameSequenceAssumption DEF CanPublishConsumer
  <2>3. /\ consumer' = consumer + 1 /\ heard' = Append(heard, Frame(consumer)) /\ cpc' = "idle" /\ copied' = {}
        /\ UNCHANGED <<producer, overrunDrops, stamps, pcm, producerVars, queryVars>>
    BY <1>10, <2>1, <2>2 DEF DeliverFrame, Return
  <2>4. ConsumerInv'
    BY <1>2, <2>1, <2>3, TypeFacts DEF ConsumerInv
  <2>5. ProducerInv' /\ StableSlots'
    BY <2>3 DEF IInv, ProducerInv, StableSlots, producerVars
  <2>6. QueryInv'
    BY <1>2, <2>3, TypeFacts, SnapshotAttemptsAssumption
       DEF IInv, QueryInv, QueryFailsOnlyUnderTraffic, queryVars
  <2>7. /\ heard \in Seq(Pcm) /\ Len(heard) \in Nat /\ DOMAIN heard = 1 .. Len(heard)
        /\ Len(heard') = Len(heard) + 1 /\ DOMAIN heard' = 1 .. Len(heard) + 1
        /\ \A i \in DOMAIN heard : heard'[i] = heard[i]
        /\ heard'[Len(heard) + 1] = Frame(consumer)
    BY <1>2, <2>3 DEF TypeOK
  <2>8. HeardInv'
    <3>1. \A i \in DOMAIN heard : \E n \in 0 .. consumer - 1 : heard[i] = Frame(n)
      BY <1>2 DEF HeardInv
    <3>2. \A i \in DOMAIN heard' : \E n \in 0 .. consumer' - 1 : heard'[i] = Frame(n)
      BY <1>2, <2>3, <2>7, <3>1, TypeFacts
    <3>3. HeardInOrder'
      <4> SUFFICES ASSUME NEW i \in DOMAIN heard', NEW j \in DOMAIN heard', i < j, NEW s \in Samples
                   PROVE  heard'[i][s] < heard'[j][s]
        BY DEF HeardInOrder
      <4>1. CASE j \in DOMAIN heard
        BY <1>2, <2>7, <4>1 DEF HeardInv, HeardInOrder
      <4>2. CASE j = Len(heard) + 1
        <5>1. i \in DOMAIN heard
          BY <2>7, <4>2
        <5>2. PICK n \in 0 .. consumer - 1 : heard[i] = Frame(n)
          BY <3>1, <5>1
        <5> QED
          BY <1>2, <2>7, <4>2, <5>1, <5>2, TypeFacts DEF Frame
      <4> QED
        BY <2>7, <4>1, <4>2
    <3>4. ExactAccounting'
      BY <1>2, <2>1, <2>3, <2>7, TypeFacts DEF HeardInv, ExactAccounting, PendingDrops
    <3> QED
      BY <3>2, <3>3, <3>4 DEF HeardInv
  <2> QED
    BY <1>1, <2>4, <2>5, <2>6, <2>8 DEF IInv
<1> QED
  BY <1>3, <1>4, <1>5, <1>6, <1>7, <1>8, <1>9, <1>10 DEF ConsumerNext

LEMMA QueryIInv == IInv /\ QueryNext => IInv'
<1> SUFFICES ASSUME IInv, QueryNext PROVE IInv'
  OBVIOUS
<1>1. TypeOK'
  BY QueryTypeOK DEF IInv
<1>2. UNCHANGED <<ringVars, producerVars, consumerVars, heard>>
  BY DEF QueryNext, BeginQuery, QueryLoadProducer, QueryLoadConsumer
<1>3. ProducerInv' /\ StableSlots' /\ ConsumerInv' /\ HeardInv'
  BY <1>2 DEF IInv, ProducerInv, StableSlots, ConsumerInv, HeardInv, HeardInOrder,
              ExactAccounting, PendingDrops, ringVars, producerVars, consumerVars
<1>4. QueryInv'
  <2> USE TypeFacts, SnapshotAttemptsAssumption
          DEF IInv, QueryInv, QueryFailsOnlyUnderTraffic, ringVars
  <2>1. CASE BeginQuery
    BY <1>2, <2>1 DEF BeginQuery
  <2>2. CASE QueryLoadProducer
    BY <1>2, <2>2 DEF QueryLoadProducer, ConsumerInv
  <2>3. CASE QueryLoadConsumer
    <3>1. qattempt \in Nat \ {0} /\ qattempt <= SnapshotAttempts
      BY <2>3 DEF QueryLoadConsumer, TypeOK
    <3>2. consumer' = consumer /\ consumer \in Nat /\ qstart \in Nat /\ qproducer \in Nat
      BY <1>2
    <3>3. CASE qproducer >= consumer
      BY <2>3, <3>1, <3>2, <3>3 DEF QueryLoadConsumer
    <3>4. CASE qproducer < consumer /\ qattempt < SnapshotAttempts
      BY <2>3, <3>1, <3>2, <3>4 DEF QueryLoadConsumer
    <3>5. CASE qproducer < consumer /\ qattempt = SnapshotAttempts
      BY <2>3, <3>1, <3>2, <3>5 DEF QueryLoadConsumer
    <3> QED
      BY <3>1, <3>2, <3>3, <3>4, <3>5
  <2> QED
    BY <2>1, <2>2, <2>3 DEF QueryNext
<1> QED
  BY <1>1, <1>3, <1>4 DEF IInv

\* The inductive invariant holds: slots, stamps, cursors and history agree at
\* every interleaving of the client, the capture DPC and a status query.
THEOREM Invariant == Spec => []IInv
<1>1. IInv /\ UNCHANGED vars => IInv'
  BY DEF IInv, TypeOK, ProducerInv, StableSlots, ConsumerInv, HeardInv, HeardInOrder, ExactAccounting,
         PendingDrops, QueryInv, QueryFailsOnlyUnderTraffic,
         vars, ringVars, producerVars, consumerVars, queryVars
<1> QED
  BY <1>1, InitIInv, ProducerIInv, ConsumerIInv, QueryIInv, PTL DEF Spec, Next

-----------------------------------------------------------------------------
(***************************************************************************)
(* What follows from it.                                                   *)
(***************************************************************************)

\* A frame the driver returns with kOk is one frame of the client, whole.
THEOREM FramesAreWhole == Spec => []NoTornFrame
<1>1. IInv => NoTornFrame
  <2> SUFFICES ASSUME IInv, NEW i \in DOMAIN heard PROVE \E n \in FrameSequences : heard[i] = Frame(n)
    BY DEF NoTornFrame
  <2>1. PICK n \in 0 .. consumer - 1 : heard[i] = Frame(n)
    BY DEF IInv, HeardInv
  <2>2. n \in FrameSequences
    BY <2>1, TypeFacts DEF IInv, ConsumerInv
  <2> QED
    BY <2>1, <2>2
<1> QED
  BY <1>1, Invariant, PTL

\* Frames are heard in the order of publication, none of them twice.
THEOREM FramesInOrder == Spec => []HeardInOrder
<1>1. IInv => HeardInOrder
  BY DEF IInv, HeardInv
<1> QED
  BY <1>1, Invariant, PTL

\* Every frame the consumer cursor has passed was heard or counted as dropped.
THEOREM AccountingIsExact == Spec => []ExactAccounting
<1>1. IInv => ExactAccounting
  BY DEF IInv, HeardInv
<1> QED
  BY <1>1, Invariant, PTL

\* A status query fails only when as many frames as it had attempts were taken
\* from the ring while it ran.
THEOREM QueriesFailOnlyUnderTraffic == Spec => []QueryFailsOnlyUnderTraffic
<1>1. IInv => QueryFailsOnlyUnderTraffic
  BY DEF IInv, QueryInv
<1> QED
  BY <1>1, Invariant, PTL

\* The output carries silence whenever the call returned anything but kOk.
THEOREM OutputIsSilenceUnlessOk == Spec => []SilenceUnlessOk
<1>1. Init => OutInv
  BY DEF Init, OutInv, SilenceUnlessOk
<1>2. OutInv /\ [Next]_vars => OutInv'
  <2> SUFFICES ASSUME OutInv, [Next]_vars PROVE OutInv'
    OBVIOUS
  <2> USE DEF OutInv, SilenceUnlessOk, consumerVars
  <2>1. CASE ProducerNext \/ QueryNext \/ UNCHANGED vars
    <3>1. UNCHANGED consumerVars
      BY <2>1 DEF ProducerNext, BeginSlotWrite, WritePcm, CommitSlotWrite, PublishProducerSequence,
                  QueryNext, BeginQuery, QueryLoadProducer, QueryLoadConsumer, vars
    <3> QED
      BY <3>1
  <2>2. CASE TakeSnapshot
    BY <2>2 DEF TakeSnapshot, Return
  <2>3. CASE NormalizeCursor
    BY <2>3 DEF NormalizeCursor, Return
  <2>4. CASE RecordOverrunDrops
    BY <2>4 DEF RecordOverrunDrops
  <2>5. CASE RecordUnderrun
    BY <2>5 DEF RecordUnderrun, Return
  <2>6. CASE CheckStampBefore
    BY <2>6 DEF CheckStampBefore, Return
  <2>7. CASE \E s \in Samples : CopyPcm(s)
    BY <2>7 DEF CopyPcm
  <2>8. CASE CheckStampAfter
    BY <2>8 DEF CheckStampAfter, Return
  <2>9. CASE DeliverFrame
    BY <2>9 DEF DeliverFrame, Return
  <2> QED
    BY <2>1, <2>2, <2>3, <2>4, <2>5, <2>6, <2>7, <2>8, <2>9 DEF Next, ConsumerNext
<1>3. OutInv => SilenceUnlessOk
  BY DEF OutInv
<1> QED
  BY <1>1, <1>2, <1>3, PTL DEF Spec

(***************************************************************************)
(* Refinement.                                                             *)
(***************************************************************************)
LEMMA StepRefines == IInv /\ [Next]_vars => [Queue!Next]_(Queue!queueVars)
<1> SUFFICES ASSUME IInv, [Next]_vars PROVE [Queue!Next]_(Queue!queueVars)
  OBVIOUS
<1> USE DEF Queue!queueVars
<1>1. TypeOK
  BY DEF IInv
<1>2. CASE PublishProducerSequence
  <2>1. CASE producer' = producer
    BY <1>2, <2>1 DEF PublishProducerSequence, consumerVars
  <2>2. CASE producer' = producer + 1
    <3>1. producer <= MaxFrameSequence
      BY <1>1, <1>2 DEF PublishProducerSequence, TypeOK, FrameSequences
    <3> QED
      BY <1>2, <2>2, <3>1 DEF PublishProducerSequence, Queue!Next, Queue!Publish
  <2> QED
    BY <1>2, <2>1, <2>2 DEF PublishProducerSequence
<1>3. CASE NormalizeCursor
  <2>1. CASE UNCHANGED consumer
    BY <1>3, <2>1 DEF NormalizeCursor
  <2>2. CASE consumer' = window.normalized
    <3>1. /\ window.normalized = consumer + window.dropped /\ window.dropped # 0
          /\ window.normalized + Capacity <= producer
      BY <1>3 DEF NormalizeCursor, IInv, ConsumerInv
    <3>2. window.normalized \in consumer + 1 .. producer - Capacity
      BY <1>1, <3>1, TypeFacts
    <3> QED
      BY <1>3, <2>2, <3>2 DEF NormalizeCursor, Queue!Next, Queue!LoseOldest
  <2> QED
    BY <1>3, <2>1, <2>2 DEF NormalizeCursor
<1>4. CASE DeliverFrame
  <2>1. window.normalized = consumer /\ consumer < producer /\ out = [s \in Samples |-> consumer]
    BY <1>4 DEF DeliverFrame, IInv, ConsumerInv, Frame
  <2> QED
    BY <1>4, <2>1 DEF DeliverFrame, Queue!Next, Queue!HandOver
<1>5. CASE \/ BeginSlotWrite \/ (\E s \in Samples : WritePcm(s)) \/ CommitSlotWrite
           \/ TakeSnapshot \/ RecordOverrunDrops \/ RecordUnderrun \/ CheckStampBefore
           \/ (\E s \in Samples : CopyPcm(s)) \/ CheckStampAfter \/ QueryNext \/ UNCHANGED vars
  BY <1>5 DEF BeginSlotWrite, WritePcm, CommitSlotWrite, TakeSnapshot, RecordOverrunDrops,
              RecordUnderrun, CheckStampBefore, CopyPcm, CheckStampAfter, QueryNext, BeginQuery,
              QueryLoadProducer, QueryLoadConsumer, vars, ringVars
<1> QED
  BY <1>2, <1>3, <1>4, <1>5 DEF Next, ProducerNext, ConsumerNext

\* The ring is a lossy queue of whole frames that loses only overwritten ones.
THEOREM RingImplementsLossyQueue == Spec => ImplementsLossyQueue
<1>1. Init => Queue!Init
  BY DEF Init, Queue!Init
<1> QED
  BY <1>1, StepRefines, Invariant, PTL DEF Spec, ImplementsLossyQueue, Queue!Spec
=============================================================================
