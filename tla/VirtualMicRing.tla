--------------------------- MODULE VirtualMicRing ---------------------------
(***************************************************************************)
(* One session of the shared-memory PCM ring between the desktop client    *)
(* (user mode, the only producer) and the driver's capture DPC (the only   *)
(* consumer), with a third reader: the QUERY_STATUS request, which loads   *)
(* the cursors while both others run.  Each action is one access to shared *)
(* memory; every access is an Interlocked operation except the PCM bytes,  *)
(* which are copied piece by piece, in any order, unprotected.             *)
(*                                                                         *)
(* session_generation is fixed within a session: the driver creates and    *)
(* initialises the section before it hands it out and never resets it.     *)
(***************************************************************************)
EXTENDS RingProtocol, Sequences

CONSTANTS Samples,           \* the pieces in which PCM bytes of a frame move
          SnapshotAttempts   \* kStableSnapshotAttempts: 8 in the code

ASSUME SamplesAssumption == Samples # {}
ASSUME SnapshotAttemptsAssumption == SnapshotAttempts \in Nat \ {0}

VARIABLES
  \* Shared region
  producer,      \* producer_sequence: frames published
  consumer,      \* consumer_sequence: frames taken or given up
  overrunDrops,  \* overrun_drops
  underruns,     \* underruns
  stamps,        \* FrameSlotStamp of each slot
  pcm,           \* PCM of each slot; a piece holds the sequence of its frame
  \* The producer
  ppc,           \* "idle", "fill" (PCM being written), "publish"
  written,       \* pieces of the frame written so far
  \* ConsumeOneRingFrame
  cpc,           \* next shared access of the call, "idle" outside one
  window,        \* what PlanRingWindow returned
  copied,        \* pieces copied to the output so far
  out,           \* output_frame
  status,        \* what the last call returned
  \* ReadStableCursorSnapshot on behalf of QUERY_STATUS
  qpc, qattempt, qproducer, qresult,
  \* History
  heard,         \* the frames returned with kOk, in order
  qstart         \* consumer cursor when the query began

ringVars == <<producer, consumer, overrunDrops, underruns, stamps, pcm>>
producerVars == <<ppc, written>>
consumerVars == <<cpc, window, copied, out, status>>
queryVars == <<qpc, qattempt, qproducer, qresult, qstart>>
vars == <<ringVars, producerVars, consumerVars, queryVars, heard>>

NoFrame == -1                                   \* PCM of a zeroed region
Frame(sequence) == [s \in Samples |-> sequence]
Silence == Frame(NoFrame)
Pcm == [Samples -> FrameSequences \cup {NoFrame}]

Windows == [normalized : CursorValues, dropped : CursorValues, buffered : 0 .. Capacity]
NoWindow == [normalized |-> 0, dropped |-> 0, buffered |-> 0]

ConsumeStatuses == {"kOk", "kUnderrun", "kSlotUnstable", "kCursorReadFailed",
                    "kRingPlanFailed", "kFrameSequenceOverflow", "kCursorPublishFailed"}

\* The section is zero-filled; InitializeCursorSession stores the cursors.
Init ==
  /\ producer = 0 /\ consumer = 0 /\ overrunDrops = 0 /\ underruns = 0
  /\ stamps = [i \in Slots |-> 0]
  /\ pcm = [i \in Slots |-> Silence]
  /\ ppc = "idle" /\ written = {}
  /\ cpc = "idle" /\ window = NoWindow /\ copied = {} /\ out = Silence /\ status = "kUnderrun"
  /\ qpc = "idle" /\ qattempt = 0 /\ qproducer = 0 /\ qresult = "none" /\ qstart = 0
  /\ heard = << >>

-----------------------------------------------------------------------------
(***************************************************************************)
(* The producer's publication order: writing stamp, PCM, stable stamp,     *)
(* cursor.  Its next sequence is the producer cursor, which it owns.       *)
(***************************************************************************)

\* Mutant: the bound that keeps sequences encodable is not checked.
BeginSlotWriteUnbounded ==
  /\ ppc = "idle"
  /\ stamps' = [stamps EXCEPT ![SlotIndex(producer)] = WritingStamp(producer)]
  /\ ppc' = "fill" /\ written' = {}
  /\ UNCHANGED <<producer, consumer, overrunDrops, underruns, pcm, consumerVars, queryVars, heard>>

BeginSlotWrite ==
  /\ ppc = "idle"
  /\ CanEncodeFrameSequence(producer)
  /\ stamps' = [stamps EXCEPT ![SlotIndex(producer)] = WritingStamp(producer)]
  /\ ppc' = "fill" /\ written' = {}
  /\ UNCHANGED <<producer, consumer, overrunDrops, underruns, pcm, consumerVars, queryVars, heard>>

WritePcm(s) ==
  /\ ppc = "fill"
  /\ s \notin written
  /\ pcm' = [pcm EXCEPT ![SlotIndex(producer)][s] = producer]
  /\ written' = written \cup {s}
  /\ UNCHANGED <<producer, consumer, overrunDrops, underruns, stamps, ppc, consumerVars, queryVars, heard>>

\* kSlotStateMismatch leaves the frame unpublished.
CommitSlotWrite ==
  /\ ppc = "fill"
  /\ written = Samples
  /\ IF stamps[SlotIndex(producer)] = WritingStamp(producer)
     THEN /\ stamps' = [stamps EXCEPT ![SlotIndex(producer)] = StableStamp(producer)]
          /\ ppc' = "publish"
     ELSE /\ ppc' = "idle"
          /\ UNCHANGED stamps
  /\ UNCHANGED <<producer, consumer, overrunDrops, underruns, pcm, written, consumerVars, queryVars, heard>>

CanPublishProducer(next) == next <= MaxFrameSequence + 1 /\ next >= producer /\ next >= consumer

PublishProducerSequence ==
  /\ ppc = "publish"
  /\ producer' = IF CanPublishProducer(producer + 1) THEN producer + 1 ELSE producer
  /\ ppc' = "idle"
  /\ UNCHANGED <<consumer, overrunDrops, underruns, stamps, pcm, written, consumerVars, queryVars, heard>>

ProducerNext ==
  \/ BeginSlotWrite
  \/ \E s \in Samples : WritePcm(s)
  \/ CommitSlotWrite
  \/ PublishProducerSequence

-----------------------------------------------------------------------------
(***************************************************************************)
(* ConsumeOneRingFrame, one shared access at a time.                       *)
(***************************************************************************)
Return(result, output) ==
  /\ cpc' = "idle" /\ window' = NoWindow /\ copied' = {}
  /\ status' = result
  /\ out' = output

CanPublishConsumer(next) == next <= MaxFrameSequence + 1 /\ next >= consumer /\ next <= producer

AfterPlan(w) == IF w.buffered = 0 THEN "underrun" ELSE "stamp"

(***************************************************************************)
(* The snapshot and the plan.  Only the load of producer_sequence races:   *)
(* every other word the snapshot loads is written by this thread alone, so *)
(* the attempts of ReadStableCursorSnapshot all see what the first one     *)
(* sees and the whole snapshot happens at that load.  OnSchedulerTick has  *)
(* zeroed the output frame before the call.                                *)
(***************************************************************************)
TakeSnapshot ==
  /\ cpc = "idle"
  /\ IF producer < consumer
     THEN Return("kCursorReadFailed", Silence)
     ELSE IF PlanStatus(producer, consumer) # "kOk"
     THEN Return(IF PlanStatus(producer, consumer) = "kFrameSequenceOverflow"
                 THEN "kFrameSequenceOverflow" ELSE "kRingPlanFailed", Silence)
     ELSE LET w == [normalized |-> NormalizedConsumer(producer, consumer),
                    dropped    |-> DroppedFrames(producer, consumer),
                    buffered   |-> BufferedFrames(producer, consumer)]
          IN  /\ window' = w
              /\ cpc' = IF w.dropped # 0 THEN "normalize" ELSE AfterPlan(w)
              /\ out' = Silence
              /\ UNCHANGED <<copied, status>>
  /\ UNCHANGED <<ringVars, producerVars, queryVars, heard>>

NormalizeCursor ==
  /\ cpc = "normalize"
  /\ IF CanPublishConsumer(window.normalized)
     THEN /\ consumer' = window.normalized
          /\ cpc' = "record"
          /\ UNCHANGED <<window, copied, out, status>>
     ELSE /\ Return("kCursorPublishFailed", out)
          /\ UNCHANGED consumer
  /\ UNCHANGED <<producer, overrunDrops, underruns, stamps, pcm, producerVars, queryVars, heard>>

RecordOverrunDrops ==
  /\ cpc = "record"
  /\ overrunDrops' = (overrunDrops + window.dropped) % Word
  /\ window' = [window EXCEPT !.dropped = 0]   \* accounted for
  /\ cpc' = AfterPlan(window)
  /\ UNCHANGED <<producer, consumer, underruns, stamps, pcm, producerVars,
                 copied, out, status, queryVars, heard>>

RecordUnderrun ==
  /\ cpc = "underrun"
  /\ underruns' = (underruns + 1) % Word
  /\ Return("kUnderrun", Silence)
  /\ UNCHANGED <<producer, consumer, overrunDrops, stamps, pcm, producerVars, queryVars, heard>>

CheckStampBefore ==
  /\ cpc = "stamp"
  /\ LET sequence == window.normalized IN
     IF ~CanEncodeFrameSequence(sequence)
     THEN Return("kFrameSequenceOverflow", Silence)
     ELSE IF stamps[SlotIndex(sequence)] # StableStamp(sequence)
     THEN Return("kSlotUnstable", Silence)
     ELSE cpc' = "copy" /\ UNCHANGED <<window, copied, out, status>>
  /\ UNCHANGED <<ringVars, producerVars, queryVars, heard>>

CopyPcm(s) ==
  /\ cpc = "copy"
  /\ s \notin copied
  /\ out' = [out EXCEPT ![s] = pcm[SlotIndex(window.normalized)][s]]
  /\ copied' = copied \cup {s}
  /\ UNCHANGED <<ringVars, producerVars, cpc, window, status, queryVars, heard>>

\* Mutant: the frame is trusted on the strength of the stamp before the copy.
CheckStampAfterSkipped ==
  /\ cpc = "copy"
  /\ copied = Samples
  /\ cpc' = "deliver"
  /\ UNCHANGED <<ringVars, producerVars, window, copied, out, status, queryVars, heard>>

CheckStampAfter ==
  /\ cpc = "copy"
  /\ copied = Samples
  /\ IF stamps[SlotIndex(window.normalized)] # StableStamp(window.normalized)
     THEN Return("kSlotUnstable", Silence)
     ELSE cpc' = "deliver" /\ UNCHANGED <<window, copied, out, status>>
  /\ UNCHANGED <<ringVars, producerVars, queryVars, heard>>

\* Mutant: the consumer cursor is published without having moved.
DeliverFrameKeepsCursor ==
  /\ cpc = "deliver"
  /\ IF CanPublishConsumer(window.normalized)
     THEN /\ consumer' = window.normalized
          /\ heard' = Append(heard, out)
          /\ Return("kOk", out)
     ELSE /\ Return("kCursorPublishFailed", Silence)
          /\ UNCHANGED <<consumer, heard>>
  /\ UNCHANGED <<producer, overrunDrops, underruns, stamps, pcm, producerVars, queryVars>>

DeliverFrame ==
  /\ cpc = "deliver"
  /\ IF CanPublishConsumer(window.normalized + 1)
     THEN /\ consumer' = window.normalized + 1
          /\ heard' = Append(heard, out)
          /\ Return("kOk", out)
     ELSE /\ Return("kCursorPublishFailed", Silence)
          /\ UNCHANGED <<consumer, heard>>
  /\ UNCHANGED <<producer, overrunDrops, underruns, stamps, pcm, producerVars, queryVars>>

ConsumerNext ==
  \/ TakeSnapshot
  \/ NormalizeCursor
  \/ RecordOverrunDrops
  \/ RecordUnderrun
  \/ CheckStampBefore
  \/ \E s \in Samples : CopyPcm(s)
  \/ CheckStampAfter
  \/ DeliverFrame

-----------------------------------------------------------------------------
(***************************************************************************)
(* QUERY_STATUS: ReadStableCursorSnapshot under the control mutex, while   *)
(* the DPC consumes and the client produces.  The response carries the two *)
(* cursors; the counters it also loads are not used.                       *)
(***************************************************************************)
BeginQuery ==
  /\ qpc = "idle"
  /\ qpc' = "producer" /\ qattempt' = 1 /\ qresult' = "none" /\ qstart' = consumer
  /\ UNCHANGED <<ringVars, producerVars, consumerVars, qproducer, heard>>

QueryLoadProducer ==
  /\ qpc = "producer"
  /\ qproducer' = producer
  /\ qpc' = "consumer"
  /\ UNCHANGED <<ringVars, producerVars, consumerVars, qattempt, qresult, qstart, heard>>

\* Mutant: an attempt is spent on a backlog of zero too.
QueryLoadConsumerStrict ==
  /\ qpc = "consumer"
  /\ IF qproducer > consumer
     THEN qpc' = "idle" /\ qresult' = "kOk" /\ UNCHANGED qattempt
     ELSE IF qattempt < SnapshotAttempts
     THEN qpc' = "producer" /\ qattempt' = qattempt + 1 /\ UNCHANGED qresult
     ELSE qpc' = "idle" /\ qresult' = "kSnapshotUnstable" /\ UNCHANGED qattempt
  /\ UNCHANGED <<ringVars, producerVars, consumerVars, qproducer, qstart, heard>>

QueryLoadConsumer ==
  /\ qpc = "consumer"
  /\ IF qproducer >= consumer
     THEN qpc' = "idle" /\ qresult' = "kOk" /\ UNCHANGED qattempt
     ELSE IF qattempt < SnapshotAttempts
     THEN qpc' = "producer" /\ qattempt' = qattempt + 1 /\ UNCHANGED qresult
     ELSE qpc' = "idle" /\ qresult' = "kSnapshotUnstable" /\ UNCHANGED qattempt
  /\ UNCHANGED <<ringVars, producerVars, consumerVars, qproducer, qstart, heard>>

QueryNext == BeginQuery \/ QueryLoadProducer \/ QueryLoadConsumer

Next == ProducerNext \/ ConsumerNext \/ QueryNext

(***************************************************************************)
(* The DPC timer fires every 10 ms while the stream runs and each call is  *)
(* wait-free, so the consumer gets its steps.  Nothing is assumed of the   *)
(* client, which may stop in the middle of a frame, nor of the query.      *)
(***************************************************************************)
Spec == Init /\ [][Next]_vars
FairSpec == Spec /\ WF_vars(ConsumerNext)

-----------------------------------------------------------------------------
(***************************************************************************)
(* What the ring promises: a queue that may lose its oldest frames.        *)
(***************************************************************************)
Queue == INSTANCE LossyFrameQueue WITH published <- producer, next <- consumer

-----------------------------------------------------------------------------
TypeOK ==
  /\ ppc # "idle" => producer \in FrameSequences   \* what is being written is encodable
  /\ producer \in CursorValues /\ consumer \in CursorValues
  /\ overrunDrops \in 0 .. Word - 1 /\ underruns \in 0 .. Word - 1
  /\ stamps \in [Slots -> 0 .. Word - 1]
  /\ pcm \in [Slots -> Pcm]
  /\ ppc \in {"idle", "fill", "publish"} /\ written \in SUBSET Samples
  /\ cpc \in {"idle", "normalize", "record", "underrun", "stamp", "copy", "deliver"}
  /\ window \in Windows /\ copied \in SUBSET Samples
  /\ out \in Pcm /\ status \in ConsumeStatuses
  /\ qpc \in {"idle", "producer", "consumer"} /\ qattempt \in 0 .. SnapshotAttempts
  /\ qproducer \in CursorValues /\ qstart \in CursorValues
  /\ qresult \in {"none", "kOk", "kSnapshotUnstable"}
  /\ heard \in Seq(Pcm)

\* A frame returned with kOk is whole: the frame the producer published under
\* one sequence, however the producer reused the slot during the copy.
NoTornFrame == \A i \in DOMAIN heard : \E n \in FrameSequences : heard[i] = Frame(n)

\* Frames are heard in the order of their sequences and none is heard twice.
HeardInOrder ==
  \A i, j \in DOMAIN heard : i < j => \A s \in Samples : heard[i][s] < heard[j][s]

\* Exact accounting: a frame the consumer cursor has passed was either heard or
\* counted in overrun_drops, the drops about to be recorded included.
PendingDrops == IF cpc = "record" THEN window.dropped ELSE 0
ExactAccounting == consumer = Len(heard) + overrunDrops + PendingDrops

\* What comes back without kOk carries no PCM of any frame.
SilenceUnlessOk == cpc = "idle" /\ status # "kOk" => out = Silence

\* A status query that gives up did so because at least SnapshotAttempts frames
\* were taken from the ring while it ran: an idle ring never fails a query.
QueryFailsOnlyUnderTraffic ==
  qresult = "kSnapshotUnstable" => consumer >= qstart + SnapshotAttempts

\* A readable frame does not stay unread: the consumer takes it or gives it up,
\* unless the client has stopped while refilling the slot of a full ring.
RefillStalled(n) == ppc # "idle" /\ producer - n >= Capacity
FramesLeaveTheRing ==
  \A n \in FrameSequences :
    (consumer = n /\ producer > n) ~> (consumer > n \/ RefillStalled(n))

\* The ring implements the lossy queue: frames are published one by one, and each
\* step of the consumer cursor either hands over the next frame, whole, or gives
\* up frames that more than Capacity later ones have overwritten, never a
\* retained one.
ImplementsLossyQueue == Queue!Spec
=============================================================================
