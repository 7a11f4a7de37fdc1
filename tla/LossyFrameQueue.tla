--------------------------- MODULE LossyFrameQueue --------------------------
(***************************************************************************)
(* What the virtual microphone's ring promises its two ends, with nothing  *)
(* said of slots, stamps and torn copies: an unbounded sequence of frames  *)
(* is published; the listener is handed each frame in order, whole, unless *)
(* it has fallen more than Capacity frames behind, in which case it may    *)
(* lose the frames beyond the last Capacity, and only those.               *)
(***************************************************************************)
EXTENDS RingProtocol, Sequences

CONSTANT Samples

VARIABLES published,   \* frames published so far
          next,        \* the next frame due to the listener
          heard        \* frames handed over

queueVars == <<published, next, heard>>

Init == published = 0 /\ next = 0 /\ heard = << >>

Publish ==
  /\ published <= MaxFrameSequence
  /\ published' = published + 1
  /\ UNCHANGED <<next, heard>>

HandOver ==
  /\ next < published
  /\ heard' = Append(heard, [s \in Samples |-> next])
  /\ next' = next + 1
  /\ UNCHANGED published

LoseOldest ==
  /\ \E n \in next + 1 .. published - Capacity : next' = n
  /\ UNCHANGED <<published, heard>>

Next == Publish \/ HandOver \/ LoseOldest

Spec == Init /\ [][Next]_queueVars
=============================================================================
