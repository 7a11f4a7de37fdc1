-------------------------- MODULE MCVirtualMicRing --------------------------
(***************************************************************************)
(* VirtualMicRing on a ring of two slots, frames of two pieces and four    *)
(* frame sequences in all: the producer laps the ring twice, slots are     *)
(* reused, and the sequence limit is reached.                              *)
(***************************************************************************)
EXTENDS VirtualMicRing

CONSTANTS left, right

TwoSamples == {left, right}
=============================================================================
