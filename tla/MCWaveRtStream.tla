--------------------------- MODULE MCWaveRtStream ---------------------------
(***************************************************************************)
(* WaveRtStream with frames of two blocks in buffers of three blocks, where *)
(* a frame wraps, and of four; the counters end after a few rounds.        *)
(***************************************************************************)
EXTENDS WaveRtStream
=============================================================================
