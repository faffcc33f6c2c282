--------------------------- MODULE MCAudioBuffer ---------------------------
(* Instance of AudioBuffer for TLC: one value for each sample generated.   *)
EXTENDS AudioBuffer

Samples == 1 .. 20 * CHUNK_SIZE
=============================================================================
