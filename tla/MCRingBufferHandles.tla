------------------------ MODULE MCRingBufferHandles ------------------------
(* Instance of RingBufferHandles for TLC.                                  *)
EXTENDS RingBufferHandles, TLC

ValueSymmetry == Permutations(Values)
=============================================================================
