------------------------ MODULE MCRingBufferObjects ------------------------
EXTENDS RingBufferObjects, TLC

(* Values, objects and blocks are interchangeable.                         *)
Interchangeable ==
  Permutations(Values) \cup Permutations(Objects) \cup Permutations(Blocks)

SomeCapacities == {0, 1, 2}
=============================================================================
