--------------------------- MODULE MCSharedSegment ---------------------------
(* Interchangeable buffers.                                                *)
EXTENDS SharedSegment, TLC

CONSTANTS b1, b2, b3
MCBuffers == {b1, b2, b3}
MCSymmetry == Permutations(MCBuffers)
=============================================================================
