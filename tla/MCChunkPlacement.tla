-------------------------- MODULE MCChunkPlacement --------------------------
(* Bounds: two nodes, two epochs, k + m = 3 chunks, streams of period 4.   *)
EXTENDS ChunkPlacement
=============================================================================
