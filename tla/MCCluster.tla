----------------------------- MODULE MCCluster -----------------------------
(* Bounds: k = 2, m = 1, one epoch (two blocks, the second empty), a cache *)
(* of one chunk, one damaged record.  The placement is a rotation, which   *)
(* is not its own inverse.  Of the two other nodes one lies (it may tell   *)
(* the truth as well) and owns a block; the reader owns the other block or *)
(* keeps the parity.                                                       *)
EXTENDS Cluster

MCChunkSet == [e \in {0} |-> [p \in 0 .. 2 |-> (p + 1) % 3]]

MCSealers == { [x \in 0 .. 2 |-> IF x = 0 THEN "b" ELSE IF x = 1 THEN "c" ELSE "self"],
               [x \in 0 .. 2 |-> IF x = 0 THEN "self" ELSE IF x = 1 THEN "b" ELSE "c"] }

MCEmptyBlocks == { <<0, 1>> }
MCLies == { Damaged, <<0, 0>> }
=============================================================================
