--------------------------- MODULE MCChunkFormat ---------------------------
(* Bounds: two data chunks and a parity chunk; digits to the base 2 in bytes *)
(* of 3 values, so that the header holds lengths below 12; blocks of every *)
(* length up to 14, one of zeros and one of mixed bytes of each.  The      *)
(* digest is the chunk's length and its bytes, filled up with zeros: no    *)
(* two chunks have the same.  A record is damaged in the header, behind    *)
(* it, at the end of the chunk and at both ends of the digest.             *)
EXTENDS ChunkRecord

MCBlocks == { [x \in 1 .. n |-> 0] : n \in 0 .. 14 } \cup
            { [x \in 1 .. n |-> (n + x) % 3] : n \in 0 .. 14 }

MCDigestSize == 18
MCDigest(data) ==
  [x \in 1 .. MCDigestSize |-> IF x = 1 THEN Len(data)
                               ELSE IF x - 1 <= Len(data) THEN data[x - 1] ELSE 0]

MCDamagedAt(n) ==
  {1, 3, 4, n - 2 * MCDigestSize, n - 2 * MCDigestSize + 1, n} \cap 1 .. n
=============================================================================
