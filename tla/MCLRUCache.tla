----------------------------- MODULE MCLRUCache -----------------------------
(***************************************************************************)
(* Bounds: four keys, two values, caches of every size up to three (so     *)
(* that there is a list with inner nodes and a key too many for each of    *)
(* them), and one whose capacity, an int, is negative.                     *)
(***************************************************************************)
EXTENDS LRUCache

MCCapacities == -1 .. 3
=============================================================================
