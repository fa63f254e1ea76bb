-------------------------- MODULE MCBlockAddressing --------------------------
(* Bounds: a 7-bit unsigned int and groups of k = 4 blocks with two parity *)
(* chunks, so that the chain runs through every group an int can number;   *)
(* digits to the bases 2 and 3, so that epochs have up to four digits and  *)
(* positions up to three.                                                  *)
EXTENDS BlockAddressing
=============================================================================
