------------------------------ MODULE MCRSCode ------------------------------
(***************************************************************************)
(* Codes with more parity than data, less, and one data shard; and the     *)
(* parameters that are refused.  Streams are kept for the two small codes. *)
(* Before the first call, the arithmetic is compared with the definition   *)
(* of the field, for all pairs of bytes.                                   *)
(***************************************************************************)
EXTENDS RSCode

MCParams == { <<3, 2, 1>>, <<3, 1, 1>>, <<5, 2, 1>>, <<6, 4, 1>>,
              <<3, 0, 1>>, <<0, 0, 1>>, <<3, 3, 1>>, <<2, 3, 1>>, <<3, 2, 0>> }

MCStreamed == { <<3, 2>>, <<3, 1>> }

\* The code is linear: what holds for the tuples of a basis holds for all.  One
\* tuple of bytes that are all different and not 0 goes with them.
MCData(k) == { [i \in 1 .. k |-> IF i = j THEN 1 ELSE 0] : j \in 1 .. k }
               \cup { [i \in 1 .. k |-> 255 - 37 * (i - 1)] }
=============================================================================
