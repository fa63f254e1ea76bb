---------------------------- MODULE BlockNumbers ----------------------------
(***************************************************************************)
(* From a block number to the coding epoch that contains the block and the *)
(* position of its chunk in the epoch, in the integer types of the code.   *)
(*                                                                         *)
(* The same two lines, (b - 1) / ec_k and (b - 1) % ec_k, occur in six     *)
(* functions of Erasure.  In some b is an unsigned int, in the others an   *)
(* int; ec_k is an int64_t, so the division itself is done in 64 bits and  *)
(* its result converted to unsigned int.  Word is 2^32 in the program.     *)
(***************************************************************************)
EXTENDS Integers

CONSTANTS ec_k,   \* the number of data chunks (and of blocks) of an epoch
          Word    \* the number of values of an unsigned int

ASSUME BlockNumbersAssumption ==
  /\ ec_k \in Nat \ {0}
  /\ Word \in Nat \ {0} /\ Word % 2 = 0

IntMax    == (Word \div 2) - 1
Unsigneds == 0 .. Word-1
Ints      == (-IntMax - 1) .. IntMax

\* Conversions to the two types.
ToUnsigned(x) == x % Word
ToInt(x)      == IF ToUnsigned(x) <= IntMax THEN ToUnsigned(x) ELSE ToUnsigned(x) - Word

\* C++ division and remainder of x by ec_k: the quotient is truncated.
Quotient(x)  == IF x >= 0 THEN x \div ec_k ELSE -((-x) \div ec_k)
Remainder(x) == x - ec_k * Quotient(x)

\* getBlockByNumber and remoteReadBlock: b is an unsigned int.
EpochOfUnsigned(b) == ToUnsigned(Quotient(ToUnsigned(b - 1)))
PosOfUnsigned(b)   == ToUnsigned(Remainder(ToUnsigned(b - 1)))

\* Mutant of EpochOfInt: the block number is divided, not its predecessor.
EpochOfIntShifted(b) == ToUnsigned(Quotient(b))

\* saveChunk, computeBlocksInWhichNode and decode: b is an int.  For the least
\* int, b - 1 overflows; no caller has one.
EpochOfInt(b) == ToUnsigned(Quotient(b - 1))

\* Mutant of PosOfInt: a remainder that is never negative.
PosOfIntFloored(b) == (b - 1) % ec_k

PosOfInt(b) == ToUnsigned(Remainder(b - 1))

\* computeChunkPosition converts the two results back to int.
ChunkPosition(b) == <<ToInt(EpochOfInt(b)), ToInt(PosOfInt(b))>>
=============================================================================
