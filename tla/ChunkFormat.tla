---------------------------- MODULE ChunkFormat ----------------------------
(***************************************************************************)
(* How the blocks of an epoch are laid out as chunks, and read back.       *)
(*                                                                         *)
(* preprocess puts the blocks one after the other into a single buffer of  *)
(* ec_k + ec_m slots of equal length; a slot starts with a header of three *)
(* bytes, the length of the block to the base 255, and is filled up with   *)
(* zeros.  generate_ptrs cuts the buffer into shards, unpackChunkToBlock   *)
(* (and the same lines of getBlockByNumber and localReadBlock) takes a     *)
(* block out of one.  The program has Base = 255 and ByteRange = 256.      *)
(***************************************************************************)
EXTENDS Integers, Sequences, FiniteSetsExt

CONSTANTS ec_k, ec_m,   \* the numbers of data and of parity chunks
          Base,         \* the base of the length header
          ByteRange,    \* the number of values of a byte
          Blocks        \* bound: the blocks (sequences of bytes) that are saved

ASSUME FormatAssumption ==
  /\ ec_k \in Nat \ {0} /\ ec_m \in Nat
  /\ Base \in Nat \ {0} /\ ByteRange \in Nat /\ Base <= ByteRange
  /\ Blocks \subseteq Seq(0 .. ByteRange-1)

BLOCKS_SIZE_BYTE == 3

Byte    == 0 .. ByteRange-1
DataPos == 0 .. ec_k-1

\* The lengths that the header can hold: 256 * 255 * 255 bytes.
SizeLimit == ByteRange * (Base * Base)

VARIABLES
  pc,               \* "packing" block by block, "packed", "read"
  blocks,           \* the argument of saveChunk
  b,                \* the loop variable of preprocess; then the block read last
  blocks_rlp_data,  \* the buffer, by offset
  block             \* the result of unpacking a shard

vars == <<pc, blocks, b, blocks_rlp_data, block>>

-----------------------------------------------------------------------------
\* Mutant of HeaderOf: the high digit is not reduced, the low one not at all.
HeaderOfUnreduced(size) ==
  <<(size \div (Base * Base)) % ByteRange, (size \div Base) % Base, size % ByteRange>>

\* The three bytes of the length; a byte keeps the low bits of the high digit.
HeaderOf(size) ==
  <<(size \div (Base * Base)) % ByteRange, (size \div Base) % Base, size % Base>>

SizeOf(b0, b1, b2) == b0 * Base * Base + b1 * Base + b2

\* Mutant of MaxLen: the first block is not considered.
MaxLenOfRest(group) == Max({0} \cup { Len(group[p]) : p \in DataPos \ {0} })

MaxLen(group) == Max({ Len(group[p]) : p \in DataPos })

\* The length of a slot.
Length == BLOCKS_SIZE_BYTE + MaxLen(blocks)

\* One round of the loop of preprocess: the header and the bytes of a block.
Packed(buffer, p) ==
  LET h  == HeaderOf(Len(blocks[p]))
      at == p * Length
  IN  [x \in DOMAIN buffer |->
         IF x \in at .. at + BLOCKS_SIZE_BYTE - 1 THEN h[x - at + 1]
         ELSE IF x \in at + BLOCKS_SIZE_BYTE .. at + BLOCKS_SIZE_BYTE + Len(blocks[p]) - 1
         THEN blocks[p][x - at - BLOCKS_SIZE_BYTE + 1]
         ELSE buffer[x]]

\* generate_ptrs: the shard that starts at ptrs[p], by offset from it.
Shard(p) == [x \in 0 .. Length-1 |-> blocks_rlp_data[p * Length + x]]

\* What a read past the end of a shard finds: no byte of it.
OutOfBounds == -1

\* unpackChunkToBlock.
Unpack(shard) ==
  [x \in 1 .. SizeOf(shard[0], shard[1], shard[2]) |->
     LET at == BLOCKS_SIZE_BYTE + x - 1
     IN  IF at \in DOMAIN shard THEN shard[at] ELSE OutOfBounds]

-----------------------------------------------------------------------------
Init ==
  /\ pc = "packing"
  /\ blocks \in [DataPos -> Blocks]
  /\ b = 0
  /\ blocks_rlp_data = [x \in 0 .. Length * (ec_k + ec_m) - 1 |-> 0]
  /\ block = <<>>

Pack ==
  /\ pc = "packing" /\ b < ec_k
  /\ blocks_rlp_data' = Packed(blocks_rlp_data, b)
  /\ b' = b + 1
  /\ UNCHANGED <<pc, blocks, block>>

PackDone ==
  /\ pc = "packing" /\ b = ec_k
  /\ pc' = "packed"
  /\ UNCHANGED <<blocks, b, blocks_rlp_data, block>>

\* Any data shard is read back, any number of times.
Read(p) ==
  /\ pc \in {"packed", "read"}
  /\ pc' = "read"
  /\ b' = p
  /\ block' = Unpack(Shard(p))
  /\ UNCHANGED <<blocks, blocks_rlp_data>>

Next == Pack \/ PackDone \/ \E p \in DataPos : Read(p)

Spec == Init /\ [][Next]_vars

-----------------------------------------------------------------------------
TypeOK ==
  /\ pc \in {"packing", "packed", "read"}
  /\ blocks \in [DataPos -> Blocks]
  /\ b \in 0 .. ec_k
  /\ blocks_rlp_data \in [0 .. Length * (ec_k + ec_m) - 1 -> Byte]
  /\ block \in Seq(Byte)

\* The blocks that preprocess has come to lie in their slots, the header in front,
\* and packing the next one disturbs none of them.
PackedSoFar ==
  \A q \in DataPos : (pc = "packing" => q < b) =>
    LET at == q * Length
    IN  /\ \A x \in 1 .. BLOCKS_SIZE_BYTE :
             blocks_rlp_data[at + x - 1] = HeaderOf(Len(blocks[q]))[x]
        /\ \A x \in 1 .. Len(blocks[q]) :
             blocks_rlp_data[at + BLOCKS_SIZE_BYTE + x - 1] = blocks[q][x]

\* Each block comes back from its shard byte by byte, neither cut at the padding nor
\* mixed with its neighbours.  A block too long for the header is not refused; it
\* comes back cut off, but never with bytes that are not its own or lie past the
\* end of the shard.
ReadBackIsPrefix ==
  pc = "read" => b \in DataPos /\ block = SubSeq(blocks[b], 1, Len(blocks[b]) % SizeLimit)

FormatInv == TypeOK /\ PackedSoFar /\ ReadBackIsPrefix
=============================================================================
