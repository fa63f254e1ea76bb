---------------------------- MODULE ChunkRecord ----------------------------
(***************************************************************************)
(* The record that writeDB makes of a chunk, what may happen to it on      *)
(* disk, and how localReadBlock takes it apart again.                      *)
(*                                                                         *)
(* A record has no structure: it is the chunk followed by its digest in    *)
(* hexadecimal, or for a chunk that is another node's the digest alone,    *)
(* and the reader finds the boundary by counting from the end.  The digest *)
(* is abstract: a function without collisions, of fixed length.            *)
(***************************************************************************)
EXTENDS ChunkFormat, Hex

CONSTANTS Digest(_),    \* sha256, of a sequence of bytes
          DigestSize,   \* the length of a digest in bytes; 32 in the program
          DamagedAt(_), \* bound: the offsets damaged in a record of that length
          NotRead       \* the result before the first read

ASSUME RecordAssumption == ByteRange > 1 /\ DigestSize \in Nat \ {0}

\* The length of a digest in a record: the literal 64 of localReadBlock.
HexSize == 2 * DigestSize

VARIABLES
  p,         \* the position of the chunk stored
  flag,      \* whether it is the node's own
  value,     \* the record in the database, <<>> before it is written
  damaged,   \* history: whether the record has changed since
  local      \* what localReadBlock returned last

recordVars == <<p, flag, value, damaged, local>>

\* The shard as the string that writeDB makes of it.
Data(pos) == [x \in 1 .. Length |-> Shard(pos)[x - 1]]

\* writeDB: what is put.
Value(data, own) ==
  LET digest == ToHex(Digest(data)) IN IF own THEN data \o digest ELSE digest

\* Mutant of Boundary: the digest is taken to be stored as bytes.
BoundaryOfBytes(record) == Len(record) - DigestSize

Boundary(record) == Len(record) - HexSize

\* localReadBlock: the block, or the empty vector if the digest does not fit.
LocalBlock(record) ==
  LET chunk_data   == SubSeq(record, 1, Boundary(record))
      chunk_digest == SubSeq(record, Boundary(record) + 1, Len(record))
  IN  IF ToHex(Digest(chunk_data)) # chunk_digest THEN <<>>
      ELSE Unpack([x \in 0 .. Len(chunk_data) - 1 |-> chunk_data[x + 1]])

-----------------------------------------------------------------------------
RecordInit ==
  /\ Init
  /\ p = 0 /\ flag = FALSE /\ value = <<>> /\ damaged = FALSE /\ local = NotRead

WriteDB(pos, own) ==
  /\ pc = "packed" /\ value = <<>>
  /\ p' = pos
  /\ flag' = own
  /\ value' = Value(Data(pos), own)
  /\ UNCHANGED <<vars, damaged, local>>

\* One byte of the record changes on disk.
Damage(x) ==
  /\ x \in DOMAIN value /\ ~ damaged
  /\ value' = [value EXCEPT ![x] = (@ + 1) % ByteRange]
  /\ damaged' = TRUE
  /\ local' = NotRead
  /\ UNCHANGED <<vars, p, flag>>

\* The record of a data chunk is read back, before or after it was damaged.
LocalReadBlock ==
  /\ value # <<>> /\ p \in DataPos
  /\ local' = LocalBlock(value)
  /\ UNCHANGED <<vars, p, flag, value, damaged>>

RecordNext ==
  \/ Next /\ UNCHANGED recordVars
  \/ \E pos \in 0 .. ec_k + ec_m - 1, own \in BOOLEAN : WriteDB(pos, own)
  \/ \E x \in DamagedAt(Len(value)) : Damage(x)
  \/ LocalReadBlock

RecordSpec == RecordInit /\ [][RecordNext]_<<vars, recordVars>>

-----------------------------------------------------------------------------
\* What localReadBlock takes for a block is the block that was saved at that
\* position, header, padding and digest taken off again: a record that changed
\* anywhere, or one that is a digest only, gives nothing, and an intact record of
\* the own chunk is never refused.
RecordReadsBack ==
  local # NotRead =>
    local = IF flag /\ ~ damaged
            THEN SubSeq(blocks[p], 1, Len(blocks[p]) % SizeLimit) ELSE <<>>
=============================================================================
