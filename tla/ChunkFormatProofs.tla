------------------------- MODULE ChunkFormatProofs -------------------------
(***************************************************************************)
(* Proofs about ChunkFormat and ChunkRecord, for every base, number of     *)
(* chunks and set of blocks: the header of a chunk gives the length back,  *)
(* what is read from a shard is the block that was packed into it, and     *)
(* what localReadBlock takes for a block is the block, for every digest of *)
(* which one thing is assumed: that of two different chunks it gives       *)
(* digests that are not one character apart.                               *)
(***************************************************************************)
EXTENDS ChunkRecord, FiniteSetTheorems, SequenceTheorems, TLAPS

LEMMA DivMod ==
  ASSUME NEW a \in Nat, NEW d \in Nat \ {0}
  PROVE  /\ a \div d \in Nat
         /\ a % d \in 0 .. d-1
         /\ a = d * (a \div d) + (a % d)
OBVIOUS

LEMMA DivModUnique ==
  ASSUME NEW d \in Nat \ {0},
         NEW q1 \in Nat, NEW q2 \in Nat, NEW r1 \in 0 .. d-1, NEW r2 \in 0 .. d-1,
         d * q1 + r1 = d * q2 + r2
  PROVE  q1 = q2 /\ r1 = r2
<1>1. CASE q1 < q2
  <2>1. d * q2 >= d * q1 + d
    BY <1>1
  <2>2. QED
    BY <2>1
<1>2. CASE q2 < q1
  <2>1. d * q1 >= d * q2 + d
    BY <1>2
  <2>2. QED
    BY <2>1
<1>3. QED
  BY <1>1, <1>2

\* Reducing the quotient is reducing the number by the product.
LEMMA RemainderOfQuotient ==
  ASSUME NEW n \in Nat, NEW d \in Nat \ {0}, NEW w \in Nat \ {0}
  PROVE  n % (d * w) = d * ((n \div d) % w) + (n % d)
<1> DEFINE q == n \div d
           r == n % d
           s == q \div w
           t == q % w
           m == d * w
<1>1. q \in Nat /\ r \in 0 .. d-1 /\ n = d * q + r
  BY DivMod
<1>2. s \in Nat /\ t \in 0 .. w-1 /\ q = w * s + t
  BY <1>1, DivMod
<1>3. m \in Nat \ {0}
  OBVIOUS
<1>4. n \div m \in Nat /\ n % m \in 0 .. m-1 /\ n = m * (n \div m) + (n % m)
  BY <1>3, DivMod
<1> HIDE DEF q, r, s, t
<1>5. d * q = m * s + d * t
  BY <1>1, <1>2
<1>6. d * t + r \in 0 .. m-1
  <2>1. d * t <= d * (w - 1)
    BY <1>2
  <2>2. d * (w - 1) = m - d /\ d * t \in Nat
    BY <1>2
  <2>3. QED
    BY <1>1, <1>3, <2>1, <2>2
<1> DEFINE x == n \div m
           y == n % m
           z == d * t + r
<1>7. m * s + z = m * x + y
  BY <1>1, <1>2, <1>4, <1>5
<1>8. x \in Nat /\ y \in 0 .. m-1 /\ z \in 0 .. m-1
  BY <1>4, <1>6
<1> HIDE DEF m, x, y, z
<1>9. z = y
  BY <1>2, <1>3, <1>7, <1>8, DivModUnique
<1>10. QED
  BY <1>9 DEF q, r, t, m, y, z

-----------------------------------------------------------------------------
(* The header.                                                             *)

LEMMA Bases ==
  /\ Base \in Nat \ {0} /\ ByteRange \in Nat \ {0} /\ Base <= ByteRange
  /\ Base * Base \in Nat \ {0}
BY FormatAssumption

\* The three bytes of a header are bytes, and give the length back but for a
\* multiple of what they can hold.
LEMMA HeaderOfSize ==
  ASSUME NEW size \in Nat
  PROVE  /\ HeaderOf(size) \in [1 .. 3 -> Byte]
         /\ SizeOf(HeaderOf(size)[1], HeaderOf(size)[2], HeaderOf(size)[3]) = size % SizeLimit
<1> DEFINE sq == Base * Base
           h == (size \div sq) % ByteRange
           t == (size \div Base) % Base
           r == size % Base
<1>1. HeaderOf(size) = <<h, t, r>>
  BY DEF HeaderOf
<1>2. h \in 0 .. ByteRange-1
  <2>1. size \div sq \in Nat
    BY Bases, DivMod
  <2>2. QED
    BY <2>1, Bases, DivMod
<1>3. t \in 0 .. Base-1 /\ r \in 0 .. Base-1
  <2>1. size \div Base \in Nat
    BY Bases, DivMod
  <2>2. QED
    BY <2>1, Bases, DivMod
<1>4. size % sq = Base * t + r
  BY Bases, RemainderOfQuotient
<1>5. size % SizeLimit = sq * h + (size % sq)
  <2>1. SizeLimit = sq * ByteRange
    BY Bases DEF SizeLimit
  <2>2. QED
    BY <2>1, Bases, RemainderOfQuotient
<1> HIDE DEF h, t, r
<1>6. h * Base * Base = sq * h /\ t * Base = Base * t
  BY <1>2, <1>3, Bases
<1>7. SizeOf(h, t, r) = size % SizeLimit
  <2>1. sq * h \in Nat /\ Base * t \in Nat
    BY <1>2, <1>3, Bases
  <2> HIDE DEF sq
  <2>2. QED
    BY <1>3, <1>4, <1>5, <1>6, <2>1 DEF SizeOf
<1>8. h \in Byte /\ t \in Byte /\ r \in Byte
  BY <1>2, <1>3, Bases DEF Byte
<1>9. QED
  BY <1>1, <1>7, <1>8

LEMMA SizeLimitPositive == SizeLimit \in Nat \ {0}
BY Bases DEF SizeLimit

\* A length below 256 * 255 * 255 survives the header.
THEOREM HeaderRoundTrip ==
  ASSUME NEW size \in 0 .. SizeLimit-1
  PROVE  LET h == HeaderOf(size) IN SizeOf(h[1], h[2], h[3]) = size
<1>1. \A x, y \in Nat : x < y => x % y = x
  OBVIOUS
<1>2. size \in Nat /\ size < SizeLimit
  BY SizeLimitPositive
<1>3. size % SizeLimit = size
  BY <1>1, <1>2, SizeLimitPositive
<1>4. QED
  BY <1>2, <1>3, HeaderOfSize

-----------------------------------------------------------------------------
(* The buffer.                                                             *)

\* Of finitely many numbers one is the largest.  (A smallest set without a largest
\* one would still be without it when an element is taken away.)
LEMMA LargestExists ==
  ASSUME NEW S, IsFiniteSet(S), S # {}, NEW f \in [S -> Nat]
  PROVE  \E x \in S : \A y \in S : f[x] >= f[y]
<1> DEFINE Largest(A) == \E x \in A : \A y \in A : f[x] >= f[y]
           T == { A \in SUBSET S : A # {} /\ ~ Largest(A) }
<1>1. SUFFICES ASSUME T # {} PROVE FALSE
  BY DEF T
<1>2. T \subseteq FiniteSubsetsOf(S)
  BY FS_FiniteSubsetsOfFinite
<1>3. PICK A \in T : \A B \in T : ~ (<<B, A>> \in StrictSubsetOrdering(S))
  BY <1>1, <1>2, FS_StrictSubsetOrderingWellFounded, WFMin
<1>4. PICK a \in A : TRUE
  OBVIOUS
<1>5. A \ {a} \notin T
  BY <1>3, <1>4 DEF StrictSubsetOrdering
<1>6. CASE A = {a}
  BY <1>4, <1>6
<1>7. CASE A \ {a} # {}
  <2>1. PICK m \in A \ {a} : \A y \in A \ {a} : f[m] >= f[y]
    BY <1>5, <1>7
  <2>2. a \in S /\ m \in S /\ \A y \in A : y \in S
    OBVIOUS
  <2>3. CASE f[a] >= f[m]
    <3>1. \A y \in A : f[a] >= f[y]
      BY <2>1, <2>2, <2>3
    <3>2. QED
      BY <1>4, <3>1
  <2>4. CASE f[m] >= f[a]
    <3>1. \A y \in A : f[m] >= f[y]
      BY <2>1, <2>2, <2>4
    <3>2. QED
      BY <2>1, <3>1
  <2>5. QED
    BY <2>2, <2>3, <2>4
<1>8. QED
  BY <1>6, <1>7

\* No block is longer than its slot.
LEMMA SlotHoldsBlock ==
  ASSUME blocks \in [DataPos -> Blocks]
  PROVE  /\ Length \in Nat \ {0} /\ Length >= BLOCKS_SIZE_BYTE
         /\ \A q \in DataPos : /\ Len(blocks[q]) \in Nat
                               /\ BLOCKS_SIZE_BYTE + Len(blocks[q]) <= Length
<1> DEFINE f == [q \in DataPos |-> Len(blocks[q])]
           S == { Len(blocks[q]) : q \in DataPos }
<1>1. \A q \in DataPos : blocks[q] \in Seq(Byte) /\ Len(blocks[q]) \in Nat
  BY FormatAssumption DEF Byte
<1>2. f \in [DataPos -> Nat]
  BY <1>1
<1>3. IsFiniteSet(DataPos) /\ DataPos # {}
  <2>1. 0 \in DataPos /\ ec_k - 1 \in Int
    BY FormatAssumption DEF DataPos
  <2>2. QED
    BY <2>1, FS_Interval DEF DataPos
<1>4. PICK pos \in DataPos : \A q \in DataPos : f[pos] >= f[q]
  BY <1>2, <1>3, LargestExists
<1>5. \E x \in S : \A y \in S : x >= y
  BY <1>4
<1>6. MaxLen(blocks) \in S /\ \A y \in S : MaxLen(blocks) >= y
  BY <1>5 DEF MaxLen, Max
<1>7. MaxLen(blocks) \in Nat /\ \A q \in DataPos : MaxLen(blocks) >= Len(blocks[q])
  BY <1>1, <1>6
<1>8. QED
  BY <1>1, <1>7 DEF Length, BLOCKS_SIZE_BYTE

\* An offset lies in one slot only.
LEMMA SlotsAreApart ==
  ASSUME NEW d \in Nat \ {0}, NEW pos \in Nat, NEW q \in Nat,
         NEW x \in 0 .. d-1, NEW y \in 0 .. d-1, pos * d + x = q * d + y
  PROVE  pos = q /\ x = y
<1>1. d * pos + x = d * q + y
  OBVIOUS
<1>2. QED
  BY <1>1, DivModUnique

LEMMA DataPosIsPos == DataPos \subseteq 0 .. ec_k + ec_m - 1
BY FormatAssumption DEF DataPos

\* The slots lie in the buffer.
LEMMA SlotInBuffer ==
  ASSUME NEW d \in Nat \ {0}, NEW pos \in 0 .. ec_k + ec_m - 1, NEW x \in 0 .. d-1
  PROVE  pos * d + x \in 0 .. d * (ec_k + ec_m) - 1
<1>1. pos \in Nat /\ pos + 1 <= ec_k + ec_m /\ ec_k + ec_m \in Nat
  BY FormatAssumption
<1>2. d * (pos + 1) <= d * (ec_k + ec_m)
  BY <1>1
<1>3. pos * d \in Nat /\ d * (pos + 1) = pos * d + d /\ d * (ec_k + ec_m) \in Nat
  BY <1>1
<1>4. QED
  BY <1>2, <1>3

-----------------------------------------------------------------------------
(* The invariant, step by step.                                            *)

LEMMA FormatInitially == Init => FormatInv
<1> SUFFICES ASSUME Init PROVE FormatInv
  OBVIOUS
<1>1. TypeOK
  <2>1. 0 \in Byte
    BY Bases DEF Byte
  <2>2. QED
    BY <2>1, FormatAssumption DEF Init, TypeOK
<1>2. PackedSoFar /\ ReadBackIsPrefix
  BY DEF Init, PackedSoFar, ReadBackIsPrefix, DataPos
<1>3. QED
  BY <1>1, <1>2 DEF FormatInv

LEMMA PackStep ==
  ASSUME FormatInv, Pack
  PROVE  FormatInv'
<1> DEFINE size == Len(blocks[b])
           h == HeaderOf(size)
           at == b * Length
<1>1. /\ b \in DataPos /\ b \in Nat /\ b' = b + 1 /\ pc = "packing" /\ pc' = "packing"
      /\ blocks' = blocks /\ Length' = Length
      /\ blocks_rlp_data' = Packed(blocks_rlp_data, b)
  BY FormatAssumption DEF FormatInv, TypeOK, Pack, DataPos, Length, MaxLen
<1>2. /\ Length \in Nat \ {0} /\ Length >= 3 /\ size \in Nat /\ 3 + size <= Length
      /\ at \in Nat
  BY <1>1, SlotHoldsBlock DEF FormatInv, TypeOK, BLOCKS_SIZE_BYTE
<1>3. h \in [1 .. 3 -> Byte]
  BY <1>2, HeaderOfSize
<1>4. blocks[b] \in Seq(Byte)
  BY <1>1, FormatAssumption DEF FormatInv, TypeOK, Byte
<1> DEFINE buffer == blocks_rlp_data
           D == 0 .. Length * (ec_k + ec_m) - 1
<1>5. buffer \in [D -> Byte]
  BY DEF FormatInv, TypeOK
<1> HIDE DEF size, h, at, D
<1>6. /\ blocks_rlp_data' \in [D -> Byte]
      /\ \A x \in D :
           /\ x \in at .. at + 2 => blocks_rlp_data'[x] = h[x - at + 1]
           /\ x \in at + 3 .. at + 3 + size - 1 => blocks_rlp_data'[x] = blocks[b][x - at - 3 + 1]
           /\ x \notin at .. at + 3 + size - 1 => blocks_rlp_data'[x] = buffer[x]
  <2>1. blocks_rlp_data' =
          [x \in D |-> IF x \in at .. at + 3 - 1 THEN h[x - at + 1]
                       ELSE IF x \in at + 3 .. at + 3 + size - 1 THEN blocks[b][x - at - 3 + 1]
                       ELSE buffer[x]]
    BY <1>1, <1>5 DEF Packed, BLOCKS_SIZE_BYTE, size, h, at
  <2>2. \A x \in D : x \in Int
    BY DEF D
  <2>3. \A x \in D : x \in at .. at + 3 - 1 => x - at + 1 \in 1 .. 3 /\ h[x - at + 1] \in Byte
    BY <1>2, <1>3, <2>2
  <2>4. \A x \in D : x \in at + 3 .. at + 3 + size - 1 => blocks[b][x - at - 3 + 1] \in Byte
    <3>1. \A x \in D : x \in at + 3 .. at + 3 + size - 1 => x - at - 3 + 1 \in 1 .. size
      BY <1>2, <2>2
    <3>2. \A y \in 1 .. size : blocks[b][y] \in Byte
      BY <1>4 DEF size
    <3>3. QED
      BY <3>1, <3>2
  <2>5. blocks_rlp_data' \in [D -> Byte]
    BY <1>5, <2>1, <2>3, <2>4
  <2>6. \A x \in D :
           /\ x \in at .. at + 2 => blocks_rlp_data'[x] = h[x - at + 1]
           /\ x \in at + 3 .. at + 3 + size - 1 => blocks_rlp_data'[x] = blocks[b][x - at - 3 + 1]
           /\ x \notin at .. at + 3 + size - 1 => blocks_rlp_data'[x] = buffer[x]
    BY <1>2, <2>1, <2>2
  <2>7. QED
    BY <2>5, <2>6
<1>7. TypeOK'
  <2>1. b' \in 0 .. ec_k
    BY <1>1, FormatAssumption DEF DataPos
  <2>2. QED
    BY <1>1, <1>6, <2>1 DEF FormatInv, TypeOK, Pack, D
<1>8. ASSUME NEW q \in DataPos, q < b'
      PROVE  /\ \A x \in 1 .. 3 : blocks_rlp_data'[q * Length + x - 1] = HeaderOf(Len(blocks[q]))[x]
             /\ \A x \in 1 .. Len(blocks[q]) :
                  blocks_rlp_data'[q * Length + 3 + x - 1] = blocks[q][x]
  <2>1. CASE q = b
    <3>1. \A x \in 0 .. Length-1 : at + x \in D
      BY <1>1, <1>2, DataPosIsPos, SlotInBuffer DEF D, at
    <3>2. ASSUME NEW x \in 1 .. 3
          PROVE  blocks_rlp_data'[at + x - 1] = h[x]
      <4>1. x - 1 \in 0 .. Length-1 /\ at + x - 1 = at + (x - 1)
            /\ at + x - 1 \in at .. at + 2 /\ (at + x - 1) - at + 1 = x
        BY <1>2
      <4>2. QED
        BY <1>6, <3>1, <4>1
    <3>3. ASSUME NEW x \in 1 .. size
          PROVE  blocks_rlp_data'[at + 3 + x - 1] = blocks[b][x]
      <4>1. x + 2 \in 0 .. Length-1 /\ at + 3 + x - 1 = at + (x + 2)
            /\ at + 3 + x - 1 \in at + 3 .. at + 3 + size - 1 /\ (at + 3 + x - 1) - at - 3 + 1 = x
        BY <1>2
      <4>2. QED
        BY <1>6, <3>1, <4>1
    <3>4. QED
      BY <2>1, <3>2, <3>3 DEF at, h, size
  <2>2. CASE q # b
    <3>1. q \in Nat /\ q < b
      BY <1>1, <1>8, <2>2 DEF DataPos
    <3>2. /\ \A x \in 1 .. 3 : buffer[q * Length + x - 1] = HeaderOf(Len(blocks[q]))[x]
          /\ \A x \in 1 .. Len(blocks[q]) : buffer[q * Length + 3 + x - 1] = blocks[q][x]
      BY <3>1 DEF FormatInv, PackedSoFar, BLOCKS_SIZE_BYTE
    <3>3. ASSUME NEW x \in 0 .. Length-1
          PROVE  blocks_rlp_data'[q * Length + x] = buffer[q * Length + x]
      <4>1. q * Length + x \in D
        BY <1>2, DataPosIsPos, SlotInBuffer DEF D
      <4>2. \A y \in 0 .. Length-1 : q * Length + x # at + y
        BY <1>1, <1>2, <2>2, <3>1, SlotsAreApart DEF at
      <4>3. q * Length + x \notin at .. at + 3 + size - 1
        <5>1. SUFFICES ASSUME q * Length + x \in at .. at + 3 + size - 1 PROVE FALSE
          OBVIOUS
        <5> DEFINE y == (q * Length + x) - at
        <5>2. y \in 0 .. Length-1 /\ q * Length + x = at + y
          BY <1>2, <5>1
        <5>3. QED
          BY <4>2, <5>2
      <4>4. QED
        BY <1>6, <4>1, <4>3
    <3>4. Len(blocks[q]) \in Nat /\ 3 + Len(blocks[q]) <= Length
      BY SlotHoldsBlock DEF FormatInv, TypeOK, BLOCKS_SIZE_BYTE
    <3>5. q * Length \in Nat
      BY <1>2, <3>1
    <3>6. ASSUME NEW x \in 1 .. 3
          PROVE  blocks_rlp_data'[q * Length + x - 1] = HeaderOf(Len(blocks[q]))[x]
      <4>1. x - 1 \in 0 .. Length-1 /\ q * Length + x - 1 = q * Length + (x - 1)
        BY <1>2, <3>5
      <4>2. QED
        BY <3>2, <3>3, <4>1
    <3>7. ASSUME NEW x \in 1 .. Len(blocks[q])
          PROVE  blocks_rlp_data'[q * Length + 3 + x - 1] = blocks[q][x]
      <4>1. x + 2 \in 0 .. Length-1 /\ q * Length + 3 + x - 1 = q * Length + (x + 2)
        BY <1>2, <3>4, <3>5
      <4>2. QED
        BY <3>2, <3>3, <4>1
    <3>8. QED
      BY <3>6, <3>7
  <2>3. QED
    BY <2>1, <2>2
<1>9. PackedSoFar'
  BY <1>1, <1>8 DEF PackedSoFar, BLOCKS_SIZE_BYTE
<1>10. ReadBackIsPrefix'
  BY <1>1 DEF ReadBackIsPrefix
<1>11. QED
  BY <1>7, <1>9, <1>10 DEF FormatInv

\* What is read from the slot of a packed block.
LEMMA UnpackIsBlock ==
  ASSUME FormatInv, pc # "packing", NEW pos \in DataPos
  PROVE  /\ Unpack(Shard(pos)) = SubSeq(blocks[pos], 1, Len(blocks[pos]) % SizeLimit)
         /\ Unpack(Shard(pos)) \in Seq(Byte)
<1> DEFINE size == Len(blocks[pos])
           shard == Shard(pos)
           sz == size % SizeLimit
<1>1. Length \in Nat \ {0} /\ Length >= 3 /\ size \in Nat /\ 3 + size <= Length
  BY SlotHoldsBlock DEF FormatInv, TypeOK, BLOCKS_SIZE_BYTE
<1>2. /\ \A x \in 1 .. 3 : blocks_rlp_data[pos * Length + x - 1] = HeaderOf(size)[x]
      /\ \A x \in 1 .. size : blocks_rlp_data[pos * Length + 3 + x - 1] = blocks[pos][x]
  BY DEF FormatInv, PackedSoFar, BLOCKS_SIZE_BYTE
<1>3. pos * Length \in Nat
  BY <1>1 DEF DataPos
<1>4. /\ DOMAIN shard = 0 .. Length-1
      /\ \A x \in 0 .. Length-1 : shard[x] = blocks_rlp_data[pos * Length + x]
  BY DEF Shard
<1> HIDE DEF size, shard
<1>5. shard[0] = HeaderOf(size)[1] /\ shard[1] = HeaderOf(size)[2] /\ shard[2] = HeaderOf(size)[3]
  <2>1. \A x \in 1 .. 3 : x - 1 \in 0 .. Length-1 /\ pos * Length + x - 1 = pos * Length + (x - 1)
    BY <1>1, <1>3
  <2>2. \A x \in 1 .. 3 : shard[x - 1] = HeaderOf(size)[x]
    BY <1>2, <1>4, <2>1
  <2>3. QED
    BY <2>2
<1>6. SizeOf(shard[0], shard[1], shard[2]) = sz
  BY <1>1, <1>5, HeaderOfSize
<1>7. sz \in Nat /\ sz <= size
  <2>1. sz \in Nat /\ size \div SizeLimit \in Nat
        /\ size = SizeLimit * (size \div SizeLimit) + sz
    BY <1>1, SizeLimitPositive, DivMod
  <2>2. SizeLimit * (size \div SizeLimit) \in Nat
    BY <2>1, SizeLimitPositive
  <2>3. QED
    BY <1>1, <2>1, <2>2
<1> HIDE DEF sz
<1>8. ASSUME NEW x \in 1 .. sz
      PROVE  3 + x - 1 \in DOMAIN shard /\ shard[3 + x - 1] = blocks[pos][x]
  <2>1. x \in 1 .. size /\ 3 + x - 1 \in 0 .. Length-1
    BY <1>1, <1>7
  <2>2. pos * Length + 3 + x - 1 = pos * Length + (3 + x - 1)
    BY <1>3, <2>1
  <2>3. QED
    BY <1>2, <1>4, <2>1, <2>2
<1>9. Unpack(shard) = [x \in 1 .. sz |-> blocks[pos][x]]
  BY <1>6, <1>8 DEF Unpack, BLOCKS_SIZE_BYTE
<1>10. blocks[pos] \in Seq(Byte)
  BY FormatAssumption DEF FormatInv, TypeOK, Byte
<1>11. SubSeq(blocks[pos], 1, sz) = [x \in 1 .. sz |-> blocks[pos][x]]
  BY <1>7, <1>10 DEF size
<1>12. [x \in 1 .. sz |-> blocks[pos][x]] \in Seq(Byte)
  <2>1. \A x \in 1 .. sz : blocks[pos][x] \in Byte
    BY <1>1, <1>7, <1>10 DEF size
  <2>2. QED
    BY <1>7, <2>1
<1>13. QED
  BY <1>9, <1>11, <1>12 DEF shard, sz, size

LEMMA ReadStep ==
  ASSUME FormatInv, NEW pos \in DataPos, Read(pos)
  PROVE  FormatInv'
<1>1. /\ pc # "packing" /\ pc' = "read" /\ b' = pos /\ UNCHANGED <<blocks, blocks_rlp_data>>
      /\ block' = Unpack(Shard(pos)) /\ Length' = Length
  BY DEF Read, Length, MaxLen
<1>2. TypeOK'
  <2>1. pos \in 0 .. ec_k
    BY FormatAssumption DEF DataPos
  <2>2. QED
    BY <1>1, <2>1, UnpackIsBlock DEF FormatInv, TypeOK
<1>3. PackedSoFar'
  BY <1>1 DEF FormatInv, PackedSoFar
<1>4. ReadBackIsPrefix'
  BY <1>1, UnpackIsBlock DEF ReadBackIsPrefix
<1>5. QED
  BY <1>2, <1>3, <1>4 DEF FormatInv

LEMMA FormatStep == FormatInv /\ [Next]_vars => FormatInv'
<1> SUFFICES ASSUME FormatInv, [Next]_vars PROVE FormatInv'
  OBVIOUS
<1>1. CASE Pack
  BY <1>1, PackStep
<1>2. CASE PackDone
  <2>1. /\ pc = "packing" /\ b = ec_k /\ pc' = "packed" /\ Length' = Length
        /\ UNCHANGED <<blocks, b, blocks_rlp_data, block>>
    BY <1>2 DEF PackDone, Length, MaxLen
  <2>2. \A q \in DataPos : q < b
    BY <2>1, FormatAssumption DEF DataPos
  <2>3. PackedSoFar'
    BY <2>1, <2>2 DEF FormatInv, PackedSoFar
  <2>4. QED
    BY <2>1, <2>3 DEF FormatInv, TypeOK, ReadBackIsPrefix
<1>3. ASSUME NEW pos \in DataPos, Read(pos) PROVE FormatInv'
  BY <1>3, ReadStep
<1>4. CASE UNCHANGED vars
  <2>1. Length' = Length
    BY <1>4 DEF vars, Length, MaxLen
  <2>2. QED
    BY <1>4, <2>1 DEF vars, FormatInv, TypeOK, PackedSoFar, ReadBackIsPrefix
<1>5. QED
  BY <1>1, <1>2, <1>3, <1>4 DEF Next

-----------------------------------------------------------------------------
\* While the blocks are packed and whenever one is read, the slots hold what was
\* packed, and nothing is written or read outside the buffer.
THEOREM FormatInvariant == Spec => []FormatInv
BY FormatInitially, FormatStep, PTL DEF Spec

\* What is read from a shard is the block packed into it, up to the length that
\* the header holds.
THEOREM BlockComesBack == Spec => []ReadBackIsPrefix
<1>1. FormatInv => ReadBackIsPrefix
  BY DEF FormatInv
<1>2. QED
  BY <1>1, FormatInvariant, PTL

-----------------------------------------------------------------------------
(* The record of a chunk.                                                  *)

\* What is assumed of sha256: it meets no collision, not even one but for one
\* character.  (That digests differ in one place would be too little: a record
\* that holds a digest only could be damaged into the digest of no data.)
DigestSeparates ==
  /\ \A d \in Seq(Byte) : Digest(d) \in Seq(Nat) /\ Len(Digest(d)) = DigestSize
  /\ \A d, e \in Seq(Byte) : d # e =>
       \E x, y \in 1 .. HexSize : /\ x # y
                                  /\ ToHex(Digest(d))[x] # ToHex(Digest(e))[x]
                                  /\ ToHex(Digest(d))[y] # ToHex(Digest(e))[y]

\* A byte that changes.
Changed(c) == (c + 1) % ByteRange

\* A record is whole, or differs from the whole one in the byte that was damaged.
RecordKept ==
  /\ value = <<>> => ~ damaged /\ local = NotRead
  /\ value # <<>> =>
       LET whole == Value(Data(p), flag)
       IN  /\ pc # "packing" /\ p \in 0 .. ec_k + ec_m - 1 /\ flag \in BOOLEAN
           /\ ~ damaged => value = whole
           /\ damaged => \E x \in DOMAIN whole : value = [whole EXCEPT ![x] = Changed(@)]

RecordInv == FormatInv /\ RecordKept /\ RecordReadsBack

-----------------------------------------------------------------------------
(* Sequences put together, damaged and cut.                                *)

LEMMA ChangedDiffers ==
  ASSUME NEW c \in Nat
  PROVE  Changed(c) # c /\ Changed(c) \in Byte
<1> DEFINE w == ByteRange
<1>1. w \in Nat \ {0} /\ w > 1 /\ c + 1 \in Nat
  BY RecordAssumption, FormatAssumption
<1>2. (c + 1) % w \in 0 .. w-1 /\ (c + 1) \div w \in Nat
      /\ c + 1 = w * ((c + 1) \div w) + ((c + 1) % w)
  BY <1>1, DivMod
<1> DEFINE q == (c + 1) \div w
           r == (c + 1) % w
<1> HIDE DEF q, r
<1>3. r # c
  <2>1. SUFFICES ASSUME r = c PROVE FALSE
    OBVIOUS
  <2>2. w * q = 1 /\ q \in Nat
    BY <1>1, <1>2, <2>1 DEF q, r
  <2>3. CASE q = 0
    BY <1>1, <2>2, <2>3
  <2>4. CASE q >= 1
    <3>1. w * q >= w
      BY <1>1, <2>2, <2>4
    <3>2. QED
      BY <1>1, <2>2, <3>1
  <2>5. QED
    BY <2>2, <2>3, <2>4
<1>4. QED
  BY <1>1, <1>2, <1>3 DEF Changed, Byte, r

LEMMA CutConcatenation ==
  ASSUME NEW s \in Seq(Nat), NEW t \in Seq(Nat)
  PROVE  /\ s \o t \in Seq(Nat) /\ Len(s \o t) = Len(s) + Len(t)
         /\ SubSeq(s \o t, 1, Len(s)) = s
         /\ SubSeq(s \o t, Len(s) + 1, Len(s \o t)) = t
<1>1. /\ s \o t \in Seq(Nat) /\ Len(s \o t) = Len(s) + Len(t)
      /\ \A x \in 1 .. Len(s) : (s \o t)[x] = s[x]
      /\ \A x \in 1 .. Len(t) : (s \o t)[Len(s) + x] = t[x]
  OBVIOUS
<1>2. SubSeq(s \o t, 1, Len(s)) = s
  BY <1>1
<1>3. SubSeq(s \o t, Len(s) + 1, Len(s \o t)) = t
  BY <1>1
<1>4. QED
  BY <1>1, <1>2, <1>3

LEMMA ConcatenationIs ==
  ASSUME NEW s \in Seq(Nat), NEW t \in Seq(Nat)
  PROVE  s \o t = [z \in 1 .. Len(s) + Len(t) |-> IF z <= Len(s) THEN s[z] ELSE t[z - Len(s)]]
<1> DEFINE c == [z \in 1 .. Len(s) + Len(t) |-> IF z <= Len(s) THEN s[z] ELSE t[z - Len(s)]]
<1>1. /\ s \o t \in Seq(Nat) /\ DOMAIN (s \o t) = 1 .. Len(s) + Len(t)
      /\ \A z \in 1 .. Len(s) : (s \o t)[z] = s[z]
      /\ \A z \in 1 .. Len(t) : (s \o t)[Len(s) + z] = t[z]
      /\ Len(s) \in Nat /\ Len(t) \in Nat
  OBVIOUS
<1>2. ASSUME NEW z \in 1 .. Len(s) + Len(t)
      PROVE  (s \o t)[z] = c[z]
  <2>1. CASE z <= Len(s)
    BY <1>1, <2>1
  <2>2. CASE z > Len(s)
    <3>1. z - Len(s) \in 1 .. Len(t) /\ Len(s) + (z - Len(s)) = z
      BY <1>1, <2>2
    <3>2. QED
      BY <1>1, <2>2, <3>1
  <2>3. QED
    BY <1>1, <2>1, <2>2
<1>3. s \o t \in [1 .. Len(s) + Len(t) -> Nat]
  <2>1. Len(s \o t) = Len(s) + Len(t)
    BY <1>1
  <2>2. QED
    BY <1>1, <2>1, LenProperties
<1>4. QED
  BY <1>1, <1>2, <1>3

\* Damage in front of the boundary leaves what is behind it alone, and the other
\* way round.
LEMMA ChangeConcatenation ==
  ASSUME NEW s \in Seq(Nat), NEW t \in Seq(Nat), NEW x \in 1 .. Len(s) + Len(t)
  PROVE  LET u == [s \o t EXCEPT ![x] = Changed(@)]
         IN  \/ x \in DOMAIN s /\ u = [s EXCEPT ![x] = Changed(@)] \o t
             \/ /\ x \notin DOMAIN s /\ x - Len(s) \in DOMAIN t
                /\ u = s \o [t EXCEPT ![x - Len(s)] = Changed(@)]
<1> DEFINE n == Len(s) + Len(t)
           u == [s \o t EXCEPT ![x] = Changed(@)]
           s1 == [s EXCEPT ![x] = Changed(@)]
           y == x - Len(s)
           t1 == [t EXCEPT ![y] = Changed(@)]
<1>1. /\ Len(s) \in Nat /\ Len(t) \in Nat
      /\ DOMAIN s = 1 .. Len(s) /\ DOMAIN t = 1 .. Len(t)
  OBVIOUS
<1>2. ASSUME NEW c \in Nat PROVE Changed(c) \in Nat
  <2>1. Changed(c) \in 0 .. ByteRange-1 /\ ByteRange \in Nat
    BY ChangedDiffers, FormatAssumption DEF Byte
  <2>2. QED
    BY <2>1
<1>3. u = [z \in 1 .. n |-> IF z = x THEN Changed((s \o t)[x]) ELSE (s \o t)[z]]
  <2>1. DOMAIN (s \o t) = 1 .. n
    BY ConcatenationIs
  <2>2. QED
    BY <2>1
<1>4. \A z \in 1 .. n : (s \o t)[z] = IF z <= Len(s) THEN s[z] ELSE t[z - Len(s)]
  BY ConcatenationIs
<1>5. CASE x <= Len(s)
  <2>1. x \in DOMAIN s /\ s[x] \in Nat
    BY <1>1, <1>5
  <2>2. /\ s1 \in Seq(Nat) /\ Len(s1) = Len(s)
        /\ \A z \in 1 .. Len(s) : s1[z] = IF z = x THEN Changed(s[x]) ELSE s[z]
    BY <1>1, <1>2, <2>1
  <2>3. s1 \o t = [z \in 1 .. n |-> IF z <= Len(s) THEN s1[z] ELSE t[z - Len(s)]]
    BY <2>2, ConcatenationIs
  <2> HIDE DEF s1, u
  <2>4. u = s1 \o t
    BY <1>1, <1>3, <1>4, <1>5, <2>2, <2>3
  <2>5. QED
    BY <2>1, <2>4 DEF s1, u
<1>6. CASE x > Len(s)
  <2>1. /\ x \notin DOMAIN s /\ y \in DOMAIN t /\ t[y] \in Nat
    BY <1>1, <1>6
  <2>2. /\ t1 \in Seq(Nat) /\ Len(t1) = Len(t)
        /\ \A z \in 1 .. Len(t) : t1[z] = IF z = y THEN Changed(t[y]) ELSE t[z]
    BY <1>1, <1>2, <2>1
  <2>3. s \o t1 = [z \in 1 .. n |-> IF z <= Len(s) THEN s[z] ELSE t1[z - Len(s)]]
    BY <2>2, ConcatenationIs
  <2> HIDE DEF t1, u
  <2>4. ASSUME NEW z \in 1 .. n
        PROVE  u[z] = (s \o t1)[z]
    <3>1. CASE z <= Len(s)
      BY <1>1, <1>3, <1>4, <1>6, <2>3, <3>1
    <3>2. CASE z > Len(s)
      <4>1. z \in Int /\ x \in Int /\ z <= Len(s) + Len(t)
        OBVIOUS
      <4>2. z - Len(s) \in 1 .. Len(t)
        BY <1>1, <3>2, <4>1
      <4>3. z - Len(s) = y <=> z = x
        BY <1>1, <4>1
      <4>4. (s \o t1)[z] = t1[z - Len(s)] /\ ~ (z <= Len(s))
        BY <1>1, <2>3, <3>2, <4>1
      <4>5. CASE z = x
        BY <1>3, <1>4, <1>6, <2>2, <4>1, <4>2, <4>3, <4>4, <4>5
      <4>6. CASE z # x
        BY <1>3, <1>4, <2>2, <4>2, <4>3, <4>4, <4>6
      <4>7. QED
        BY <4>5, <4>6
    <3>3. z <= Len(s) \/ z > Len(s)
      BY <1>1
    <3>4. QED
      BY <3>1, <3>2, <3>3
  <2>5. u = s \o t1
    BY <1>3, <2>3, <2>4
  <2>6. QED
    BY <2>1, <2>5 DEF t1, u
<1>7. QED
  BY <1>1, <1>5, <1>6

-----------------------------------------------------------------------------
(* Chunks and digests.                                                     *)

LEMMA HexSizeIs == HexSize \in Nat /\ HexSize >= 2
BY RecordAssumption DEF HexSize

LEMMA ToHexIsText ==
  ASSUME NEW bytes \in Seq(Nat)
  PROVE  ToHex(bytes) \in Seq(Nat) /\ Len(ToHex(bytes)) = 2 * Len(bytes)
<1> DEFINE L == Len(bytes)
           Char(x) == LET byte == bytes[(x + 1) \div 2]
                      IN  HexDigit(IF x % 2 = 1 THEN byte \div 16 ELSE byte % 16)
<1>1. L \in Nat
  OBVIOUS
<1>2. ASSUME NEW x \in 1 .. 2 * L
      PROVE  Char(x) \in Nat
  <2>1. (x + 1) \div 2 \in 1 .. L
    BY <1>1
  <2>2. bytes[(x + 1) \div 2] \in Nat
    BY <2>1
  <2>3. \A byte \in Nat : byte \div 16 \in Nat /\ byte % 16 \in Nat
    OBVIOUS
  <2>4. \A d \in Nat : HexDigit(d) \in Nat
    BY DEF HexDigit, Digit0, LowerA
  <2>5. QED
    BY <2>2, <2>3, <2>4
<1>3. ToHex(bytes) = [x \in 1 .. 2 * L |-> Char(x)]
  BY DEF ToHex
<1> HIDE DEF Char, L
<1>4. QED
  BY <1>1, <1>2, <1>3 DEF L

LEMMA HexOfDigest ==
  ASSUME DigestSeparates, NEW d \in Seq(Byte)
  PROVE  ToHex(Digest(d)) \in Seq(Nat) /\ Len(ToHex(Digest(d))) = HexSize
BY ToHexIsText DEF DigestSeparates, HexSize

LEMMA BytesAreNumbers == Byte \subseteq Nat /\ Seq(Byte) \subseteq Seq(Nat)
BY FormatAssumption DEF Byte

\* A shard as a sequence.
LEMMA DataIsChunk ==
  ASSUME FormatInv, NEW pos \in 0 .. ec_k + ec_m - 1
  PROVE  Data(pos) \in Seq(Byte) /\ Len(Data(pos)) = Length /\ Length \in Nat /\ Length >= 3
<1>1. Length \in Nat \ {0} /\ Length >= 3
  BY SlotHoldsBlock DEF FormatInv, TypeOK, BLOCKS_SIZE_BYTE
<1>2. ASSUME NEW x \in 1 .. Length
      PROVE  Shard(pos)[x - 1] \in Byte
  <2>1. x - 1 \in 0 .. Length-1
    BY <1>1
  <2>2. pos * Length + (x - 1) \in 0 .. Length * (ec_k + ec_m) - 1
    BY <1>1, <2>1, SlotInBuffer
  <2>3. QED
    BY <2>1, <2>2 DEF Shard, FormatInv, TypeOK
<1>3. QED
  BY <1>1, <1>2 DEF Data

LEMMA UnpackData ==
  ASSUME FormatInv, pc # "packing", NEW pos \in DataPos
  PROVE  Unpack([x \in 0 .. Len(Data(pos)) - 1 |-> Data(pos)[x + 1]])
           = SubSeq(blocks[pos], 1, Len(blocks[pos]) % SizeLimit)
<1>1. Len(Data(pos)) = Length /\ Length \in Nat
  BY DataPosIsPos, DataIsChunk
<1>2. \A x \in 0 .. Length-1 : x + 1 \in 1 .. Length /\ (x + 1) - 1 = x
  BY <1>1
<1>3. \A x \in 0 .. Length-1 : Data(pos)[x + 1] = Shard(pos)[x]
  BY <1>2 DEF Data
<1>4. Shard(pos) = [x \in 0 .. Length-1 |-> Shard(pos)[x]]
  BY DEF Shard
<1>5. [x \in 0 .. Len(Data(pos)) - 1 |-> Data(pos)[x + 1]] = Shard(pos)
  BY <1>1, <1>3, <1>4
<1>6. QED
  BY <1>5, UnpackIsBlock

-----------------------------------------------------------------------------
(* The reader.                                                             *)

\* localReadBlock takes a record apart where it was put together.
LEMMA LocalBlockOf ==
  ASSUME NEW d \in Seq(Nat), NEW h \in Seq(Nat), Len(h) = HexSize
  PROVE  LocalBlock(d \o h) = IF ToHex(Digest(d)) # h THEN <<>>
                              ELSE Unpack([x \in 0 .. Len(d) - 1 |-> d[x + 1]])
<1> DEFINE r == d \o h
<1>1. /\ Len(r) = Len(d) + Len(h) /\ SubSeq(r, 1, Len(d)) = d
      /\ SubSeq(r, Len(d) + 1, Len(r)) = h
  BY CutConcatenation
<1>2. Len(d) \in Nat
  OBVIOUS
<1> HIDE DEF r
<1>3. Boundary(r) = Len(d)
  BY <1>1, <1>2, HexSizeIs DEF Boundary
<1>4. LocalBlock(r) = IF ToHex(Digest(d)) # h THEN <<>>
                      ELSE Unpack([x \in 0 .. Len(d) - 1 |-> d[x + 1]])
  BY <1>1, <1>3 DEF LocalBlock
<1>5. QED
  BY <1>4 DEF r

\* A text that differs from another, or two that differ in two places.
LEMMA ChangedTextDiffers ==
  ASSUME NEW t \in Seq(Nat), NEW z \in DOMAIN t
  PROVE  LET u == [t EXCEPT ![z] = Changed(@)]
         IN  /\ u \in Seq(Nat) /\ Len(u) = Len(t) /\ u # t
             /\ \A v : (\E x, y \in 1 .. Len(t) : x # y /\ t[x] # v[x] /\ t[y] # v[y]) => u # v
<1> DEFINE u == [t EXCEPT ![z] = Changed(@)]
<1>1. t[z] \in Nat /\ DOMAIN t = 1 .. Len(t) /\ Len(t) \in Nat
  OBVIOUS
<1>2. Changed(t[z]) \in Nat /\ Changed(t[z]) # t[z]
  BY <1>1, ChangedDiffers, BytesAreNumbers
<1>3. u \in Seq(Nat) /\ Len(u) = Len(t)
  BY <1>1, <1>2
<1>4. u[z] # t[z] /\ \A x \in 1 .. Len(t) : x # z => u[x] = t[x]
  BY <1>1, <1>2
<1> HIDE DEF u
<1>5. ASSUME NEW v, NEW x \in 1 .. Len(t), NEW y \in 1 .. Len(t),
             x # y, t[x] # v[x], t[y] # v[y]
      PROVE  u # v
  BY <1>4, <1>5
<1>6. u # t
  BY <1>4
<1>7. QED
  BY <1>3, <1>5, <1>6 DEF u

LEMMA LocalReads ==
  ASSUME DigestSeparates, FormatInv, RecordKept, value # <<>>, p \in DataPos
  PROVE  LocalBlock(value) = IF flag /\ ~ damaged
                             THEN SubSeq(blocks[p], 1, Len(blocks[p]) % SizeLimit) ELSE <<>>
<1> DEFINE data == Data(p)
           hex == ToHex(Digest(data))
           whole == Value(data, flag)
           empty == ToHex(Digest(<<>>))
<1>1. /\ pc # "packing" /\ flag \in BOOLEAN
      /\ ~ damaged => value = whole
      /\ damaged => \E x \in DOMAIN whole : value = [whole EXCEPT ![x] = Changed(@)]
  BY DEF RecordKept
<1>2. data \in Seq(Byte) /\ Len(data) = Length /\ Length \in Nat /\ Length >= 3
  BY DataPosIsPos, DataIsChunk
<1>3. data \in Seq(Nat) /\ hex \in Seq(Nat) /\ Len(hex) = HexSize
  BY <1>2, HexOfDigest, BytesAreNumbers
<1>4. <<>> \in Seq(Byte) /\ <<>> \in Seq(Nat) /\ <<>> # data
  BY <1>2
<1>5. Unpack([x \in 0 .. Len(data) - 1 |-> data[x + 1]])
        = SubSeq(blocks[p], 1, Len(blocks[p]) % SizeLimit)
  BY <1>1, UnpackData
<1>6. whole = IF flag THEN data \o hex ELSE hex
  BY DEF Value
<1> HIDE DEF data, hex, whole, empty
<1>7. CASE flag /\ ~ damaged
  <2>1. value = data \o hex
    BY <1>1, <1>6, <1>7
  <2>2. QED
    BY <1>3, <1>5, <1>7, <2>1, LocalBlockOf DEF hex
<1>8. CASE flag /\ damaged
  <2>1. PICK x \in DOMAIN (data \o hex) : value = [data \o hex EXCEPT ![x] = Changed(@)]
    BY <1>1, <1>6, <1>8
  <2>2. x \in 1 .. Len(data) + Len(hex)
    BY <1>3, <2>1, ConcatenationIs
  <2>3. CASE x \in DOMAIN data /\ value = [data EXCEPT ![x] = Changed(@)] \o hex
    <3> DEFINE d1 == [data EXCEPT ![x] = Changed(@)]
    <3>1. d1 \in Seq(Nat) /\ d1 # data
      BY <1>3, <2>3, ChangedTextDiffers
    <3>2. d1 \in Seq(Byte)
      <4>1. data[x] \in Nat
        BY <1>3, <2>3
      <4>2. Changed(data[x]) \in Byte
        BY <4>1, ChangedDiffers
      <4>3. QED
        BY <1>2, <2>3, <4>2
    <3> HIDE DEF d1
    <3>3. ToHex(Digest(d1)) # hex
      BY <1>2, <3>1, <3>2 DEF DigestSeparates, hex
    <3>4. LocalBlock(d1 \o hex) = <<>>
      BY <1>3, <3>1, <3>3, LocalBlockOf
    <3>5. QED
      BY <1>8, <2>3, <3>4 DEF d1
  <2>4. CASE x - Len(data) \in DOMAIN hex
             /\ value = data \o [hex EXCEPT ![x - Len(data)] = Changed(@)]
    <3> DEFINE h1 == [hex EXCEPT ![x - Len(data)] = Changed(@)]
    <3>1. h1 \in Seq(Nat) /\ Len(h1) = HexSize /\ h1 # hex
      BY <1>3, <2>4, ChangedTextDiffers
    <3> HIDE DEF h1
    <3>2. LocalBlock(data \o h1) = <<>>
      BY <1>3, <3>1, LocalBlockOf DEF hex
    <3>3. QED
      BY <1>8, <2>4, <3>2 DEF h1
  <2>5. QED
    BY <1>3, <2>1, <2>2, <2>3, <2>4, ChangeConcatenation
<1>9. CASE ~ flag
  <2>1. /\ empty \in Seq(Nat)
        /\ \E x, y \in 1 .. HexSize : x # y /\ hex[x] # empty[x] /\ hex[y] # empty[y]
    BY <1>2, <1>4, HexOfDigest DEF DigestSeparates, hex, empty
  <2>2. value \in Seq(Nat) /\ Len(value) = HexSize /\ value # empty
    <3>1. CASE ~ damaged
      <4>1. value = hex
        BY <1>1, <1>6, <1>9, <3>1
      <4>2. QED
        BY <1>3, <2>1, <4>1
    <3>2. CASE damaged
      <4>1. PICK x \in DOMAIN hex : value = [hex EXCEPT ![x] = Changed(@)]
        BY <1>1, <1>6, <1>9, <3>2
      <4>2. QED
        BY <1>3, <2>1, <4>1, ChangedTextDiffers
    <3>3. QED
      BY <3>1, <3>2
  <2>3. <<>> \o value = value
    BY <2>2
  <2>4. LocalBlock(<<>> \o value) = <<>>
    BY <1>4, <2>2, LocalBlockOf DEF empty
  <2>5. QED
    BY <1>9, <2>3, <2>4
<1>10. QED
  BY <1>1, <1>7, <1>8, <1>9

-----------------------------------------------------------------------------
(* The invariant, step by step.                                            *)

LEMMA RecordInitially == RecordInit => RecordInv
<1> SUFFICES ASSUME RecordInit PROVE RecordInv
  OBVIOUS
<1>1. FormatInv
  BY FormatInitially DEF RecordInit
<1>2. QED
  BY <1>1 DEF RecordInit, RecordInv, RecordKept, RecordReadsBack

LEMMA RecordStep ==
  ASSUME DigestSeparates, RecordInv, [RecordNext]_<<vars, recordVars>>
  PROVE  RecordInv'
<1>1. ASSUME [Next]_vars, UNCHANGED recordVars
      PROVE  RecordInv'
  <2>1. FormatInv'
    BY <1>1, FormatStep DEF RecordInv
  <2>2. UNCHANGED <<blocks, p, flag, value, damaged, local>>
    BY <1>1 DEF Next, vars, recordVars, Pack, PackDone, Read
  <2>3. pc # "packing" => pc' # "packing" /\ UNCHANGED blocks_rlp_data
    BY <1>1 DEF Next, vars, Pack, PackDone, Read
  <2>4. Length' = Length
    BY <2>2 DEF Length, MaxLen
  <2>5. pc # "packing" => Value(Data(p), flag)' = Value(Data(p), flag)
    BY <2>2, <2>3, <2>4 DEF Value, Data, Shard
  <2>6. RecordKept'
    BY <2>2, <2>3, <2>5 DEF RecordInv, RecordKept
  <2>7. RecordReadsBack'
    BY <2>2 DEF RecordInv, RecordReadsBack
  <2>8. QED
    BY <2>1, <2>6, <2>7 DEF RecordInv
<1>2. ASSUME UNCHANGED vars
      PROVE  /\ FormatInv' /\ pc' = pc /\ blocks' = blocks
             /\ \A pos, own : Value(Data(pos), own)' = Value(Data(pos), own)
  <2>1. FormatInv'
    BY <1>2, FormatStep DEF RecordInv
  <2>2. Length' = Length
    BY <1>2 DEF vars, Length, MaxLen
  <2>3. QED
    BY <1>2, <2>1, <2>2 DEF vars, Value, Data, Shard
<1>3. ASSUME NEW pos \in 0 .. ec_k + ec_m - 1, NEW own \in BOOLEAN, WriteDB(pos, own)
      PROVE  RecordInv'
  <2>1. /\ UNCHANGED vars /\ pc = "packed" /\ ~ damaged' /\ local' = NotRead
        /\ p' = pos /\ flag' = own /\ value' = Value(Data(pos), own)
    BY <1>3 DEF WriteDB, RecordInv, RecordKept
  <2>2. Value(Data(p), flag)' = Value(Data(pos), own)
    BY <1>2, <2>1 DEF Value, Data, Shard, Length, MaxLen, vars
  <2>3. RecordKept'
    BY <1>2, <1>3, <2>1, <2>2 DEF RecordKept
  <2>4. QED
    BY <1>2, <2>1, <2>3 DEF RecordInv, RecordReadsBack
<1>4. ASSUME NEW x, Damage(x)
      PROVE  RecordInv'
  <2> DEFINE whole == Value(Data(p), flag)
  <2>1. /\ UNCHANGED <<vars, p, flag>> /\ x \in DOMAIN value /\ ~ damaged /\ damaged'
        /\ local' = NotRead /\ value' = [value EXCEPT ![x] = Changed(@)]
    BY <1>4 DEF Damage, Changed
  <2>2. value # <<>> /\ value' # <<>>
    BY <2>1
  <2>3. value = whole /\ pc # "packing" /\ p \in 0 .. ec_k + ec_m - 1 /\ flag \in BOOLEAN
    BY <2>1, <2>2 DEF RecordInv, RecordKept
  <2>4. Value(Data(p), flag)' = whole
    BY <2>1 DEF Value, Data, Shard, Length, MaxLen, vars
  <2> HIDE DEF whole
  <2>5. RecordKept'
    BY <1>2, <2>1, <2>2, <2>3, <2>4 DEF RecordKept
  <2>6. QED
    BY <1>2, <2>1, <2>5 DEF RecordInv, RecordReadsBack
<1>5. ASSUME LocalReadBlock
      PROVE  RecordInv'
  <2>1. /\ UNCHANGED <<vars, p, flag, value, damaged>> /\ value # <<>> /\ p \in DataPos
        /\ local' = LocalBlock(value)
    BY <1>5 DEF LocalReadBlock
  <2>2. Value(Data(p), flag)' = Value(Data(p), flag)
    BY <2>1 DEF Value, Data, Shard, Length, MaxLen, vars
  <2>3. RecordKept'
    BY <1>2, <2>1, <2>2 DEF RecordInv, RecordKept
  <2>4. RecordReadsBack'
    BY <1>2, <2>1, LocalReads DEF RecordInv, RecordReadsBack
  <2>5. QED
    BY <1>2, <2>1, <2>3, <2>4 DEF RecordInv
<1>6. QED
  BY <1>1, <1>3, <1>4, <1>5 DEF RecordNext

-----------------------------------------------------------------------------
\* A record is never read as anything but the block it was made from: what
\* localReadBlock returns is that block from a whole record of the own chunk, and
\* nothing from any other, wherever the damage is.
THEOREM RecordIsBlock ==
  ASSUME DigestSeparates
  PROVE  RecordSpec => []RecordReadsBack
<1>1. RecordInv /\ [RecordNext]_<<vars, recordVars>> => RecordInv'
  BY RecordStep
<1>2. RecordInv => RecordReadsBack
  BY DEF RecordInv
<1>3. QED
  BY <1>1, <1>2, RecordInitially, PTL DEF RecordSpec
=============================================================================
