--------------------------- MODULE ClusterProofs ---------------------------
(***************************************************************************)
(* Proofs about a storage node, for every code, chain, placement, sealer   *)
(* list and cache capacity: NodeInv is an invariant, what a read may       *)
(* return follows from it, and so does that the node keeps the chunks of   *)
(* its own id, however that is spelled. Then about reading from a cluster  *)
(* of any size, for every set of faulty nodes and bound on failures:       *)
(* ClusterInv is an invariant, requests reach the nodes that can answer    *)
(* them, and the cluster implements BlockStore. Every step of a cluster is *)
(* one of its reader's node or none, so the second half rests on the       *)
(* first.                                                                  *)
(***************************************************************************)
EXTENDS Cluster, NodeIds, SequenceTheorems, FiniteSetTheorems, TLAPS

-----------------------------------------------------------------------------
(* The cache.                                                              *)

\* Rearranging a cache leaves its entries what they are.
LEMMA MoveToFrontSeq ==
  ASSUME NEW S, NEW c \in Seq(S), NEW x \in DOMAIN c
  PROVE  MoveToFront(c, x) \in Seq(S) /\ DOMAIN MoveToFront(c, x) = DOMAIN c
<1>1. DOMAIN c = 1 .. Len(c) /\ Len(c) \in Nat /\ c \in [1 .. Len(c) -> S]
  BY LenProperties
<1>2. MoveToFront(c, x) \in [1 .. Len(c) -> S]
  BY <1>1 DEF MoveToFront
<1>3. QED
  BY <1>1, <1>2, SeqDef

\* A cache of a key is found at an index it has.
LEMMA IndexOfHas ==
  ASSUME NEW c, NEW k, Has(c, k)
  PROVE  IndexOf(c, k) \in DOMAIN c /\ c[IndexOf(c, k)].key = k
BY DEF Has, IndexOf

\* get leaves entries of the same set.
LEMMA AfterGetSeq ==
  ASSUME NEW S, NEW c \in Seq(S), NEW k
  PROVE  AfterGet(c, k) \in Seq(S)
BY MoveToFrontSeq, IndexOfHas DEF AfterGet

\* put adds its entry at most.
LEMMA AfterPutSeq ==
  ASSUME NEW S, NEW c \in Seq(S), NEW k, NEW v, NEW capacity \in Int,
         [key |-> k, value |-> v] \in S
  PROVE  AfterPut(c, k, v, capacity) \in Seq(S)
<1> DEFINE entry == [key |-> k, value |-> v]
<1>1. CASE Has(c, k)
  <2> DEFINE m == MoveToFront(c, IndexOf(c, k))
  <2>1. m \in Seq(S)
    BY <1>1, MoveToFrontSeq, IndexOfHas
  <2>2. m \in [1 .. Len(m) -> S] /\ Len(m) \in Nat
    BY <2>1, LenProperties
  <2>3. [m EXCEPT ![1] = entry] \in [1 .. Len(m) -> S]
    BY <2>2
  <2>4. [m EXCEPT ![1] = entry] \in Seq(S)
    BY <2>2, <2>3, SeqDef
  <2>5. QED
    BY <1>1, <2>4 DEF AfterPut
<1>2. CASE ~ Has(c, k)
  <2> DEFINE longer == <<entry>> \o c
  <2>1. longer \in Seq(S) /\ Len(longer) \in Nat /\ Len(longer) >= 1
    <3>1. <<entry>> \in Seq(S) /\ Len(<<entry>>) = 1
      OBVIOUS
    <3>2. QED
      BY <3>1, ConcatProperties, LenProperties
  <2>2. SubSeq(longer, 1, Len(longer) - 1) \in Seq(S)
    <3> HIDE DEF longer
    <3>1. Len(longer) - 1 \in 1-1 .. Len(longer)
      BY <2>1
    <3>2. \A x \in 1 .. Len(longer) - 1 : longer[x] \in S
      BY <2>1, ElementOfSeq
    <3>3. QED
      BY <2>1, <3>1, <3>2, SubSeqProperties
  <2>3. QED
    BY <1>2, <2>1, <2>2 DEF AfterPut, Evict
<1>3. QED
  BY <1>1, <1>2

\* A chunk found in the cache is the chunk asked for.
LEMMA LookupCorrect ==
  ASSUME CacheCorrect, NEW k, Lookup(ec_cache, k) # NoValue
  PROVE  Lookup(ec_cache, k) = k /\ k \in Chunks
<1>1. Has(ec_cache, k) /\ Lookup(ec_cache, k) = ec_cache[IndexOf(ec_cache, k)].value
  BY DEF Lookup
<1>2. ec_cache[IndexOf(ec_cache, k)] \in CacheEntries
  BY <1>1, IndexOfHas, ElementOfSeq, LenProperties DEF CacheCorrect
<1>3. QED
  BY <1>1, <1>2, IndexOfHas DEF CacheEntries

-----------------------------------------------------------------------------
(* Addresses and positions.                                                *)

\* Division by ec_k, in either integer type, of what precedes a number in an int's range.
LEMMA NumberIsDivided ==
  ASSUME NEW b \in 1 .. IntMax
  PROVE  /\ EpochOfUnsigned(b) = EpochOfInt(b) /\ PosOfUnsigned(b) = PosOfInt(b)
         /\ EpochOfInt(b) \in Nat /\ PosOfInt(b) \in 0 .. ec_k - 1
         /\ b - 1 = ec_k * EpochOfInt(b) + PosOfInt(b)
<1> USE BlockNumbersAssumption
<1>1. b - 1 \in Nat /\ b - 1 <= IntMax /\ IntMax < Word /\ IntMax \in Int
  BY DEF IntMax
<1>2. \A y \in Nat : y <= IntMax => ToUnsigned(y) = y
  BY <1>1 DEF ToUnsigned
<1> DEFINE q == Quotient(b - 1)
           r == Remainder(b - 1)
<1>3. q \in 0 .. b - 1 /\ r \in 0 .. ec_k - 1 /\ b - 1 = ec_k * q + r
  <2>1. q = (b - 1) \div ec_k
    BY <1>1 DEF Quotient
  <2>2. /\ (b - 1) \div ec_k \in Nat
        /\ b - 1 = ec_k * ((b - 1) \div ec_k) + ((b - 1) % ec_k)
        /\ (b - 1) % ec_k \in 0 .. ec_k - 1
    BY <1>1
  <2>3. (b - 1) \div ec_k <= b - 1
    BY <2>2
  <2>4. QED
    BY <2>1, <2>2, <2>3 DEF Remainder
<1>4. ec_k * q \in Nat
  BY <1>3
<1>5. q \in Nat /\ r \in Nat /\ q <= IntMax /\ r <= IntMax
  BY <1>1, <1>3, <1>4
<1>6. EpochOfInt(b) = q /\ PosOfInt(b) = r
  BY <1>2, <1>5 DEF EpochOfInt, PosOfInt
<1>7. EpochOfUnsigned(b) = q /\ PosOfUnsigned(b) = r
  BY <1>1, <1>2, <1>5 DEF EpochOfUnsigned, PosOfUnsigned
<1>8. QED
  BY <1>3, <1>5, <1>6, <1>7

\* What a block number is taken apart into, whichever way.
LEMMA BlockAddress ==
  ASSUME NEW b \in Blocks
  PROVE  /\ ToInt(b) = b
         /\ EpochOfUnsigned(b) = EpochOfInt(b) /\ PosOfUnsigned(b) = PosOfInt(b)
         /\ EpochOfInt(b) \in Epochs /\ PosOfInt(b) \in DataPos
<1> USE BlockNumbersAssumption, NodeAssumption
<1>1. ec_k * (MaxEpoch + 1) \in Nat /\ IntMax \in Int /\ IntMax < Word
  BY DEF IntMax
<1>2. b \in 1 .. IntMax /\ b <= ec_k * (MaxEpoch + 1)
  BY <1>1 DEF Blocks
<1>3. ToInt(b) = b
  BY <1>1, <1>2 DEF ToInt, ToUnsigned
<1> DEFINE q == EpochOfInt(b)
           r == PosOfInt(b)
<1>4. /\ EpochOfUnsigned(b) = q /\ PosOfUnsigned(b) = r
      /\ q \in Nat /\ r \in 0 .. ec_k - 1 /\ b - 1 = ec_k * q + r
  BY <1>2, NumberIsDivided
<1> HIDE DEF q, r
<1>5. q <= MaxEpoch
  <2> SUFFICES ASSUME q >= MaxEpoch + 1 PROVE FALSE
    BY <1>4
  <2>1. ec_k * q >= ec_k * (MaxEpoch + 1)
    BY <1>4
  <2>2. ec_k * q \in Nat
    BY <1>4
  <2>3. QED
    BY <1>1, <1>2, <1>4, <2>1, <2>2
<1>6. QED
  BY <1>3, <1>4, <1>5 DEF q, r, Epochs, DataPos

\* The last block of an epoch is a block of it.
LEMMA LastBlockEpoch ==
  ASSUME NEW last \in LastBlocks
  PROVE  EpochOfInt(last) \in Epochs
<1>1. PICK e \in Epochs : last = ec_k * (e + 1)
  BY DEF LastBlocks
<1>2. e \in Nat /\ e + 1 <= MaxEpoch + 1 /\ e + 1 >= 1
  BY <1>1, NodeAssumption DEF Epochs
<1>3. ec_k * (e + 1) <= ec_k * (MaxEpoch + 1) /\ ec_k * (e + 1) \in Nat \ {0}
  <2>1. \A x, y \in Nat : x <= y => ec_k * x <= ec_k * y
    BY BlockNumbersAssumption
  <2>2. \A x \in Nat : x >= 1 => ec_k * x \in Nat \ {0}
    BY BlockNumbersAssumption
  <2>3. e + 1 \in Nat /\ MaxEpoch + 1 \in Nat /\ e + 1 >= 1
    BY <1>2, NodeAssumption
  <2>4. QED
    BY <1>2, <2>1, <2>2, <2>3
<1>4. last \in Blocks
  BY <1>1, <1>3, BlockNumbersAssumption, NodeAssumption DEF Blocks
<1>5. QED
  BY <1>4, BlockAddress

LEMMA PositionsAre ==
  /\ N \in Nat \ {0} /\ DataPos \subseteq Pos
  /\ NoIndex \notin Pos /\ 0 \in Pos /\ 0 \in DataPos /\ 0 \in Epochs
BY BlockNumbersAssumption, NodeAssumption DEF N, DataPos, Pos, NoIndex, Epochs

\* A sealer list gives the node at most one position, and a position is an index of
\* the list at which its own id stands.
LEMMA OwnPosition ==
  ASSUME NEW s \in Sealers
  PROVE  /\ SequenceInSealers(s) \in Pos \cup {NoIndex}
         /\ SequenceInSealers(s) \in Pos => s[SequenceInSealers(s)] = ec_nodeid
BY PositionsAre DEF SequenceInSealers, SequenceOf

\* saveChunk compares indices and computeBlocksInWhichNode ids: whatever the first
\* keeps the second looks for at this node.
LEMMA KeptIsOwned ==
  ASSUME NodeInv, NEW b \in Blocks,
         ec_position_in_sealers = SequenceInSealers(ec_sealers),
         KeepsData(EpochOfInt(b), PosOfInt(b))
  PROVE  IsOwner(b)
<1> DEFINE x == ChunkSet[EpochOfInt(b)][PosOfInt(b)]
<1>1. x \in Pos
  BY BlockAddress, PositionsAre, NodeAssumption
<1>2. x = SequenceInSealers(ec_sealers)
  BY DEF KeepsData
<1>3. ec_sealers[x] = ec_nodeid
  BY <1>1, <1>2, OwnPosition DEF NodeInv, TypeOK
<1>4. QED
  BY <1>3, BlockAddress DEF IsOwner, OwnerOf

-----------------------------------------------------------------------------
(* NodeInv is inductive.                                                   *)

\* The configuration and the disk as a call finds them.
DiskInv ==
  /\ ec_sealers \in Sealers
  /\ ec_position_in_sealers \in Pos \cup {NoIndex}
  /\ ec_db \in [Chunks -> Records \cup {NotFound}]
  /\ failed \subseteq Chunks /\ acked \subseteq Epochs
  /\ failures \in 0 .. MaxFailures /\ damages \in 0 .. MaxDamage
  /\ RecordsCorrect /\ AckedStored

\* A step that touches neither keeps them.
LEMMA DiskFrame ==
  ASSUME NodeInv, UNCHANGED <<config, disk>>
  PROVE  DiskInv'
BY DEF NodeInv, TypeOK, DiskInv, config, disk, RecordsCorrect, KeepsData, AckedStored

LEMMA NodeInit == Init => NodeInv
<1> SUFFICES ASSUME Init PROVE NodeInv
  OBVIOUS
<1>1. TypeOK
  BY PositionsAre, NodeAssumption
     DEF Init, TypeOK, NoPtrs, GeneratedPresent, N
<1>2. CacheCorrect
  BY EmptySeq DEF Init, CacheCorrect
<1>3. Configured /\ RecordsCorrect
  BY DEF Init, Configured, RecordsCorrect
<1>4. SavedSoFar /\ AckedStored /\ DecodedSoFar
  BY DEF Init, SavedSoFar, AckedStored, DecodedSoFar
<1>5. QED
  BY <1>1, <1>2, <1>3, <1>4 DEF NodeInv

\* The process ends: memory is empty, and the rest as it was.
LEMMA MemoryLost ==
  ASSUME NodeInv, LoseMemory, UNCHANGED <<config, disk>>,
         result' \in Results \cup {NoResult}
  PROVE  NodeInv'
<1>1. DiskInv'
  BY DiskFrame
<1>2. TypeOK'
  BY <1>1, PositionsAre
     DEF LoseMemory, TypeOK, DiskInv, NoPtrs, GeneratedPresent, N
<1>3. CacheCorrect'
  BY EmptySeq DEF LoseMemory, CacheCorrect
<1>4. Configured'
  BY DEF NodeInv, LoseMemory, Configured, config, disk, SequenceInSealers, SequenceOf
<1>5. SavedSoFar' /\ DecodedSoFar'
  BY DEF LoseMemory, SavedSoFar, DecodedSoFar
<1>6. QED
  BY <1>1, <1>2, <1>3, <1>4, <1>5 DEF NodeInv, DiskInv

LEMMA InitErasureStep == NodeInv /\ InitErasure => NodeInv'
<1> SUFFICES ASSUME NodeInv, InitErasure PROVE NodeInv'
  OBVIOUS
<1> USE DEF InitErasure, disk, decoding
<1>1. SequenceInSealers(ec_sealers) \in Pos \cup {NoIndex}
  BY OwnPosition DEF NodeInv, TypeOK
<1>2. TypeOK'
  BY <1>1 DEF NodeInv, TypeOK
<1>3. Configured'
  BY DEF Configured, SequenceInSealers, SequenceOf
<1>4. RecordsCorrect' /\ AckedStored'
  BY DEF NodeInv, Configured, RecordsCorrect, KeepsData, AckedStored
<1>5. CacheCorrect' /\ SavedSoFar' /\ DecodedSoFar'
  BY DEF NodeInv, CacheCorrect, SavedSoFar, DecodedSoFar
<1>6. QED
  BY <1>2, <1>3, <1>4, <1>5 DEF NodeInv

\* A process that runs has found its position.
LEMMA RunningIsConfigured ==
  ASSUME NodeInv, pc # "down"
  PROVE  ec_position_in_sealers = SequenceInSealers(ec_sealers)
BY DEF NodeInv, Configured

LEMMA SaveChunkStep ==
  ASSUME NodeInv, NEW last \in LastBlocks, SaveChunk(last)
  PROVE  NodeInv'
<1> USE DEF SaveChunk
<1>1. DiskInv'
  BY DiskFrame
<1>2. TypeOK'
  BY <1>1, LastBlockEpoch, PositionsAre DEF NodeInv, TypeOK, DiskInv, decoding
<1>3. CacheCorrect' /\ Configured'
  BY DEF NodeInv, CacheCorrect, Configured, config, disk, SequenceInSealers, SequenceOf
<1>4. SavedSoFar' /\ DecodedSoFar'
  BY DEF SavedSoFar, DecodedSoFar
<1>5. QED
  BY <1>1, <1>2, <1>3, <1>4 DEF NodeInv, DiskInv

LEMMA WriteDBStep ==
  ASSUME NodeInv, WriteDB
  PROVE  NodeInv'
<1> DEFINE key == <<epoch, i>>
<1>1. /\ pc = "saving" /\ i \in Pos /\ epoch \in Epochs /\ i + 1 \in 0 .. N
      /\ key \in Chunks /\ i' = i + 1
      /\ UNCHANGED <<config, acked, damages, complete_coding_epoch, pc, epoch, decoding>>
      /\ result' = NoResult
  BY PositionsAre DEF NodeInv, TypeOK, WriteDB, Pos, Chunks
<1>2. UNCHANGED <<ec_sealers, ec_position_in_sealers>>
  BY <1>1 DEF config
<1>3. /\ Record(epoch, i) \in Records
      /\ Record(epoch, i) # NotFound
      /\ Record(epoch, i).digest = key
      /\ Record(epoch, i).data = IF KeepsData(epoch, i) THEN key ELSE NoData
  BY <1>1, DistinctAssumption DEF Record, Records
<1>4. \/ /\ ec_db' = [ec_db EXCEPT ![key] = Record(epoch, i)]
         /\ failed' = failed \ {key} /\ failures' = failures
      \/ /\ failures < MaxFailures /\ failures' = failures + 1
         /\ failed' = failed \cup {key} /\ ec_db' = ec_db
  BY DEF WriteDB, PutOK, PutError
<1>5. CacheCorrect'
  <2>1. [key |-> key, value |-> key] \in CacheEntries
    BY <1>1 DEF CacheEntries
  <2>2. AfterPut(ec_cache, key, key, cache_capacity) \in Seq(CacheEntries)
    BY <2>1, AfterPutSeq, NodeAssumption DEF NodeInv, CacheCorrect
  <2>3. QED
    BY <2>2 DEF NodeInv, CacheCorrect, WriteDB, CacheEntries
<1>6. /\ ec_db' \in [Chunks -> Records \cup {NotFound}]
      /\ failed' \subseteq Chunks /\ failures' \in 0 .. MaxFailures
  BY <1>1, <1>3, <1>4, NodeAssumption DEF NodeInv, TypeOK
<1>7. TypeOK'
  BY <1>1, <1>2, <1>6 DEF NodeInv, TypeOK, decoding
<1>8. RecordsCorrect'
  BY <1>1, <1>2, <1>3, <1>4 DEF NodeInv, TypeOK, RecordsCorrect, KeepsData
<1>9. \A c \in Chunks : ec_db[c] # NotFound => ec_db'[c] # NotFound
  BY <1>1, <1>3, <1>4 DEF NodeInv, TypeOK
<1>10. AckedStored'
  BY <1>1, <1>9 DEF NodeInv, TypeOK, AckedStored, Chunks
<1>11. SavedSoFar'
  <2> SUFFICES ASSUME NEW p \in 0 .. i
               PROVE  ec_db'[<<epoch, p>>] # NotFound \/ <<epoch, p>> \in failed'
    BY <1>1 DEF SavedSoFar, Pos
  <2>1. CASE p = i
    BY <2>1, <1>1, <1>3, <1>4 DEF NodeInv, TypeOK
  <2>2. CASE p # i
    <3>1. p \in 0 .. i-1 /\ p \in Pos
      BY <2>2, <1>1, PositionsAre DEF Pos
    <3>2. ec_db[<<epoch, p>>] # NotFound \/ <<epoch, p>> \in failed
      BY <3>1, <1>1 DEF NodeInv, SavedSoFar
    <3>3. <<epoch, p>> \in Chunks /\ <<epoch, p>> # key
      BY <3>1, <2>2, <1>1 DEF Chunks
    <3>4. QED
      BY <3>2, <3>3, <1>4, <1>9
  <2>3. QED
    BY <2>1, <2>2
<1>12. Configured' /\ DecodedSoFar'
  BY <1>1, <1>2, RunningIsConfigured DEF Configured, DecodedSoFar, SequenceInSealers, SequenceOf
<1>13. QED
  BY <1>5, <1>7, <1>8, <1>10, <1>11, <1>12 DEF NodeInv

LEMMA SaveDoneStep ==
  ASSUME NodeInv, SaveDone
  PROVE  NodeInv'
<1> USE DEF SaveDone
<1>1. /\ UNCHANGED <<ec_sealers, ec_position_in_sealers, ec_db>>
      /\ pc' = "idle" /\ epoch \in Epochs
  BY DEF config, NodeInv, TypeOK
<1>2. TypeOK'
  <2>1. acked' \subseteq Epochs /\ complete_coding_epoch' \in Epochs
    BY <1>1 DEF NodeInv, TypeOK
  <2>2. epoch' \in Epochs /\ i' \in 0 .. N
    BY PositionsAre
  <2>3. QED
    BY <1>1, <2>1, <2>2 DEF NodeInv, TypeOK, decoding
<1>3. CacheCorrect' /\ Configured' /\ RecordsCorrect'
  BY <1>1, RunningIsConfigured
     DEF NodeInv, CacheCorrect, Configured, RecordsCorrect, KeepsData, SequenceInSealers, SequenceOf
<1>4. AckedStored'
  <2> SUFFICES ASSUME NEW e \in acked', NEW p \in Pos
               PROVE  ec_db[<<e, p>>] # NotFound
    BY <1>1 DEF AckedStored
  <2>1. CASE e \in acked
    BY <2>1 DEF NodeInv, AckedStored
  <2>2. CASE e \notin acked
    <3>1. e = epoch /\ <<epoch, p>> \notin failed /\ pc = "saving" /\ i = N
      BY <2>2
    <3>2. p \in 0 .. i-1
      BY <3>1 DEF Pos
    <3>3. QED
      BY <3>1, <3>2 DEF NodeInv, SavedSoFar
  <2>3. QED
    BY <2>1, <2>2
<1>5. SavedSoFar' /\ DecodedSoFar'
  BY DEF SavedSoFar, DecodedSoFar
<1>6. QED
  BY <1>2, <1>3, <1>4, <1>5 DEF NodeInv

-----------------------------------------------------------------------------
(* What calls return.                                                      *)

\* The block of a chunk is the chunk or nothing, and never the mark of an abort.
LEMMA BlockOfChunk ==
  ASSUME NEW key \in Chunks
  PROVE  /\ BlockOf(key) \in {key, NoValue} /\ BlockOf(Zero) = NoValue
         /\ Abort \notin {key, NoValue}
BY DistinctAssumption DEF BlockOf

\* A record gives the block of its key, unless it is damaged or has no data.
LEMMA LocalBlockOfRecord ==
  ASSUME NodeInv, NEW key \in Chunks, ec_db[key] # NotFound
  PROVE  /\ LocalBlock(ec_db[key]) \in {BlockOf(key), NoValue}
         /\ (KeepsData(key[1], key[2]) /\ ec_db[key].data # Damaged)
               => LocalBlock(ec_db[key]) = BlockOf(key)
<1>1. /\ ec_db[key].digest = key
      /\ ec_db[key].data \in IF KeepsData(key[1], key[2]) THEN {key, Damaged} ELSE {NoData}
  BY DEF NodeInv, RecordsCorrect
<1>2. QED
  BY <1>1, BlockOfChunk DEF LocalBlock

\* A call that returned is one of these.
LEMMA ReturnType ==
  ASSUME NEW op \in {"get", "local", "decode"}, NEW key \in Chunks,
         NEW value \in {key, NoValue, Abort}, NEW had \in BOOLEAN
  PROVE  [op |-> op, key |-> key, value |-> value, had |-> had] \in Results
BY DEF Results

\* What a read in a state leaves behind as its result: the abort of a key that is not
\* in the database, or the block or nothing; and the block if it is this node's own.
ReadResult(op, key) ==
  \E value \in {BlockOf(key), NoValue, Abort} :
    /\ Return(op, key, value)
    /\ value = Abort => ec_db[key] = NotFound
    /\ (KeepsData(key[1], key[2]) /\ ec_db[key] # NotFound /\ ec_db[key].data # Damaged)
          => value = BlockOf(key)

\* A step that changes the cache and the result at most.
LEMMA ReadFrame ==
  ASSUME NodeInv, NEW op \in {"get", "local"}, NEW key \in Chunks,
         ReadResult(op, key), ec_cache' \in Seq(CacheEntries),
         UNCHANGED <<config, disk, complete_coding_epoch, pc, epoch, i, decoding>>
  PROVE  NodeInv'
<1>1. DiskInv'
  BY DiskFrame
<1>2. result' \in Results
  BY ReturnType, BlockOfChunk DEF ReadResult, Return
<1>3. TypeOK'
  BY <1>1, <1>2 DEF NodeInv, TypeOK, DiskInv, decoding
<1>4. CacheCorrect'
  BY DEF CacheCorrect, CacheEntries, Chunks
<1>5. Configured'
  BY DEF NodeInv, Configured, config, disk, SequenceInSealers, SequenceOf
<1>6. SavedSoFar' /\ DecodedSoFar'
  BY DEF NodeInv, SavedSoFar, DecodedSoFar, disk, decoding
<1>7. QED
  BY <1>1, <1>3, <1>4, <1>5, <1>6 DEF NodeInv, DiskInv

LEMMA AbortReadStep ==
  ASSUME NodeInv, NEW op \in {"get", "local"}, NEW key \in Chunks, AbortRead(op, key)
  PROVE  NodeInv' /\ ReadResult(op, key)
<1>1. ReadResult(op, key)
  BY BlockOfChunk DEF AbortRead, ReadResult
<1>2. result' \in Results
  BY ReturnType DEF AbortRead, Return
<1>3. QED
  BY <1>1, <1>2, MemoryLost DEF AbortRead

LEMMA GetBlockByNumberStep ==
  ASSUME NodeInv, NEW b \in Blocks, GetBlockByNumber(b)
  PROVE  /\ NodeInv' /\ UNCHANGED <<config, disk>>
         /\ <<EpochOfInt(b), PosOfInt(b)>> \in Chunks
         /\ ReadResult("get", <<EpochOfInt(b), PosOfInt(b)>>)
<1> DEFINE key   == <<EpochOfUnsigned(b), PosOfUnsigned(b)>>
           chunk == Lookup(ec_cache, key)
<1>1. key \in Chunks /\ key = <<EpochOfInt(b), PosOfInt(b)>>
  BY BlockAddress, PositionsAre DEF Chunks
<1>2. ec_cache \in Seq(CacheEntries) /\ pc = "idle"
  BY DEF NodeInv, CacheCorrect, GetBlockByNumber
<1>3. CASE /\ chunk # NoValue
           /\ ec_cache' = AfterGet(ec_cache, key)
           /\ Return("get", key, BlockOf(chunk))
           /\ UNCHANGED <<config, disk, complete_coding_epoch, pc, epoch, i, decoding>>
  <2>1. chunk = key
    BY <1>3, LookupCorrect DEF NodeInv
  <2>2. ReadResult("get", key)
    BY <1>1, <1>3, <2>1, BlockOfChunk DEF ReadResult
  <2>3. ec_cache' \in Seq(CacheEntries)
    BY <1>2, <1>3, AfterGetSeq
  <2>4. QED
    BY <1>1, <1>3, <2>2, <2>3, ReadFrame
<1>4. CASE /\ chunk = NoValue
           /\ ~ IsOwner(b)
           /\ Return("get", key, NoValue)
           /\ UNCHANGED <<config, disk, ec_cache, complete_coding_epoch, pc, epoch, i, decoding>>
  <2>1. ~ KeepsData(key[1], key[2])
    BY <1>1, <1>2, <1>4, KeptIsOwned, RunningIsConfigured
  <2>2. ReadResult("get", key)
    BY <1>1, <1>4, <2>1, BlockOfChunk DEF ReadResult
  <2>3. QED
    BY <1>1, <1>2, <1>4, <2>2, ReadFrame
<1>5. CASE /\ ec_db[key] # NotFound
           /\ Return("get", key, LocalBlock(ec_db[key]))
           /\ UNCHANGED <<config, disk, ec_cache, complete_coding_epoch, pc, epoch, i, decoding>>
  <2>1. ReadResult("get", key)
    BY <1>1, <1>5, LocalBlockOfRecord, BlockOfChunk DEF ReadResult
  <2>2. QED
    BY <1>1, <1>2, <1>5, <2>1, ReadFrame
<1>6. CASE AbortRead("get", key)
  BY <1>1, <1>6, AbortReadStep DEF AbortRead
<1> HIDE DEF key, chunk
<1>7. QED
  BY <1>1, <1>3, <1>4, <1>5, <1>6 DEF GetBlockByNumber, key, chunk

LEMMA LocalReadBlockStep ==
  ASSUME NodeInv, NEW key \in Chunks, LocalReadBlock(key)
  PROVE  NodeInv' /\ UNCHANGED <<config, disk>> /\ ReadResult("local", key)
<1>1. CASE /\ ec_db[key] # NotFound
           /\ Return("local", key, LocalBlock(ec_db[key]))
           /\ UNCHANGED <<config, disk, ec_cache, complete_coding_epoch, pc, epoch, i, decoding>>
  <2>1. ReadResult("local", key)
    BY <1>1, LocalBlockOfRecord, BlockOfChunk DEF ReadResult
  <2>2. ec_cache' \in Seq(CacheEntries)
    BY <1>1 DEF NodeInv, CacheCorrect
  <2>3. QED
    BY <1>1, <2>1, <2>2, ReadFrame
<1>2. CASE AbortRead("local", key)
  BY <1>2, AbortReadStep DEF AbortRead
<1>3. QED
  BY <1>1, <1>2 DEF LocalReadBlock

LEMMA DecodeBeginStep ==
  ASSUME NodeInv, NEW b \in Blocks, DecodeBegin(b)
  PROVE  NodeInv'
<1> USE DEF DecodeBegin
<1>1. DiskInv'
  BY DiskFrame
<1>2. ptrs' \in [Pos -> Chunks \cup {Zero}] /\ present' \in [Pos -> BOOLEAN]
  BY DEF NoPtrs, GeneratedPresent
<1>3. TypeOK'
  BY <1>1, <1>2, BlockAddress DEF NodeInv, TypeOK, DiskInv
<1>4. CacheCorrect' /\ Configured'
  BY DEF NodeInv, CacheCorrect, Configured, config, disk, SequenceInSealers, SequenceOf
<1>5. SavedSoFar' /\ DecodedSoFar'
  BY DEF SavedSoFar, DecodedSoFar, NoPtrs, GeneratedPresent
<1>6. QED
  BY <1>1, <1>3, <1>4, <1>5 DEF NodeInv, DiskInv

LEMMA DecodeInputStep ==
  ASSUME NodeInv, NEW seq \in Pos, DecodeInput(seq, <<epoch, seq>>)
  PROVE  NodeInv'
<1> USE DEF DecodeInput
<1>1. DiskInv'
  BY DiskFrame
<1>2. <<epoch, seq>> \in Chunks
  BY DEF NodeInv, TypeOK, Chunks
<1>3. TypeOK'
  BY <1>1, <1>2 DEF NodeInv, TypeOK, DiskInv
<1>4. CacheCorrect'
  <2>1. [key |-> <<epoch, seq>>, value |-> <<epoch, seq>>] \in CacheEntries
    BY <1>2 DEF CacheEntries
  <2>2. AfterPut(ec_cache, <<epoch, seq>>, <<epoch, seq>>, cache_capacity) \in Seq(CacheEntries)
    BY <2>1, AfterPutSeq, NodeAssumption DEF NodeInv, CacheCorrect
  <2>3. QED
    BY <2>2 DEF CacheCorrect, CacheEntries
<1>5. Configured' /\ SavedSoFar'
  BY DEF NodeInv, Configured, SavedSoFar, config, disk, SequenceInSealers, SequenceOf
<1>6. DecodedSoFar'
  BY DEF NodeInv, TypeOK, DecodedSoFar
<1>7. QED
  BY <1>1, <1>3, <1>4, <1>5, <1>6 DEF NodeInv, DiskInv

\* What decode returns: the chunk of the target if it was among the inputs, and
\* otherwise nothing.
LEMMA DecodeEndStep ==
  ASSUME NodeInv, DecodeEnd
  PROVE  /\ NodeInv'
         /\ \E key \in Chunks :
              /\ result'.op = "decode" /\ result'.key = key
              /\ result'.value \in {BlockOf(key), NoValue}
              /\ result'.had => result'.value = BlockOf(key)
<1> USE DEF DecodeEnd
<1> DEFINE key   == <<epoch, pos>>
           chunk == Recover(epoch, ptrs, present)[pos]
           had   == pos \in received
<1>1. key \in Chunks /\ pos \in Pos /\ pc = "decoding" /\ received \subseteq Pos
  BY PositionsAre DEF NodeInv, TypeOK, Chunks
<1>2. \A p \in Pos : present[p] /\ ptrs[p] = IF p \in received THEN <<epoch, p>> ELSE Zero
  BY <1>1 DEF NodeInv, DecodedSoFar
<1>3. chunk = ptrs[pos]
  BY <1>1, <1>2 DEF Recover
<1>4. chunk = IF pos \in received THEN key ELSE Zero
  BY <1>1, <1>2, <1>3
<1>5. /\ BlockOf(chunk) \in {BlockOf(key), NoValue}
      /\ BlockOf(chunk) \in {key, NoValue}
      /\ had => BlockOf(chunk) = BlockOf(key)
  BY <1>1, <1>4, BlockOfChunk
<1>6. /\ result' = [op |-> "decode", key |-> key, value |-> BlockOf(chunk), had |-> had]
      /\ had \in BOOLEAN
  OBVIOUS
<1> HIDE DEF key, chunk, had
<1>7. /\ result' \in Results
      /\ result'.op = "decode" /\ result'.key = key /\ result'.value = BlockOf(chunk)
      /\ result'.had = had
  BY <1>1, <1>5, <1>6, ReturnType
<1>8. DiskInv'
  BY DiskFrame
<1>9. TypeOK'
  BY <1>7, <1>8, PositionsAre DEF NodeInv, TypeOK, DiskInv, NoPtrs, GeneratedPresent
<1>10. CacheCorrect' /\ Configured'
  BY DEF NodeInv, CacheCorrect, Configured, config, disk, SequenceInSealers, SequenceOf
<1>11. SavedSoFar' /\ DecodedSoFar'
  BY DEF SavedSoFar, DecodedSoFar
<1>12. QED
  BY <1>1, <1>5, <1>7, <1>8, <1>9, <1>10, <1>11 DEF NodeInv, DiskInv

LEMMA CrashStep == NodeInv /\ Crash => NodeInv'
BY MemoryLost DEF Crash

LEMMA DamageRecordStep ==
  ASSUME NodeInv, NEW key \in Chunks, DamageRecord(key)
  PROVE  NodeInv'
<1> USE DEF DamageRecord
<1>1. UNCHANGED <<ec_sealers, ec_position_in_sealers, failed, acked, failures>>
  BY DEF config
<1>2. /\ ec_db[key] \in Records /\ ec_db[key] # NotFound
      /\ KeepsData(key[1], key[2])
  BY DEF NodeInv, TypeOK, RecordsCorrect
<1> DEFINE new == [ec_db[key] EXCEPT !.data = Damaged]
<1>3. /\ new \in Records /\ new # NotFound
      /\ new.digest = ec_db[key].digest /\ new.data = Damaged
  BY <1>2, DistinctAssumption DEF Records
<1>4. ec_db' = [ec_db EXCEPT ![key] = new]
  OBVIOUS
<1> HIDE DEF new
<1>5. ec_db' \in [Chunks -> Records \cup {NotFound}]
  BY <1>3, <1>4 DEF NodeInv, TypeOK
<1>6. \A c \in Chunks : ec_db[c] # NotFound <=> ec_db'[c] # NotFound
  BY <1>2, <1>3, <1>4 DEF NodeInv, TypeOK
<1>7. damages' \in 0 .. MaxDamage
  BY NodeAssumption DEF NodeInv, TypeOK
<1>8. TypeOK'
  BY <1>1, <1>5, <1>7 DEF NodeInv, TypeOK, decoding
<1>9. RecordsCorrect'
  BY <1>1, <1>2, <1>3, <1>4 DEF NodeInv, TypeOK, RecordsCorrect, KeepsData
<1>10. AckedStored' /\ SavedSoFar'
  <2>1. AckedStored'
    BY <1>1, <1>6 DEF NodeInv, TypeOK, AckedStored, Chunks
  <2>2. \A p \in 0 .. i-1 : <<epoch, p>> \in Chunks
    BY PositionsAre DEF NodeInv, TypeOK, Chunks, Pos
  <2>3. SavedSoFar'
    BY <1>1, <1>6, <2>2 DEF NodeInv, SavedSoFar
  <2>4. QED
    BY <2>1, <2>3
<1>11. Configured'
  BY <1>1, <1>2 DEF NodeInv, Configured, SequenceInSealers, SequenceOf
<1>12. CacheCorrect' /\ DecodedSoFar'
  BY DEF NodeInv, CacheCorrect, DecodedSoFar, decoding
<1>13. QED
  BY <1>8, <1>9, <1>10, <1>11, <1>12 DEF NodeInv

-----------------------------------------------------------------------------
(* The theorems.                                                           *)

\* The four properties of what a call returned.
ResultInv ==
  NoWrongBlock /\ OwnBlockStaysReadable /\ AbortOnlyIfNotSaved /\ DecodeKeepsReceived

LEMMA NothingReturned ==
  ASSUME result' = NoResult
  PROVE  ResultInv'
BY DEF ResultInv, NoWrongBlock, OwnBlockStaysReadable, AbortOnlyIfNotSaved, DecodeKeepsReceived

LEMMA ReadReturned ==
  ASSUME NodeInv, UNCHANGED <<config, disk>>,
         NEW op \in {"get", "local"}, NEW key \in Chunks, ReadResult(op, key)
  PROVE  ResultInv'
<1>1. PICK value \in {BlockOf(key), NoValue, Abort} :
        /\ Return(op, key, value)
        /\ value = Abort => ec_db[key] = NotFound
        /\ (KeepsData(key[1], key[2]) /\ ec_db[key] # NotFound /\ ec_db[key].data # Damaged)
              => value = BlockOf(key)
  BY DEF ReadResult
<1>2. /\ result'.op = op /\ result'.key = key /\ result'.value = value
      /\ value \in {key, NoValue, Abort}
  BY <1>1, BlockOfChunk DEF Return
<1>3. key[1] \in acked => ec_db[key] # NotFound
  BY DEF NodeInv, AckedStored, Chunks
<1>4. UNCHANGED <<acked, ec_db, ec_position_in_sealers>>
  BY DEF config, disk
<1>5. NoWrongBlock' /\ DecodeKeepsReceived'
  BY <1>2 DEF NoWrongBlock, DecodeKeepsReceived
<1>6. OwnBlockStaysReadable'
  BY <1>1, <1>2, <1>3, <1>4 DEF OwnBlockStaysReadable, KeepsData, BlockOf
<1>7. AbortOnlyIfNotSaved'
  BY <1>1, <1>2, <1>3, <1>4 DEF AbortOnlyIfNotSaved
<1>8. QED
  BY <1>5, <1>6, <1>7 DEF ResultInv

LEMMA NodeStep ==
  ASSUME NodeInv, Next
  PROVE  NodeInv' /\ ResultInv'
<1>1. ASSUME InitErasure PROVE NodeInv' /\ ResultInv'
  BY <1>1, InitErasureStep, NothingReturned DEF InitErasure
<1>2. ASSUME NEW last \in LastBlocks, SaveChunk(last) PROVE NodeInv' /\ ResultInv'
  BY <1>2, SaveChunkStep, NothingReturned DEF SaveChunk
<1>3. ASSUME SaveStep PROVE NodeInv' /\ ResultInv'
  <2>1. CASE WriteDB
    BY <2>1, WriteDBStep, NothingReturned DEF WriteDB
  <2>2. CASE SaveDone
    BY <2>2, SaveDoneStep, NothingReturned DEF SaveDone
  <2>3. QED
    BY <1>3, <2>1, <2>2 DEF SaveStep
<1>4. ASSUME NEW b \in Blocks, GetBlockByNumber(b) PROVE NodeInv' /\ ResultInv'
  BY <1>4, GetBlockByNumberStep, ReadReturned
<1>5. ASSUME NEW b \in Blocks, DecodeBegin(b) PROVE NodeInv' /\ ResultInv'
  BY <1>5, DecodeBeginStep, NothingReturned DEF DecodeBegin
<1>6. ASSUME NEW key \in Epochs \X DataPos, LocalReadBlock(key) PROVE NodeInv' /\ ResultInv'
  <2>1. key \in Chunks
    BY NodeAssumption, BlockNumbersAssumption DEF Chunks, DataPos, Pos, N
  <2>2. QED
    BY <1>6, <2>1, LocalReadBlockStep, ReadReturned
<1>7. ASSUME NEW key \in Chunks, DamageRecord(key) PROVE NodeInv' /\ ResultInv'
  BY <1>7, DamageRecordStep, NothingReturned DEF DamageRecord
<1>8. ASSUME NEW seq \in Pos, DecodeInput(seq, <<epoch, seq>>) PROVE NodeInv' /\ ResultInv'
  BY <1>8, DecodeInputStep, NothingReturned DEF DecodeInput
<1>9. ASSUME DecodeEnd PROVE NodeInv' /\ ResultInv'
  <2>1. PICK key \in Chunks :
          /\ result'.op = "decode" /\ result'.key = key
          /\ result'.value \in {BlockOf(key), NoValue}
          /\ result'.had => result'.value = BlockOf(key)
    BY <1>9, DecodeEndStep
  <2>2. BlockOf(key) \in {key, NoValue} /\ Abort \notin {key, NoValue}
    BY BlockOfChunk
  <2>3. ResultInv'
    BY <2>1, <2>2
       DEF ResultInv, NoWrongBlock, OwnBlockStaysReadable, AbortOnlyIfNotSaved,
           DecodeKeepsReceived, BlockOf
  <2>4. QED
    BY <1>9, <2>3, DecodeEndStep
<1>10. ASSUME Crash PROVE NodeInv' /\ ResultInv'
  BY <1>10, CrashStep, NothingReturned DEF Crash
<1>11. QED
  BY <1>1, <1>2, <1>3, <1>4, <1>5, <1>6, <1>7, <1>8, <1>9, <1>10 DEF Next

\* A step that changes nothing.
LEMMA NodeStutter ==
  ASSUME NodeInv, ResultInv, UNCHANGED vars
  PROVE  NodeInv' /\ ResultInv'
<1> USE DEF vars, config, disk, decoding
<1>1. TypeOK' /\ CacheCorrect'
  BY DEF NodeInv, TypeOK, CacheCorrect
<1>2. Configured' /\ RecordsCorrect'
  BY DEF NodeInv, Configured, RecordsCorrect, SequenceInSealers, SequenceOf, KeepsData
<1>3. SavedSoFar' /\ AckedStored' /\ DecodedSoFar'
  BY DEF NodeInv, SavedSoFar, AckedStored, DecodedSoFar
<1>4. ResultInv'
  BY DEF ResultInv, NoWrongBlock, OwnBlockStaysReadable, AbortOnlyIfNotSaved,
         DecodeKeepsReceived, KeepsData, BlockOf
<1>5. QED
  BY <1>1, <1>2, <1>3, <1>4 DEF NodeInv

LEMMA NodeAlways == Spec => [](NodeInv /\ ResultInv)
<1>1. Init => NodeInv /\ ResultInv
  BY NodeInit
     DEF Init, ResultInv, NoWrongBlock, OwnBlockStaysReadable, AbortOnlyIfNotSaved,
         DecodeKeepsReceived
<1>2. NodeInv /\ ResultInv /\ [Next]_vars => (NodeInv /\ ResultInv)'
  BY NodeStep, NodeStutter
<1>3. QED
  BY <1>1, <1>2, PTL DEF Spec

\* What NodeInv says holds in every state of a node: of its cache, its records and
\* the loops of saveChunk and decode, whatever crashes and failed Puts come between.
THEOREM NodeInvariant == Spec => []NodeInv
BY NodeAlways, PTL

\* No call returns another block than the one it was asked for.
THEOREM ReturnsNoWrongBlock == Spec => []NoWrongBlock
<1>1. ResultInv => NoWrongBlock
  BY DEF ResultInv
<1>2. QED
  BY <1>1, NodeAlways, PTL

\* The block a node owns stays readable once a save of its epoch went through.
THEOREM OwnBlockReadable == Spec => []OwnBlockStaysReadable
<1>1. ResultInv => OwnBlockStaysReadable
  BY DEF ResultInv
<1>2. QED
  BY <1>1, NodeAlways, PTL

\* The assertion of readChunk never fails for an epoch that was saved.
THEOREM NoAbortOnceSaved == Spec => []AbortOnlyIfNotSaved
<1>1. ResultInv => AbortOnlyIfNotSaved
  BY DEF ResultInv
<1>2. QED
  BY <1>1, NodeAlways, PTL

\* decode returns the chunk of its target if it was among the inputs.
THEOREM DecodeReturnsReceived == Spec => []DecodeKeepsReceived
<1>1. ResultInv => DecodeKeepsReceived
  BY DEF ResultInv
<1>2. QED
  BY <1>1, NodeAlways, PTL

\* The placement of an epoch gives every node index exactly one chunk.
LEMMA PlacementOnto ==
  ASSUME NEW e \in Epochs, NEW x \in Pos
  PROVE  \E p \in Pos : ChunkSet[e][p] = x
<1>1. IsFiniteSet(Pos)
  BY PositionsAre, FS_Interval DEF Pos
<1>2. ChunkSet[e] \in Injection(Pos, Pos)
  BY NodeAssumption DEF Injection, IsInjective
<1>3. ChunkSet[e] \in Surjection(Pos, Pos)
  BY <1>1, <1>2, FS_Injection
<1>4. QED
  BY <1>3 DEF Surjection

LEMMA OneDataChunk == NodeInv => OneDataChunkPerEpoch
<1> SUFFICES ASSUME NodeInv, NEW e \in Epochs
             PROVE  LET kept == { p \in Pos : /\ ec_db[<<e, p>>] # NotFound
                                              /\ ec_db[<<e, p>>].data # NoData }
                    IN  /\ Cardinality(kept) <= 1
                        /\ e \in acked =>
                             ((kept # {}) <=> \E x \in Pos : ec_sealers[x] = ec_nodeid)
  BY DEF OneDataChunkPerEpoch
<1> DEFINE kept == { p \in Pos : /\ ec_db[<<e, p>>] # NotFound
                                 /\ ec_db[<<e, p>>].data # NoData }
<1>1. \A p \in kept : p \in Pos /\ ChunkSet[e][p] = ec_position_in_sealers
  BY DEF NodeInv, RecordsCorrect, KeepsData, Chunks
<1>2. \A p, q \in kept : p = q
  BY <1>1, NodeAssumption
<1>3. Cardinality(kept) <= 1
  <2> HIDE DEF kept
  <2>1. CASE kept = {}
    <3>1. Cardinality(kept) = 0
      BY <2>1, FS_EmptySet
    <3>2. QED
      BY <3>1
  <2>2. CASE kept # {}
    <3>1. PICK p \in kept : kept = {p}
      BY <2>2, <1>2
    <3>2. Cardinality(kept) = 1
      BY <3>1, FS_Singleton
    <3>3. QED
      BY <3>2
  <2>3. QED
    BY <2>1, <2>2
<1>4. ASSUME e \in acked, kept # {}
      PROVE  \E x \in Pos : ec_sealers[x] = ec_nodeid
  <2>1. PICK p \in kept : ChunkSet[e][p] = ec_position_in_sealers /\ p \in Pos
    BY <1>1, <1>4
  <2>2. ec_position_in_sealers \in Pos
    BY <2>1, NodeAssumption
  <2>3. ec_position_in_sealers = SequenceInSealers(ec_sealers)
    BY <1>4 DEF NodeInv, Configured
  <2>4. QED
    BY <2>2, <2>3, OwnPosition DEF NodeInv, TypeOK
<1>5. ASSUME e \in acked, \E x \in Pos : ec_sealers[x] = ec_nodeid
      PROVE  kept # {}
  <2>1. ec_position_in_sealers = SequenceInSealers(ec_sealers)
    BY <1>5 DEF NodeInv, Configured
  <2>2. ec_position_in_sealers \in Pos
    BY <1>5, <2>1 DEF SequenceInSealers, SequenceOf
  <2>3. PICK p \in Pos : ChunkSet[e][p] = ec_position_in_sealers
    BY <2>2, PlacementOnto
  <2>4. <<e, p>> \in Chunks /\ ec_db[<<e, p>>] # NotFound
    BY <1>5 DEF NodeInv, AckedStored, Chunks
  <2>5. ec_db[<<e, p>>].data \in {<<e, p>>, Damaged}
    BY <2>3, <2>4 DEF NodeInv, RecordsCorrect, KeepsData
  <2>6. p \in kept
    BY <2>4, <2>5, DistinctAssumption
  <2>7. QED
    BY <2>6
<1>6. QED
  BY <1>3, <1>4, <1>5

\* Over all nodes a chunk's data is stored once: a node that is a sealer stores the
\* data of exactly one chunk of every saved epoch.
THEOREM StoresOneDataChunk == Spec => []OneDataChunkPerEpoch
BY NodeAlways, OneDataChunk, PTL

LEMMA CompleteStep ==
  ASSUME NodeInv, CompleteUpToFailedPuts, [Next]_vars
  PROVE  CompleteUpToFailedPuts'
<1> SUFFICES ASSUME complete_coding_epoch' # -1, NEW p \in Pos
             PROVE  LET key == <<complete_coding_epoch', p>>
                    IN  ec_db'[key] = NotFound => key \in failed'
  BY DEF CompleteUpToFailedPuts
<1>1. CASE complete_coding_epoch' = complete_coding_epoch /\ UNCHANGED <<ec_db, failed>>
  BY <1>1 DEF CompleteUpToFailedPuts
<1>2. CASE WriteDB
  <2>1. complete_coding_epoch' = complete_coding_epoch /\ <<epoch, i>> \in Chunks
    BY <1>2, PositionsAre DEF WriteDB, NodeInv, TypeOK, Chunks, Pos
  <2>2. <<complete_coding_epoch, p>> \in Chunks
    BY <1>2, <2>1 DEF NodeInv, TypeOK, Chunks
  <2>3. Record(epoch, i) # NotFound
    BY <2>1, DistinctAssumption DEF Record, Records, Chunks
  <2>4. QED
    BY <1>2, <2>1, <2>2, <2>3 DEF WriteDB, PutOK, PutError, CompleteUpToFailedPuts, NodeInv, TypeOK
<1>3. CASE SaveDone
  <2>1. complete_coding_epoch' = epoch /\ UNCHANGED <<ec_db, failed>> /\ pc = "saving" /\ i = N
    BY <1>3 DEF SaveDone
  <2>2. p \in 0 .. i-1
    BY <2>1 DEF Pos
  <2>3. QED
    BY <2>1, <2>2 DEF NodeInv, SavedSoFar
<1>4. ASSUME NEW key \in Chunks, DamageRecord(key)
      PROVE  LET k == <<complete_coding_epoch', p>>
             IN  ec_db'[k] = NotFound => k \in failed'
  <2>1. complete_coding_epoch' = complete_coding_epoch /\ failed' = failed
    BY <1>4 DEF DamageRecord
  <2>2. <<complete_coding_epoch, p>> \in Chunks
    BY <2>1 DEF NodeInv, TypeOK, Chunks
  <2>3. ec_db'[<<complete_coding_epoch, p>>] = NotFound
           => ec_db[<<complete_coding_epoch, p>>] = NotFound
    <3>1. [ec_db[key] EXCEPT !.data = Damaged] # NotFound
      BY <1>4, DistinctAssumption DEF DamageRecord, NodeInv, TypeOK, Records
    <3>2. QED
      BY <1>4, <2>2, <3>1 DEF DamageRecord, NodeInv, TypeOK
  <2>4. QED
    BY <2>1, <2>3 DEF CompleteUpToFailedPuts
<1>5. CASE LoseMemory
  BY <1>5 DEF LoseMemory
<1>6. QED
  BY <1>1, <1>2, <1>3, <1>4, <1>5
     DEF Next, vars, disk, SaveStep, InitErasure, SaveChunk, GetBlockByNumber, AbortRead,
         LocalReadBlock, DecodeBegin, DecodeInput, DecodeEnd, Crash

\* A save skips no chunk: what is missing of the epoch recorded as complete is missing
\* because its Put failed.
THEOREM CompleteButForFailures == Spec => []CompleteUpToFailedPuts
<1>1. Init => CompleteUpToFailedPuts
  BY DEF Init, CompleteUpToFailedPuts
<1>2. QED
  BY <1>1, CompleteStep, NodeAlways, PTL DEF Spec
-----------------------------------------------------------------------------
(* Ids and the texts that spell them.                                      *)

\* A sequence with one more element in front, as fromHex and a plain text have it if
\* their length is odd.
Pad(zero, r, d) == IF r = 1 THEN <<zero>> \o d ELSE d

LEMMA PaddedIs ==
  ASSUME NEW S, NEW zero \in S, NEW n \in Nat, NEW r \in {0, 1}, NEW d \in [1 .. n -> S]
  PROVE  /\ Pad(zero, r, d) \in [1 .. n + r -> S] /\ Len(Pad(zero, r, d)) = n + r
         /\ \A x \in 1 .. n + r : Pad(zero, r, d)[x] = IF x - r = 0 THEN zero ELSE d[x - r]
<1>1. d \in Seq(S) /\ Len(d) = n
  BY SeqDef
<1> DEFINE p == Pad(zero, r, d)
<1>2. CASE r = 1
  <2> DEFINE one == <<zero>>
             q == one \o d
  <2>1. one \in Seq(S) /\ Len(one) = 1 /\ one[1] = zero
    OBVIOUS
  <2>2. p = q
    BY <1>2 DEF Pad
  <2> HIDE DEF one, p
  <2>3. /\ q \in Seq(S) /\ Len(q) = 1 + n
        /\ \A x \in 1 .. 1 + n : q[x] = IF x <= 1 THEN one[x] ELSE d[x - 1]
    <3>1. /\ one \o d \in Seq(S) /\ Len(one \o d) = Len(one) + Len(d)
          /\ \A x \in 1 .. Len(one) + Len(d) :
               (one \o d)[x] = IF x <= Len(one) THEN one[x] ELSE d[x - Len(one)]
      BY <1>1, <2>1, ConcatProperties
    <3> HIDE DEF q
    <3>2. QED
      BY <1>1, <2>1, <3>1 DEF q
  <2> HIDE DEF q
  <2>4. q \in [1 .. 1 + n -> S]
    BY <2>3, LenProperties
  <2>5. \A x \in 1 .. 1 + n : q[x] = IF x - 1 = 0 THEN zero ELSE d[x - 1]
    BY <2>1, <2>3
  <2>6. 1 + n = n + r
    BY <1>2
  <2>7. QED
    BY <1>2, <2>2, <2>3, <2>4, <2>5, <2>6 DEF p
<1>3. CASE r = 0
  <2>1. p = d
    BY <1>3 DEF Pad
  <2>2. n + r = n /\ \A x \in 1 .. n : x - r = x /\ x # 0
    BY <1>3
  <2> HIDE DEF p
  <2>3. QED
    BY <1>1, <2>1, <2>2 DEF p
<1>4. QED
  BY <1>2, <1>3

\* A capital in small letters.
Small(c) == IF c \in UpperA .. UpperF THEN c + (LowerA - UpperA) ELSE c

\* A digit is its number written in small letters, and is not the x of a prefix.
LEMMA CharacterIs ==
  ASSUME NEW c \in Nat, FromHexChar(c) # -1
  PROVE  /\ FromHexChar(c) \in 0 .. 15 /\ c # LowerX
         /\ Small(c) = HexDigit(FromHexChar(c)) 
BY DEF FromHexChar, Small, HexDigit, Digit0, Digit9, UpperA, UpperF, LowerA, LowerF, LowerX

\* Reading the digit of a number gives the number.
LEMMA HexDigitIs ==
  ASSUME NEW d \in 0 .. 15
  PROVE  HexDigit(d) \in Nat /\ HexDigit(d) # LowerX /\ FromHexChar(HexDigit(d)) = d
BY DEF FromHexChar, HexDigit, Digit0, Digit9, UpperA, UpperF, LowerA, LowerF, LowerX

\* The parts of FromHex: the length of the prefix, the digits, and their padding.
Prefix(text) == IF Len(text) >= 2 /\ text[1] = Digit0 /\ text[2] = LowerX THEN 2 ELSE 0
DigitsOf(text) == [x \in 1 .. Len(text) - Prefix(text) |-> FromHexChar(text[Prefix(text) + x])]
Padded(text) == IF Len(text) % 2 = 1 THEN <<0>> \o DigitsOf(text) ELSE DigitsOf(text)

\* A prefix does not change whether the length is odd.
LEMMA PrefixIs ==
  ASSUME NEW text \in Seq(Nat)
  PROVE  /\ Len(text) \in Nat /\ Prefix(text) \in {0, 2}
         /\ Len(text) - Prefix(text) \in Nat
         /\ (Len(text) - Prefix(text)) % 2 = Len(text) % 2
         /\ \A x \in 1 .. Len(text) : text[x] \in Nat
<1>1. Len(text) \in Nat /\ \A x \in 1 .. Len(text) : text[x] \in Nat
  BY LenProperties, ElementOfSeq
<1>2. Prefix(text) = 0 \/ (Prefix(text) = 2 /\ Len(text) >= 2)
  BY DEF Prefix
<1> DEFINE n == Len(text)
<1>3. n \in Nat
  BY <1>1
<1> HIDE DEF n
<1>4. n >= 2 => n - 2 \in Nat /\ (n - 2) % 2 = n % 2
  BY <1>3
<1>5. n - 0 = n
  BY <1>3
<1>6. QED
  BY <1>1, <1>2, <1>4, <1>5 DEF n

\* What FromHex is in terms of these parts.
LEMMA FromHexIs ==
  ASSUME NEW text \in Seq(Nat), FromHex(text) # BadHexCharacter
  PROVE  /\ FromHex(text) = [x \in 1 .. Len(Padded(text)) \div 2 |->
                               Padded(text)[2*x - 1] * 16 + Padded(text)[2*x]]
         /\ \A x \in DOMAIN DigitsOf(text) : DigitsOf(text)[x] # -1
BY DEF FromHex, Padded, DigitsOf, Prefix

\* The digits that the constructor reads, with a zero before an odd number of them.
ReadDigits(text) ==
  LET s == Prefix(text)
      r == Len(text) % 2
  IN  [x \in 1 .. Len(text) - s + r |->
         IF x - r = 0 THEN 0 ELSE FromHexChar(text[s + (x - r)])]

\* n digits, moved behind a zero if there is one.
Shifted(n, r, d) == [x \in 1 .. n + r |-> IF x - r = 0 THEN 0 ELSE d[x - r]]

\* Padding moves the digits.
LEMMA PaddedDigits ==
  ASSUME NEW n \in Nat, NEW r \in {0, 1}, NEW D \in [1 .. n -> 0 .. 15]
  PROVE  /\ Pad(0, r, D) = Shifted(n, r, D) /\ Len(Shifted(n, r, D)) = n + r
         /\ Shifted(n, r, D) \in [1 .. n + r -> 0 .. 15]
<1> DEFINE S == 0 .. 15
           z == 0
           p == Pad(z, r, D)
<1>1. z \in S /\ D \in [1 .. n -> S]
  OBVIOUS
<1> HIDE DEF S, z
<1>2. /\ p \in [1 .. n + r -> S] /\ Len(p) = n + r
      /\ \A x \in 1 .. n + r : p[x] = IF x - r = 0 THEN z ELSE D[x - r]
  BY <1>1, PaddedIs
<1> HIDE DEF p
<1>3. p = [x \in 1 .. n + r |-> IF x - r = 0 THEN z ELSE D[x - r]]
  BY <1>2
<1>4. QED
  BY <1>2, <1>3 DEF p, S, z, Shifted

\* The bytes of pairs of digits.
BytesOf(v, l) == [x \in 1 .. l \div 2 |-> v[2*x - 1] * 16 + v[2*x]]

\* FromHex gives the bytes of the digits read, two for each.
LEMMA ReadIs ==
  ASSUME NEW text \in Seq(Nat), FromHex(text) # BadHexCharacter,
         NEW s \in {0, 2}, s = Prefix(text), NEW n \in Nat, n = Len(text) - s,
         NEW r \in {0, 1}, r = Len(text) % 2
  PROVE  /\ (n + r) % 2 = 0
         /\ ReadDigits(text) \in [1 .. n + r -> 0 .. 15]
         /\ FromHex(text) = BytesOf(ReadDigits(text), n + r)
         /\ \A x \in 1 .. n : /\ text[s + x] \in Nat /\ FromHexChar(text[s + x]) # -1
                               /\ s + x \in 1 .. Len(text)
<1>1. /\ Len(text) \in Nat /\ s \in {0, 2} /\ n \in Nat /\ n % 2 = r
      /\ \A x \in 1 .. Len(text) : text[x] \in Nat
  BY PrefixIs
<1>2. r \in {0, 1} /\ (n + r) % 2 = 0
  <2>1. \A a, c : a \in Nat /\ a % 2 = c => c \in {0, 1} /\ (a + c) % 2 = 0
    OBVIOUS
  <2>2. QED
    BY <1>1, <2>1
<1> DEFINE v == ReadDigits(text)
           D == [x \in 1 .. n |-> FromHexChar(text[s + x])]
           p == IF r = 1 THEN <<0>> \o D ELSE D
<1>3. /\ FromHex(text) = [x \in 1 .. Len(p) \div 2 |-> p[2*x - 1] * 16 + p[2*x]]
      /\ \A x \in 1 .. n : FromHexChar(text[s + x]) # -1
  <2>1. D = DigitsOf(text)
    BY DEF DigitsOf
  <2>2. p = Padded(text)
    BY <2>1 DEF Padded
  <2>3. DOMAIN D = 1 .. n /\ \A x \in 1 .. n : D[x] = FromHexChar(text[s + x])
    OBVIOUS
  <2> HIDE DEF D, p
  <2>4. QED
    BY <2>1, <2>2, <2>3, FromHexIs
<1>4. \A x \in 1 .. n : /\ s + x \in 1 .. Len(text)
                        /\ text[s + x] \in Nat /\ FromHexChar(text[s + x]) \in 0 .. 15
  <2> SUFFICES ASSUME NEW x \in 1 .. n
               PROVE  /\ s + x \in 1 .. Len(text)
                      /\ text[s + x] \in Nat /\ FromHexChar(text[s + x]) \in 0 .. 15
    OBVIOUS
  <2>1. s + x \in 1 .. Len(text)
    BY <1>1
  <2>2. text[s + x] \in Nat
    BY <1>1, <2>1
  <2>3. FromHexChar(text[s + x]) # -1
    BY <1>3
  <2>4. QED
    BY <2>1, <2>2, <2>3, CharacterIs
<1>5. D \in [1 .. n -> 0 .. 15]
  BY <1>4
<1> DEFINE u == Shifted(n, r, D)
<1>6. p = u /\ Len(u) = n + r /\ u \in [1 .. n + r -> 0 .. 15]
  <2> HIDE DEF D
  <2>1. p = Pad(0, r, D)
    BY DEF Pad
  <2> HIDE DEF p
  <2>2. QED
    BY <1>5, <2>1, PaddedDigits
<1> HIDE DEF p
<1>7. \A x \in 1 .. n + r : u[x] = v[x]
  <2>1. \A x \in 1 .. n + r : v[x] = IF x - r = 0 THEN 0 ELSE FromHexChar(text[s + (x - r)])
    BY DEF ReadDigits
  <2>2. \A x \in 1 .. n + r : x - r # 0 => x - r \in 1 .. n
    OBVIOUS
  <2>3. QED
    BY <1>6, <2>1, <2>2 DEF Shifted
<1>8. v = p
  <2>1. v = [x \in 1 .. n + r |-> v[x]]
    BY DEF ReadDigits
  <2>2. u = [x \in 1 .. n + r |-> u[x]]
    BY DEF Shifted
  <2> HIDE DEF u
  <2>3. QED
    BY <1>6, <1>7, <2>1, <2>2
<1>9. QED
  <2>1. FromHex(text) = BytesOf(v, n + r)
    BY <1>3, <1>6, <1>8 DEF BytesOf
  <2>2. v \in [1 .. n + r -> 0 .. 15]
    BY <1>6, <1>8
  <2>3. QED
    BY <1>2, <1>3, <1>4, <2>1, <2>2

\* Half of an even number of digits.
LEMMA HalfOf ==
  ASSUME NEW l \in Nat, l % 2 = 0
  PROVE  /\ l \div 2 \in Nat /\ 2 * (l \div 2) = l
         /\ \A x \in 1 .. l \div 2 : 2 * x \in 1 .. l /\ 2 * x - 1 \in 1 .. l
         /\ \A x \in 1 .. l : /\ (x + 1) \div 2 \in 1 .. l \div 2
                              /\ x % 2 = 1 => 2 * ((x + 1) \div 2) - 1 = x
                              /\ x % 2 # 1 => 2 * ((x + 1) \div 2) = x
OBVIOUS

\* Bytes made of pairs of digits, written in hexadecimal, are these digits again.
LEMMA WrittenIs ==
  ASSUME NEW l \in Nat, l % 2 = 0, NEW v \in [1 .. l -> 0 .. 15],
         NEW b, b = BytesOf(v, l)
  PROVE  /\ b \in Seq(0 .. 255) /\ Len(b) = l \div 2
         /\ ToHex(b) = [x \in 1 .. l |-> HexDigit(v[x])]
<1>1. ASSUME NEW x \in 1 .. l \div 2
      PROVE  b[x] \in 0 .. 255 /\ b[x] \div 16 = v[2*x - 1] /\ b[x] % 16 = v[2*x]
  <2>1. v[2*x - 1] \in 0 .. 15 /\ v[2*x] \in 0 .. 15
    BY HalfOf
  <2>2. b[x] = v[2*x - 1] * 16 + v[2*x]
    BY DEF BytesOf
  <2>3. \A c, d \in 0 .. 15 : /\ c * 16 + d \in 0 .. 255
                              /\ (c * 16 + d) \div 16 = c /\ (c * 16 + d) % 16 = d
    <3> SUFFICES ASSUME NEW c \in 0 .. 15, NEW d \in 0 .. 15
                 PROVE  /\ c * 16 + d \in 0 .. 255
                        /\ (c * 16 + d) \div 16 = c /\ (c * 16 + d) % 16 = d
      OBVIOUS
    <3>1. c \in Int /\ d \in Int /\ c >= 0 /\ c <= 15 /\ d >= 0 /\ d <= 15
      OBVIOUS
    <3> DEFINE e == c * 16 + d
    <3>2. e \in 0 .. 255 /\ e = 16 * c + d
      BY <3>1
    <3> HIDE DEF e
    <3>3. e \div 16 \in Int /\ e % 16 \in 0 .. 15 /\ e = 16 * (e \div 16) + (e % 16)
      <4>1. \A y \in Nat : /\ y \div 16 \in Int /\ y % 16 \in 0 .. 15
                            /\ y = 16 * (y \div 16) + (y % 16)
        OBVIOUS
      <4>2. e \in Nat
        BY <3>2
      <4>3. QED
        BY <4>1, <4>2
    <3>4. \A q \in Int, y \in 0 .. 15 : 16 * q + y = 16 * c + d => q = c /\ y = d
      BY <3>1
    <3>5. e \div 16 = c /\ e % 16 = d
      BY <3>2, <3>3, <3>4
    <3>6. QED
      BY <3>2, <3>5 DEF e
  <2> DEFINE c == v[2*x - 1]
             d == v[2*x]
  <2>4. c * 16 + d \in 0 .. 255 /\ (c * 16 + d) \div 16 = c /\ (c * 16 + d) % 16 = d
    <3> HIDE DEF c, d
    <3>1. c \in 0 .. 15 /\ d \in 0 .. 15
      BY <2>1 DEF c, d
    <3>2. QED
      BY <2>3, <3>1
  <2>5. QED
    BY <2>2, <2>4
<1>2. l \div 2 \in Nat /\ b \in [1 .. l \div 2 -> 0 .. 255]
  BY <1>1, HalfOf DEF BytesOf
<1>3. b \in Seq(0 .. 255) /\ Len(b) = l \div 2
  <2>1. \A S, q, h : h \in Nat /\ q \in [1 .. h -> S] => q \in Seq(S) /\ Len(q) = h
    BY SeqDef
  <2> DEFINE S == 0 .. 255
             h == l \div 2
  <2>2. h \in Nat /\ b \in [1 .. h -> S]
    BY <1>2
  <2> HIDE DEF S, h
  <2>3. b \in Seq(S) /\ Len(b) = h
    BY <2>1, <2>2
  <2>4. QED
    BY <2>3 DEF S, h
<1>4. 2 * Len(b) = l
  BY <1>3, HalfOf
<1>5. ASSUME NEW x \in 1 .. l
      PROVE  (IF x % 2 = 1 THEN b[(x + 1) \div 2] \div 16 ELSE b[(x + 1) \div 2] % 16) = v[x]
  BY <1>1, HalfOf
<1>6. QED
  <2> DEFINE W(y) == LET byte == b[(y + 1) \div 2]
                     IN  HexDigit(IF y % 2 = 1 THEN byte \div 16 ELSE byte % 16)
  <2>1. ToHex(b) = [y \in 1 .. l |-> W(y)]
    BY <1>4 DEF ToHex
  <2>2. \A y \in 1 .. l : W(y) = HexDigit(v[y])
    BY <1>5
  <2> HIDE DEF W
  <2>3. ToHex(b) = [y \in 1 .. l |-> HexDigit(v[y])]
    BY <2>1, <2>2
  <2>4. QED
    BY <1>3, <2>3

\* The one spelling of a text is how its bytes are written in hexadecimal.
LEMMA PlainIsHex ==
  ASSUME NEW text \in Seq(Nat), FromHex(text) # BadHexCharacter
  PROVE  FromHex(text) \in Seq(0 .. 255) /\ Plain(text) = ToHex(FromHex(text))
<1>p. PICK s \in {0, 2}, n \in Nat, r \in {0, 1} :
        s = Prefix(text) /\ n = Len(text) - s /\ r = Len(text) % 2
  <2>1. Len(text) % 2 \in {0, 1}
    BY PrefixIs
  <2>2. Prefix(text) \in {0, 2} /\ Len(text) - Prefix(text) \in Nat
    BY PrefixIs
  <2>3. QED
    BY <2>1, <2>2
<1> DEFINE v == ReadDigits(text)
<1>1. Len(text) \in Nat /\ n % 2 = r
  BY <1>p, PrefixIs
<1>2. /\ (n + r) % 2 = 0 /\ v \in [1 .. n + r -> 0 .. 15]
      /\ FromHex(text) = BytesOf(v, n + r)
      /\ \A x \in 1 .. n : /\ text[s + x] \in Nat /\ FromHexChar(text[s + x]) # -1
                            /\ s + x \in 1 .. Len(text)
  BY <1>p, ReadIs
<1>3. \A x \in 1 .. n + r : v[x] = IF x - r = 0 THEN 0 ELSE FromHexChar(text[s + (x - r)])
  BY <1>p DEF ReadDigits
<1>4. s = IF Len(text) >= 2 /\ text[2] = LowerX THEN 2 ELSE 0
  <2>1. ASSUME Len(text) >= 2, text[2] = LowerX, text[1] # Digit0
        PROVE  FALSE
    <3>1. s = 0 /\ n = Len(text)
      BY <2>1, <1>p, <1>1 DEF Prefix
    <3>2. 2 \in 1 .. n /\ s + 2 = 2
      BY <2>1, <3>1, <1>1
    <3>3. text[2] \in Nat /\ FromHexChar(text[2]) # -1
      BY <1>2, <3>2
    <3>4. QED
      BY <2>1, <3>3, CharacterIs
  <2>2. QED
    BY <1>p, <2>1 DEF Prefix
<1> DEFINE small == [x \in 1 .. n |-> Small(text[s + x])]
<1>5. Plain(text) = Pad(Digit0, r, small)
  <2>1. Plain(text) = IF Len(small) % 2 = 1 THEN <<Digit0>> \o small ELSE small
    BY <1>p, <1>4 DEF Plain, Small
  <2>2. Len(small) = n
    <3>1. small \in [1 .. n -> Nat]
      <4>1. \A c \in Nat : Small(c) \in Nat
        BY DEF Small, LowerA, UpperA
      <4>2. QED
        BY <1>2, <4>1
    <3> HIDE DEF small
    <3>2. QED
      BY <1>1, <3>1
  <2> HIDE DEF small
  <2>3. QED
    BY <1>1, <2>1, <2>2 DEF Pad
<1>6. /\ Pad(Digit0, r, small) \in [1 .. n + r -> Nat]
      /\ \A x \in 1 .. n + r : Pad(Digit0, r, small)[x] = IF x - r = 0 THEN Digit0 ELSE small[x - r]
  <2> DEFINE S == Nat
             z == Digit0
  <2>1. small \in [1 .. n -> S] /\ z \in S
    <3>1. \A c \in Nat : Small(c) \in Nat
      BY DEF Small, LowerA, UpperA
    <3>2. QED
      BY <1>2, <3>1 DEF Digit0
  <2> HIDE DEF small, S, z
  <2>2. /\ Pad(z, r, small) \in [1 .. n + r -> S]
        /\ \A x \in 1 .. n + r : Pad(z, r, small)[x] = IF x - r = 0 THEN z ELSE small[x - r]
    BY <2>1, PaddedIs
  <2>3. QED
    BY <2>2 DEF S, z
<1>7. ASSUME NEW x \in 1 .. n + r
      PROVE  Pad(Digit0, r, small)[x] = HexDigit(v[x])
  <2>1. CASE x - r = 0
    <3>1. v[x] = 0 /\ Pad(Digit0, r, small)[x] = Digit0
      BY <1>3, <1>6, <2>1
    <3>2. QED
      BY <3>1 DEF HexDigit, Digit0
  <2>2. CASE x - r # 0
    <3> DEFINE y == x - r
    <3>1. y \in 1 .. n
      BY <2>2
    <3>2. v[x] = FromHexChar(text[s + y]) /\ Pad(Digit0, r, small)[x] = small[y]
      BY <1>3, <1>6, <2>2
    <3> HIDE DEF y
    <3>3. text[s + y] \in Nat /\ FromHexChar(text[s + y]) # -1
      BY <1>2, <3>1
    <3>4. Small(text[s + y]) = HexDigit(FromHexChar(text[s + y]))
      BY <3>3, CharacterIs
    <3>5. QED
      BY <3>1, <3>2, <3>4
  <2>3. QED
    BY <2>1, <2>2
<1>8. Plain(text) = [x \in 1 .. n + r |-> HexDigit(v[x])]
  <2> HIDE DEF small, v
  <2>1. QED
    BY <1>5, <1>6, <1>7
<1>9. /\ FromHex(text) \in Seq(0 .. 255)
      /\ ToHex(FromHex(text)) = [x \in 1 .. n + r |-> HexDigit(v[x])]
  <2>1. PICK l \in Nat : l = n + r /\ l % 2 = 0
    BY <1>2
  <2>2. v \in [1 .. l -> 0 .. 15]
    BY <1>2, <2>1
  <2>3. FromHex(text) = BytesOf(v, l)
    BY <1>2, <2>1
  <2> HIDE DEF v
  <2>4. FromHex(text) \in Seq(0 .. 255) /\ ToHex(FromHex(text)) = [x \in 1 .. l |-> HexDigit(v[x])]
    BY <2>1, <2>2, <2>3, WrittenIs
  <2>5. QED
    BY <2>1, <2>4
<1>10. QED
  BY <1>8, <1>9

\* Different bytes are written differently.
LEMMA ToHexSeparates ==
  ASSUME NEW b \in Seq(0 .. 255), NEW c \in Seq(0 .. 255), ToHex(b) = ToHex(c)
  PROVE  b = c
<1> DEFINE W(q, y) == LET byte == q[(y + 1) \div 2]
                      IN  HexDigit(IF y % 2 = 1 THEN byte \div 16 ELSE byte % 16)
<1>1. /\ ToHex(b) = [y \in 1 .. 2 * Len(b) |-> W(b, y)]
      /\ ToHex(c) = [y \in 1 .. 2 * Len(c) |-> W(c, y)]
  BY DEF ToHex
<1>2. /\ Len(b) \in Nat /\ b \in [1 .. Len(b) -> 0 .. 255]
      /\ Len(c) \in Nat /\ c \in [1 .. Len(c) -> 0 .. 255]
  BY LenProperties
<1>3. Len(b) = Len(c)
  <2> HIDE DEF W
  <2>1. 1 .. 2 * Len(b) = 1 .. 2 * Len(c)
    BY <1>1
  <2>2. \A l, m \in Nat : 1 .. 2 * l = 1 .. 2 * m => l = m
    <3> SUFFICES ASSUME NEW l \in Nat, NEW m \in Nat, 1 .. 2 * l = 1 .. 2 * m
                 PROVE  l = m
      OBVIOUS
    <3>1. ~ l < m
      <4>1. ASSUME l < m PROVE FALSE
        <5>1. 2 * m \in 1 .. 2 * m /\ 2 * m \notin 1 .. 2 * l
          BY <4>1
        <5>2. QED
          BY <5>1
      <4>2. QED
        BY <4>1
    <3>2. ~ m < l
      <4>1. ASSUME m < l PROVE FALSE
        <5>1. 2 * l \in 1 .. 2 * l /\ 2 * l \notin 1 .. 2 * m
          BY <4>1
        <5>2. QED
          BY <5>1
      <4>2. QED
        BY <4>1
    <3>3. QED
      BY <3>1, <3>2
  <2>3. QED
    BY <1>2, <2>1, <2>2
<1>4. ASSUME NEW x \in 1 .. Len(b)
      PROVE  b[x] = c[x]
  <2>1. /\ 2 * x \in 1 .. 2 * Len(b) /\ 2 * x - 1 \in 1 .. 2 * Len(b)
        /\ (2 * x + 1) \div 2 = x /\ (2 * x) % 2 # 1
        /\ (2 * x - 1 + 1) \div 2 = x /\ (2 * x - 1) % 2 = 1
    BY <1>2
  <2>2. W(b, 2 * x) = W(c, 2 * x) /\ W(b, 2 * x - 1) = W(c, 2 * x - 1)
    <3> HIDE DEF W
    <3>1. QED
      BY <1>1, <1>3, <2>1
  <2>3. HexDigit(b[x] % 16) = HexDigit(c[x] % 16) /\ HexDigit(b[x] \div 16) = HexDigit(c[x] \div 16)
    BY <2>1, <2>2
  <2>4. b[x] \in 0 .. 255 /\ c[x] \in 0 .. 255
    BY <1>2, <1>3
  <2>5. \A d \in 0 .. 255 : /\ d % 16 \in 0 .. 15 /\ d \div 16 \in 0 .. 15
                            /\ d = 16 * (d \div 16) + (d % 16)
    OBVIOUS
  <2>6. \A d, e \in 0 .. 15 : HexDigit(d) = HexDigit(e) => d = e
    BY HexDigitIs
  <2>7. b[x] % 16 = c[x] % 16 /\ b[x] \div 16 = c[x] \div 16
    BY <2>3, <2>4, <2>5, <2>6
  <2>8. QED
    BY <2>4, <2>5, <2>7
<1>5. QED
  BY <1>2, <1>3, <1>4

\* Two texts give the same id exactly if they are one text but for prefix, capitals
\* and a leading zero.
LEMMA SameIdSamePlain ==
  ASSUME NEW t, NEW u, SpellsId(t), SpellsId(u)
  PROVE  HashOfText(t, IdSize) = HashOfText(u, IdSize) <=> Plain(t) = Plain(u)
<1>1. /\ HashOfText(t, IdSize) = FromHex(t) /\ HashOfText(u, IdSize) = FromHex(u)
      /\ t \in Seq(Nat) /\ u \in Seq(Nat)
      /\ FromHex(t) # BadHexCharacter /\ FromHex(u) # BadHexCharacter
  BY DEF SpellsId, HashOfText, FixedHash
<1>2. QED
  BY <1>1, PlainIsHex, ToHexSeparates

\* A node keeps the data of the chunks of the entry that spells its own id, and knows
\* itself by the index of that entry.
THEOREM KeepsOwnChunks == Spec => []KeepsChunksOfOwnId
<1>1. NodeInv => KeepsChunksOfOwnId
  <2> SUFFICES ASSUME NodeInv, NEW texts \in SealerTexts, ec_sealers = Ids(texts)
               PROVE  LET Own(x) == Plain(texts[x]) = Plain(OwnText)
                      IN  /\ pc # "down" => \A x \in Pos : ec_position_in_sealers = x <=> Own(x)
                          /\ \A key \in Chunks : ec_db[key] # NotFound =>
                               (ec_db[key].data # NoData <=> Own(ChunkSet[key[1]][key[2]]))
    BY DEF KeepsChunksOfOwnId
  <2> DEFINE Own(x) == Plain(texts[x]) = Plain(OwnText)
  <2>1. \A x \in Pos : ec_sealers[x] = ec_nodeid <=> Own(x)
    BY SameIdSamePlain, NodeIdsAssumption DEF Ids
  <2> HIDE DEF Own
  <2>2. ASSUME ec_position_in_sealers = SequenceInSealers(ec_sealers)
        PROVE  \A x \in Pos : ec_position_in_sealers = x <=> Own(x)
    <3>1. \A x, y \in Pos : ec_sealers[x] = ec_sealers[y] => x = y
      BY NodeAssumption DEF NodeInv, TypeOK
    <3>2. \A x \in Pos : SequenceInSealers(ec_sealers) = x <=> ec_sealers[x] = ec_nodeid
      BY <3>1, PositionsAre DEF SequenceInSealers, SequenceOf
    <3>3. QED
      BY <2>1, <2>2, <3>2
  <2>3. ASSUME NEW key \in Chunks, ec_db[key] # NotFound
        PROVE  ec_db[key].data # NoData <=> Own(ChunkSet[key[1]][key[2]])
    <3>1. ec_position_in_sealers = SequenceInSealers(ec_sealers)
      BY <2>3 DEF NodeInv, Configured
    <3>2. key[1] \in Epochs /\ key[2] \in Pos
      BY DEF Chunks
    <3>3. ChunkSet[key[1]][key[2]] \in Pos
      BY <3>2, NodeAssumption
    <3>4. key # NoData /\ Damaged # NoData
      BY DistinctAssumption
    <3>5. ec_db[key].data # NoData <=> KeepsData(key[1], key[2])
      BY <2>3, <3>4 DEF NodeInv, RecordsCorrect
    <3>6. QED
      BY <2>2, <3>1, <3>3, <3>5 DEF KeepsData
  <2>4. QED
    BY <2>2, <2>3, RunningIsConfigured DEF Own
<1>2. QED
  BY <1>1, NodeInvariant, PTL

-----------------------------------------------------------------------------
(* The cluster.                                                            *)

\* What is invariant of the reader's process, of its read, and of both.
ReaderInv == /\ ClusterTypeOK /\ ReadAndNodeAgree /\ CollectedCorrect
             /\ InputsInOrder /\ AskedNodeHasData /\ NothingIsExplained

IInv == NodeInv /\ ResultInv /\ ReaderInv

-----------------------------------------------------------------------------
(* Addresses.                                                              *)

\* Converting the address of a block to int and back changes nothing.
LEMMA KeyOfBlock ==
  ASSUME NEW b \in Blocks
  PROVE  /\ KeyOf(b) = <<EpochOfInt(b), PosOfInt(b)>>
         /\ KeyOf(b) \in Chunks /\ KeyOf(b)[1] \in Epochs /\ KeyOf(b)[2] \in DataPos
         /\ EpochOfInt(b) = KeyOf(b)[1] /\ PosOfInt(b) = KeyOf(b)[2]
<1> USE BlockNumbersAssumption, NodeAssumption
<1>1. ToInt(b) = b /\ EpochOfInt(b) \in Epochs /\ PosOfInt(b) \in DataPos
  BY BlockAddress
<1>2. IntMax \in Nat /\ IntMax < Word /\ MaxEpoch <= IntMax /\ ec_k - 1 <= IntMax
  <2>1. IntMax \in Int /\ IntMax < Word
    BY DEF IntMax
  <2>2. ec_k * (MaxEpoch + 1) >= MaxEpoch + 1
    OBVIOUS
  <2>3. ec_k * (MaxEpoch + 1) >= ec_k
    OBVIOUS
  <2>4. QED
    BY <2>1, <2>2, <2>3
<1>3. \A x \in 0 .. IntMax : ToInt(x) = x
  BY <1>2 DEF ToInt, ToUnsigned
<1>4. ToInt(EpochOfInt(b)) = EpochOfInt(b) /\ ToInt(PosOfInt(b)) = PosOfInt(b)
  BY <1>1, <1>2, <1>3 DEF Epochs, DataPos
<1>5. KeyOf(b) = <<EpochOfInt(b), PosOfInt(b)>>
  BY <1>1, <1>4 DEF KeyOf, ChunkPosition
<1>6. QED
  BY <1>1, <1>5, PositionsAre DEF Chunks

\* The inverse placement names for each node the chunk placed on it.
LEMMA InverseOfPlacementIs ==
  ASSUME NEW e \in Epochs, NEW x \in Pos
  PROVE  ChunkPosByNode(e)[x] \in Pos /\ ChunkSet[e][ChunkPosByNode(e)[x]] = x
BY PlacementOnto DEF ChunkPosByNode

\* An id stands in the sealer list once.
LEMMA SequenceOfId ==
  ASSUME NEW s \in Sealers, NEW x \in Pos
  PROVE  SequenceOf(s, s[x]) = x
BY NodeAssumption DEF SequenceOf

\* decode has taken finitely many inputs.
LEMMA ReceivedFinite ==
  ASSUME NodeInv
  PROVE  IsFiniteSet(received) /\ Cardinality(received) \in Nat
<1>1. received \subseteq Pos
  BY DEF NodeInv, TypeOK
<1>2. IsFiniteSet(Pos)
  BY PositionsAre, FS_Interval DEF Pos
<1>3. IsFiniteSet(received)
  BY <1>1, <1>2, FS_Subset
<1>4. QED
  BY <1>3, FS_CardinalityType

-----------------------------------------------------------------------------
(* The reader as a node.                                                   *)

\* Whatever the caller and the network do, the reader's node makes one of its own
\* steps or none.
LEMMA StepOfNode ==
  ASSUME IInv, ClusterNext
  PROVE  [Next]_vars
<1> USE DEF Next
<1>1. ASSUME Die PROVE Next
  BY <1>1 DEF Die
<1>2. ASSUME client # "none" PROVE block \in Blocks
  BY <1>2 DEF IInv, ReaderInv, ClusterTypeOK
<1>3. CASE CallerRuns
  <2>1. CASE ReadLocally
    BY <2>1, <1>2 DEF ReadLocally
  <2>2. CASE TimeOut
    BY <2>2 DEF TimeOut, AskAll
  <2>3. CASE StartDecode
    BY <2>3, <1>2 DEF StartDecode
  <2>4. CASE TakeInput
    <3> DEFINE x == Cardinality(received) + 1
    <3>1. client = "decoding" /\ x <= Len(index) /\ DecodeInput(index[x], receive_data[x])
      BY <2>4 DEF TakeInput
    <3>2. x \in DOMAIN index /\ index[x] \in Pos
      <4>1. index \in Seq(Pos)
        BY DEF IInv, ReaderInv, ClusterTypeOK
      <4>2. Cardinality(received) \in Nat
        BY ReceivedFinite DEF IInv
      <4>3. QED
        BY <3>1, <4>1, <4>2
    <3>3. receive_data[x] = <<epoch, index[x]>>
      BY <3>1, <3>2 DEF IInv, ReaderInv, CollectedCorrect, ReadAndNodeAgree
    <3>4. QED
      BY <3>1, <3>2, <3>3
  <2>5. CASE EndDecode
    BY <2>5 DEF EndDecode
  <2>6. QED
    BY <1>3, <2>1, <2>2, <2>3, <2>4, <2>5 DEF CallerRuns
<1>4. CASE \E reply \in replies : ReceiveChunk(reply) \/ ReceiveBlock(reply)
  BY <1>1, <1>4 DEF ReceiveChunk, ReceiveBlock, AskAll
<1>5. CASE ServeOwn \/ \E n \in Peers : Serve(n)
  BY <1>1, <1>5 DEF ServeOwn, Serve
<1>6. CASE \E n \in Peers : \/ PeerStops(n) \/ PeerStarts(n)
                            \/ \E e \in Epochs : PeerSaves(n, e)
  BY <1>6 DEF PeerStops, PeerStarts, PeerSaves
<1>7. CASE NodeRuns \/ SaveRuns \/ Die \/ \E b \in Blocks : Ask(b)
  BY <1>1, <1>7 DEF NodeRuns, SaveRuns, Ask
<1>8. QED
  BY <1>3, <1>4, <1>5, <1>6, <1>7 DEF ClusterNext, ChunkArrives

\* So what holds of a node holds of it.
LEMMA NodePart ==
  ASSUME IInv, [Next]_vars
  PROVE  NodeInv' /\ ResultInv' /\ ec_sealers' = ec_sealers
<1>1. NodeInv' /\ ResultInv'
  BY NodeStep, NodeStutter DEF IInv
<1>2. ec_sealers' = ec_sealers
  BY DEF Next, vars, config, InitErasure, SaveChunk, SaveStep, WriteDB, SaveDone,
         GetBlockByNumber, AbortRead, LocalReadBlock, DecodeBegin, DecodeInput, DecodeEnd,
         DamageRecord, Crash
<1>3. QED
  BY <1>1, <1>2

-----------------------------------------------------------------------------
(* The read.                                                               *)

\* A step that leaves the read and its requests alone, and the process that a read
\* goes on in where the read needs it.
LEMMA ReadUntouched ==
  ASSUME IInv, UNCHANGED <<read, answer, requests, ec_sealers>>,
         replies' \subseteq Replies,
         saved' \in [Peers -> SUBSET Epochs], running' \in [Peers -> BOOLEAN],
         client # "none" => pc' # "down",
         client = "local" => pc' = "idle",
         client = "decoding" <=> pc' = "decoding",
         client = "decoding" => UNCHANGED <<epoch, pos, received>>
  PROVE  ReaderInv'
<1> USE DEF read, IInv, ReaderInv
<1>1. ClusterTypeOK'
  BY DEF ClusterTypeOK
<1>2. ReadAndNodeAgree' /\ CollectedCorrect' /\ InputsInOrder'
  BY DEF ReadAndNodeAgree, CollectedCorrect, InputsInOrder
<1>3. AskedNodeHasData' /\ NothingIsExplained'
  BY DEF AskedNodeHasData, NothingIsExplained, SequenceOf
<1>4. QED
  BY <1>1, <1>2, <1>3

\* The read is over or lost.
LEMMA ReadForgotten ==
  ASSUME IInv, Forget, UNCHANGED <<network, peers, ec_sealers>>, pc' # "decoding",
         answer' \in {NoAnswer} \cup [number : Blocks, value : Chunks \cup {NoValue}, lacking : BOOLEAN],
         NothingIsExplained'
  PROVE  ReaderInv'
<1> USE DEF IInv, ReaderInv, network, peers, Forget
<1>1. ClusterTypeOK'
  BY EmptySeq, BlockNumbersAssumption DEF ClusterTypeOK
<1>2. ReadAndNodeAgree' /\ CollectedCorrect' /\ InputsInOrder'
  BY DEF ReadAndNodeAgree, CollectedCorrect, InputsInOrder
<1>3. AskedNodeHasData'
  BY DEF AskedNodeHasData, SequenceOf
<1>4. QED
  BY <1>1, <1>2, <1>3

\* The process ends and the read with it.
LEMMA DieStep ==
  ASSUME IInv, ec_sealers' = ec_sealers, Forget, UNCHANGED <<answer, network, peers>>,
         pc' = "down"
  PROVE  ReaderInv'
<1>1. NothingIsExplained'
  BY DEF IInv, ReaderInv, NothingIsExplained
<1>2. QED
  BY <1>1, ReadForgotten DEF IInv, ReaderInv, ClusterTypeOK

\* What a read may end with, and that it is an answer of the store.
LEMMA EndReadStep ==
  ASSUME IInv, NEW value, NEW lacking \in BOOLEAN, EndRead(value, lacking),
         client # "none",
         value \in {BlockOf(KeyOf(block)), NoValue},
         value = NoValue => BlockOf(KeyOf(block)) = NoValue \/ lacking
  PROVE  /\ answer' \in [number : Blocks, value : Chunks \cup {NoValue}, lacking : BOOLEAN]
         /\ NothingIsExplained'
         /\ Store!Answer
<1>1. block \in Blocks /\ block # NoBlock
  BY ClusterAssumption DEF IInv, ReaderInv, ClusterTypeOK
<1>2. value \in Chunks \cup {NoValue}
  BY <1>1, KeyOfBlock, BlockOfChunk
<1>3. /\ answer' = [number |-> block, value |-> value, lacking |-> lacking]
      /\ block' = NoBlock
  BY DEF EndRead, Forget
<1>4. /\ answer' \in [number : Blocks, value : Chunks \cup {NoValue}, lacking : BOOLEAN]
      /\ answer' # NoAnswer
  BY <1>1, <1>2, <1>3, ClusterAssumption
<1>5. NothingIsExplained'
  BY <1>3 DEF NothingIsExplained, BlockOf
<1>6. Store!Answer
  BY <1>1, <1>3, <1>4 DEF Store!Answer
<1>7. QED
  BY <1>4, <1>5, <1>6

-----------------------------------------------------------------------------
(* The steps of the caller.                                                *)

\* What a step looks like to the store.
StoreStep == Store!Next \/ UNCHANGED <<block, answer>>

LEMMA DieIsFail ==
  ASSUME IInv, Forget, UNCHANGED answer
  PROVE  StoreStep
BY DEF IInv, ReaderInv, ClusterTypeOK, Forget, StoreStep, Store!Next, Store!Fail

LEMMA AskStep ==
  ASSUME IInv, NEW b \in Blocks, Ask(b)
  PROVE  ReaderInv' /\ StoreStep
<1> USE DEF Ask, IInv, ReaderInv, vars, config, network, peers
<1>1. ClusterTypeOK'
  BY DEF ClusterTypeOK
<1>2. ReadAndNodeAgree' /\ CollectedCorrect' /\ InputsInOrder'
  BY DEF ReadAndNodeAgree, CollectedCorrect, InputsInOrder
<1>3. AskedNodeHasData' /\ NothingIsExplained'
  BY DEF AskedNodeHasData, NothingIsExplained, SequenceOf
<1>4. StoreStep
  BY DEF ClusterTypeOK, StoreStep, Store!Next, Store!Ask
<1>5. QED
  BY <1>1, <1>2, <1>3, <1>4

\* What the own node returns for the block: the block, or nothing, or its process ends.
LEMMA LocalResult ==
  ASSUME IInv, NEW b \in Blocks, GetBlockByNumber(b)
  PROVE  /\ result'.value \in {BlockOf(KeyOf(b)), NoValue, Abort}
         /\ Abort \notin {BlockOf(KeyOf(b)), NoValue}
         /\ pc = "idle" /\ pc' \in {"idle", "down"}
         /\ result'.value # Abort => pc' = "idle"
         /\ ec_sealers' = ec_sealers
<1>1. ReadResult("get", KeyOf(b)) /\ KeyOf(b) \in Chunks
  BY GetBlockByNumberStep, KeyOfBlock DEF IInv
<1>2. /\ result'.value \in {BlockOf(KeyOf(b)), NoValue, Abort}
      /\ Abort \notin {BlockOf(KeyOf(b)), NoValue}
  BY <1>1, BlockOfChunk DEF ReadResult, Return
<1>3. /\ pc = "idle" /\ ec_sealers' = ec_sealers
      /\ pc' = pc \/ (pc' = "down" /\ result'.value = Abort)
  BY DEF GetBlockByNumber, AbortRead, LoseMemory, Return, config
<1>4. QED
  BY <1>2, <1>3

\* The owner of a block is the node whose index its chunk was placed on.
LEMMA OwnerIsPlaced ==
  ASSUME IInv, NEW b \in Blocks
  PROVE  LET request == [to |-> OwnerOf(b), key |-> KeyOf(b)]
         IN  /\ request \in Requests
             /\ ChunkSet[request.key[1]][request.key[2]] = SequenceOf(ec_sealers, request.to)
<1> DEFINE x == ChunkSet[EpochOfInt(b)][PosOfInt(b)]
<1>1. x \in Pos /\ ec_sealers \in Sealers
  BY BlockAddress, PositionsAre, NodeAssumption DEF IInv, NodeInv, TypeOK
<1>2. OwnerOf(b) = ec_sealers[x]
  BY BlockAddress DEF OwnerOf
<1>3. KeyOf(b) \in Chunks /\ ChunkSet[KeyOf(b)[1]][KeyOf(b)[2]] = x
  BY KeyOfBlock
<1>4. SequenceOf(ec_sealers, ec_sealers[x]) = x
  BY <1>1, SequenceOfId
<1>5. ec_sealers[x] \in Peers \cup {ec_nodeid}
  BY <1>1, ClusterAssumption
<1>6. QED
  BY <1>2, <1>3, <1>4, <1>5 DEF Requests

LEMMA ReadLocallyStep ==
  ASSUME IInv, ReadLocally
  PROVE  ReaderInv' /\ StoreStep
<1>1. /\ client = "local" /\ block \in Blocks /\ GetBlockByNumber(block)
      /\ UNCHANGED <<replies, peers>>
  BY DEF ReadLocally, IInv, ReaderInv, ClusterTypeOK
<1>2. /\ result'.value \in {BlockOf(KeyOf(block)), NoValue, Abort}
      /\ Abort \notin {BlockOf(KeyOf(block)), NoValue}
      /\ pc' \in {"idle", "down"} /\ ec_sealers' = ec_sealers
      /\ result'.value # Abort => pc' = "idle"
  BY <1>1, LocalResult
<1>3. CASE result'.value = Abort
  <2>1. Forget /\ UNCHANGED <<answer, requests>>
    BY <1>3, <1>2, <1>1 DEF ReadLocally
  <2>2. NothingIsExplained'
    BY <2>1 DEF IInv, ReaderInv, NothingIsExplained
  <2>3. QED
    BY <1>1, <1>2, <2>1, <2>2, ReadForgotten, DieIsFail
       DEF network, IInv, ReaderInv, ClusterTypeOK
<1>4. CASE result'.value \notin {Abort, NoValue}
  <2>1. EndRead(result'.value, FALSE) /\ UNCHANGED requests
    BY <1>4 DEF ReadLocally
  <2>2. /\ answer' \in [number : Blocks, value : Chunks \cup {NoValue}, lacking : BOOLEAN]
        /\ NothingIsExplained' /\ Store!Answer
    BY <1>1, <1>2, <1>4, <2>1, EndReadStep
  <2>3. ReaderInv'
    BY <1>1, <1>2, <2>1, <2>2, ReadForgotten DEF network, EndRead
  <2>4. QED
    BY <2>2, <2>3 DEF StoreStep, Store!Next
<1>5. CASE result'.value = NoValue
  <2> DEFINE request == [to |-> OwnerOf(block), key |-> KeyOf(block)]
  <2>1. /\ client' = "remote" /\ requests' = requests \cup {request}
        /\ UNCHANGED <<block, receive_data, index, answer>>
    BY <1>5, <1>2 DEF ReadLocally
  <2>2. /\ request \in Requests
        /\ ChunkSet[request.key[1]][request.key[2]] = SequenceOf(ec_sealers, request.to)
    BY <1>1, OwnerIsPlaced
  <2> HIDE DEF request
  <2>3. pc' = "idle"
    BY <1>2, <1>5
  <2>4. ClusterTypeOK'
    BY <1>1, <2>1, <2>2 DEF IInv, ReaderInv, ClusterTypeOK, peers
  <2>5. ReadAndNodeAgree' /\ CollectedCorrect' /\ InputsInOrder'
    BY <1>1, <2>1, <2>3
       DEF IInv, ReaderInv, ReadAndNodeAgree, CollectedCorrect, InputsInOrder
  <2>6. AskedNodeHasData'
    BY <1>2, <2>1, <2>2 DEF IInv, ReaderInv, AskedNodeHasData, SequenceOf
  <2>7. NothingIsExplained' /\ StoreStep
    BY <2>1 DEF IInv, ReaderInv, NothingIsExplained, StoreStep
  <2>8. QED
    BY <2>4, <2>5, <2>6, <2>7 DEF ReaderInv
<1>6. QED
  BY <1>3, <1>4, <1>5

\* The requests to all nodes go where the chunks are.
LEMMA AskAllStep ==
  ASSUME IInv, pc # "down", client = "remote", AskAll
  PROVE  ReaderInv' /\ StoreStep
<1> DEFINE e == KeyOf(block)[1]
           request(x) == [to |-> ec_sealers[x], key |-> <<e, ChunkPosByNode(e)[x]>>]
<1>1. e \in Epochs /\ ec_sealers \in Sealers
  BY KeyOfBlock DEF IInv, ReaderInv, ClusterTypeOK, NodeInv, TypeOK
<1>2. ASSUME NEW x \in Pos
      PROVE  /\ request(x) \in Requests
             /\ ChunkSet[request(x).key[1]][request(x).key[2]] = SequenceOf(ec_sealers, request(x).to)
  <2>1. ChunkPosByNode(e)[x] \in Pos /\ ChunkSet[e][ChunkPosByNode(e)[x]] = x
    BY <1>1, InverseOfPlacementIs
  <2>2. SequenceOf(ec_sealers, ec_sealers[x]) = x
    BY <1>1, SequenceOfId
  <2>3. ec_sealers[x] \in Peers \cup {ec_nodeid}
    BY <1>1, ClusterAssumption
  <2>4. QED
    BY <1>1, <2>1, <2>2, <2>3 DEF Requests, Chunks
<1>3. /\ client' = "asking" /\ requests' = requests \cup { request(x) : x \in Pos }
      /\ UNCHANGED <<block, receive_data, index, answer, replies, saved, running>>
      /\ UNCHANGED <<pc, epoch, pos, received, ec_sealers>>
  BY DEF AskAll, vars, config, peers, decoding
<1> HIDE DEF request
<1>4. requests' \subseteq Requests
  BY <1>2, <1>3 DEF IInv, ReaderInv, ClusterTypeOK
<1>5. ClusterTypeOK'
  BY <1>3, <1>4 DEF IInv, ReaderInv, ClusterTypeOK
<1>6. ReadAndNodeAgree' /\ CollectedCorrect' /\ InputsInOrder'
  BY <1>3 DEF IInv, ReaderInv, ReadAndNodeAgree, CollectedCorrect, InputsInOrder
<1>7. AskedNodeHasData'
  BY <1>2, <1>3 DEF IInv, ReaderInv, AskedNodeHasData, SequenceOf
<1>8. NothingIsExplained' /\ StoreStep
  BY <1>3 DEF IInv, ReaderInv, NothingIsExplained, StoreStep
<1>9. QED
  BY <1>5, <1>6, <1>7, <1>8 DEF ReaderInv

\* A reply that passes the check is the chunk it is said to be.
LEMMA CorrectReply ==
  ASSUME IInv, NEW reply \in replies, IsCorrect(reply)
  PROVE  reply.key \in Chunks /\ reply.data = reply.key
<1>1. reply.key \in Chunks
  BY DEF IInv, ReaderInv, ClusterTypeOK, Replies
<1>2. QED
  BY <1>1 DEF IsCorrect, IInv, NodeInv, RecordsCorrect

\* The process that ends in a step of the caller.
LEMMA DieInStep ==
  ASSUME IInv, Die
  PROVE  ReaderInv' /\ StoreStep
<1>1. pc' = "down" /\ ec_sealers' = ec_sealers
  BY DEF Die, Crash, LoseMemory, config
<1>2. QED
  BY <1>1, DieStep, DieIsFail DEF Die

LEMMA ReceiveBlockStep ==
  ASSUME IInv, NEW reply \in replies, ReceiveBlock(reply)
  PROVE  ReaderInv' /\ StoreStep
<1>1. pc # "down" /\ client = "remote" /\ reply.key = KeyOf(block)
  BY DEF ReceiveBlock
<1>2. CASE /\ IsCorrect(reply)
           /\ EndRead(BlockOf(reply.data), FALSE)
           /\ UNCHANGED <<vars, network, peers>>
  <2>1. reply.data = KeyOf(block)
    BY <1>1, <1>2, CorrectReply
  <2>2. /\ answer' \in [number : Blocks, value : Chunks \cup {NoValue}, lacking : BOOLEAN]
        /\ NothingIsExplained' /\ Store!Answer
    BY <1>1, <1>2, <2>1, EndReadStep
  <2>3. pc' # "decoding" /\ ec_sealers' = ec_sealers
    BY <1>1, <1>2 DEF vars, config, IInv, ReaderInv, ReadAndNodeAgree
  <2>4. ReaderInv'
    BY <1>2, <2>2, <2>3, ReadForgotten DEF EndRead
  <2>5. QED
    BY <2>2, <2>4 DEF StoreStep, Store!Next
<1>3. QED
  BY <1>1, <1>2, DieInStep, AskAllStep DEF ReceiveBlock

LEMMA ReceiveChunkStep ==
  ASSUME IInv, NEW reply \in replies, ReceiveChunk(reply)
  PROVE  ReaderInv' /\ StoreStep
<1>1. CASE Die
  BY <1>1, DieInStep
<1>2. CASE ~ Die
  <2> DEFINE p == reply.key[2]
  <2>1. /\ pc # "down" /\ client = "asking" /\ Len(index) < ec_k
        /\ reply.key[1] = KeyOf(block)[1] /\ IsCorrect(reply)
        /\ \A x \in DOMAIN index : index[x] # p
        /\ receive_data' = Append(receive_data, reply.data)
        /\ index' = Append(index, p)
        /\ UNCHANGED <<vars, client, block, answer, network, peers>>
    BY <1>2 DEF ReceiveChunk
  <2>2. UNCHANGED <<pc, epoch, pos, received, ec_sealers, requests, replies, saved, running>>
    BY <2>1 DEF vars, config, decoding, network, peers
  <2>3. /\ reply.key \in Chunks /\ reply.data = reply.key
        /\ reply.key = <<KeyOf(block)[1], p>> /\ p \in Pos
    BY <2>1, CorrectReply DEF Chunks
  <2> HIDE DEF p
  <2>4. /\ index \in Seq(Pos) /\ receive_data \in Seq(Chunks)
        /\ Len(index) \in Nat /\ Len(receive_data) = Len(index)
        /\ ec_k \in Nat
    BY BlockNumbersAssumption, LenProperties DEF IInv, ReaderInv, ClusterTypeOK
  <2>5. /\ index' \in Seq(Pos) /\ receive_data' \in Seq(Chunks)
        /\ Len(index') = Len(index) + 1 /\ Len(receive_data') = Len(index) + 1
        /\ \A x \in 1 .. Len(index) : index'[x] = index[x] /\ receive_data'[x] = receive_data[x]
        /\ index'[Len(index) + 1] = p /\ receive_data'[Len(index) + 1] = reply.key
    BY <2>1, <2>3, <2>4, AppendProperties
  <2>6. ClusterTypeOK'
    BY <2>1, <2>2, <2>4, <2>5 DEF IInv, ReaderInv, ClusterTypeOK
  <2>7. CollectedCorrect'
    <3>1. DOMAIN index' = 1 .. Len(index) + 1 /\ DOMAIN index = 1 .. Len(index)
      BY <2>4, <2>5
    <3>2. \A x \in DOMAIN index' : x \in DOMAIN index \/ x = Len(index) + 1
      BY <2>4, <3>1
    <3>3. \A x \in DOMAIN index' : receive_data'[x] = <<KeyOf(block)[1], index'[x]>>
      BY <2>3, <2>5, <3>1, <3>2 DEF IInv, ReaderInv, CollectedCorrect
    <3>4. \A x, y \in DOMAIN index' : index'[x] = index'[y] => x = y
      BY <2>1, <2>5, <3>1, <3>2 DEF IInv, ReaderInv, CollectedCorrect
    <3>5. QED
      BY <2>1, <3>3, <3>4 DEF CollectedCorrect
  <2>8. ReadAndNodeAgree' /\ InputsInOrder'
    BY <2>1, <2>2 DEF IInv, ReaderInv, ReadAndNodeAgree, InputsInOrder
  <2>9. AskedNodeHasData' /\ NothingIsExplained' /\ StoreStep
    BY <2>1, <2>2
       DEF IInv, ReaderInv, AskedNodeHasData, NothingIsExplained, StoreStep, SequenceOf
  <2>10. QED
    BY <2>6, <2>7, <2>8, <2>9 DEF ReaderInv
<1>3. QED
  BY <1>1, <1>2

LEMMA StartDecodeStep ==
  ASSUME IInv, StartDecode
  PROVE  ReaderInv' /\ StoreStep
<1>1. /\ client = "asking" /\ Len(index) = ec_k /\ client' = "decoding"
      /\ UNCHANGED <<block, receive_data, index, answer, requests, replies, saved, running>>
      /\ pc' = "decoding" /\ epoch' = EpochOfInt(block) /\ pos' = PosOfInt(block)
      /\ received' = {} /\ ec_sealers' = ec_sealers
  BY DEF StartDecode, DecodeBegin, network, peers, config
<1>2. block \in Blocks
  BY <1>1 DEF IInv, ReaderInv, ClusterTypeOK
<1>3. ClusterTypeOK'
  BY <1>1 DEF IInv, ReaderInv, ClusterTypeOK
<1>4. ReadAndNodeAgree' /\ CollectedCorrect'
  BY <1>1, <1>2, KeyOfBlock DEF IInv, ReaderInv, ReadAndNodeAgree, CollectedCorrect
<1>5. InputsInOrder'
  <2>1. Cardinality({}) = 0 /\ 0 <= ec_k
    BY FS_EmptySet, BlockNumbersAssumption
  <2>2. QED
    BY <1>1, <2>1 DEF InputsInOrder
<1>6. AskedNodeHasData' /\ NothingIsExplained' /\ StoreStep
  BY <1>1 DEF IInv, ReaderInv, AskedNodeHasData, NothingIsExplained, StoreStep, SequenceOf
<1>7. QED
  BY <1>3, <1>4, <1>5, <1>6 DEF ReaderInv

LEMMA TakeInputStep ==
  ASSUME IInv, TakeInput
  PROVE  ReaderInv' /\ StoreStep
<1> DEFINE x == Cardinality(received) + 1
<1>1. /\ client = "decoding" /\ x <= Len(index)
      /\ UNCHANGED <<client, block, receive_data, index, answer, requests, replies, saved, running>>
      /\ pc = "decoding" /\ UNCHANGED <<pc, epoch, pos, ec_sealers>>
      /\ Cardinality(received) < ec_k /\ index[x] \notin received
      /\ received' = received \cup {index[x]}
  BY DEF TakeInput, DecodeInput, read, network, peers, config
<1>2. IsFiniteSet(received) /\ Cardinality(received) \in Nat
  BY ReceivedFinite DEF IInv
<1>3. Cardinality(received') = x /\ x <= ec_k
  <2>1. Cardinality(received \cup {index[x]}) = Cardinality(received) + 1
    BY <1>1, <1>2, FS_AddElement
  <2>2. ec_k \in Nat
    BY BlockNumbersAssumption
  <2>3. QED
    BY <1>1, <1>2, <2>1, <2>2
<1>4. InputsInOrder'
  <2>1. received = { index[y] : y \in 1 .. Cardinality(received) }
    BY <1>1 DEF IInv, ReaderInv, InputsInOrder
  <2>2. 1 .. x = (1 .. Cardinality(received)) \cup {x}
    BY <1>2
  <2> HIDE DEF x
  <2>3. received' = { index[y] : y \in 1 .. x }
    BY <1>1, <2>1, <2>2
  <2>4. QED
    BY <1>1, <1>3, <2>3 DEF InputsInOrder
<1>5. ClusterTypeOK' /\ ReadAndNodeAgree' /\ CollectedCorrect'
  BY <1>1 DEF IInv, ReaderInv, ClusterTypeOK, ReadAndNodeAgree, CollectedCorrect
<1>6. AskedNodeHasData' /\ NothingIsExplained' /\ StoreStep
  BY <1>1 DEF IInv, ReaderInv, AskedNodeHasData, NothingIsExplained, StoreStep, SequenceOf
<1>7. QED
  BY <1>4, <1>5, <1>6 DEF ReaderInv

LEMMA EndDecodeStep ==
  ASSUME IInv, EndDecode
  PROVE  ReaderInv' /\ StoreStep
<1>1. /\ client = "decoding" /\ DecodeEnd /\ EndRead(result'.value, ~ result'.had)
      /\ UNCHANGED <<network, peers>>
  BY DEF EndDecode
<1> DEFINE had   == pos \in received
           value == BlockOf(Recover(epoch, ptrs, present)[pos])
<1>2. /\ pc' = "idle" /\ ec_sealers' = ec_sealers
      /\ result' = [op |-> "decode", key |-> <<epoch, pos>>, value |-> value, had |-> had]
      /\ had \in BOOLEAN
  BY <1>1 DEF DecodeEnd, config
<1> HIDE DEF had, value
<1>3. result'.key = <<epoch, pos>> /\ result'.had \in BOOLEAN
  BY <1>2
<1>4. <<epoch, pos>> = KeyOf(block) /\ block \in Blocks
  BY <1>1 DEF IInv, ReaderInv, ReadAndNodeAgree, ClusterTypeOK
<1>5. /\ result'.had => result'.value = BlockOf(KeyOf(block))
      /\ result'.value \in {BlockOf(KeyOf(block)), NoValue}
  BY <1>1, <1>4, <1>3, DecodeEndStep DEF IInv
<1>6. /\ answer' \in [number : Blocks, value : Chunks \cup {NoValue}, lacking : BOOLEAN]
      /\ NothingIsExplained' /\ Store!Answer
  BY <1>1, <1>5, <1>3, EndReadStep
<1>7. ReaderInv'
  BY <1>1, <1>2, <1>6, ReadForgotten DEF EndRead
<1>8. QED
  BY <1>6, <1>7 DEF StoreStep, Store!Next

-----------------------------------------------------------------------------
(* The steps of the nodes.                                                 *)

\* A node answers, or its process ends.
LEMMA ServeStep ==
  ASSUME IInv, NEW n \in Peers, Serve(n)
  PROVE  ReaderInv' /\ StoreStep
<1>1. /\ UNCHANGED <<read, answer, requests, saved, ec_sealers, pc, epoch, pos, received>>
      /\ saved \in [Peers -> SUBSET Epochs] /\ running \in [Peers -> BOOLEAN]
      /\ requests \subseteq Requests /\ replies \subseteq Replies
  BY DEF Serve, vars, config, decoding, IInv, ReaderInv, ClusterTypeOK
<1>2. PICK request \in requests :
        \/ /\ \E data \in Lies : replies' = replies \cup {[key |-> request.key, data |-> data]}
           /\ UNCHANGED running
        \/ /\ replies' = replies \cup
                {[key |-> request.key,
                  data |-> IF ChunkSet[request.key[1]][request.key[2]] = SequenceOf(ec_sealers, n)
                           THEN request.key ELSE NoData]}
           /\ UNCHANGED running
        \/ /\ running' = [running EXCEPT ![n] = FALSE]
           /\ UNCHANGED replies
  BY DEF Serve
<1>3. request.key \in Chunks
  BY <1>1 DEF Requests
<1>4. \A data \in Chunks \cup {NoData, Damaged} : [key |-> request.key, data |-> data] \in Replies
  BY <1>3 DEF Replies
<1>5. Lies \subseteq Chunks \cup {NoData, Damaged}
  BY ClusterAssumption
<1>6. replies' \subseteq Replies /\ running' \in [Peers -> BOOLEAN]
  <2>1. CASE \E data \in Lies : /\ replies' = replies \cup {[key |-> request.key, data |-> data]}
                                /\ UNCHANGED running
    BY <1>1, <1>4, <1>5, <2>1
  <2>2. CASE /\ replies' = replies \cup
                   {[key |-> request.key,
                     data |-> IF ChunkSet[request.key[1]][request.key[2]] = SequenceOf(ec_sealers, n)
                              THEN request.key ELSE NoData]}
             /\ UNCHANGED running
    <3>1. (IF ChunkSet[request.key[1]][request.key[2]] = SequenceOf(ec_sealers, n)
           THEN request.key ELSE NoData) \in Chunks \cup {NoData, Damaged}
      BY <1>3
    <3>2. QED
      BY <1>1, <1>4, <2>2, <3>1
  <2>3. CASE /\ running' = [running EXCEPT ![n] = FALSE]
             /\ UNCHANGED replies
    BY <1>1, <2>3
  <2>4. QED
    BY <1>2, <2>1, <2>2, <2>3
<1>7. ReaderInv'
  BY <1>1, <1>6, ReadUntouched DEF IInv, ReaderInv, ReadAndNodeAgree
<1>8. QED
  BY <1>1, <1>7 DEF StoreStep, read

LEMMA ServeOwnStep ==
  ASSUME IInv, ServeOwn
  PROVE  ReaderInv' /\ StoreStep
<1>1. CASE Die
  BY <1>1, DieInStep
<1>2. CASE ~ Die
  <2>1. PICK request \in requests :
          /\ ec_db[request.key] # NotFound
          /\ replies' = replies \cup {[key |-> request.key, data |-> ec_db[request.key].data]}
          /\ UNCHANGED <<vars, read, answer, requests, peers>>
    BY <1>2 DEF ServeOwn
  <2>2. /\ request.key \in Chunks /\ replies \subseteq Replies
        /\ saved \in [Peers -> SUBSET Epochs] /\ running \in [Peers -> BOOLEAN]
    BY DEF IInv, ReaderInv, ClusterTypeOK, Requests
  <2>3. ec_db[request.key].data \in Chunks \cup {NoData, Damaged}
    BY <2>1, <2>2 DEF IInv, NodeInv, TypeOK, Records
  <2>4. replies' \subseteq Replies
    BY <2>1, <2>2, <2>3 DEF Replies
  <2>5. UNCHANGED <<saved, running, ec_sealers, pc, epoch, pos, received>>
    BY <2>1 DEF vars, config, decoding, peers
  <2>6. ReaderInv'
    BY <2>1, <2>2, <2>4, <2>5, ReadUntouched DEF IInv, ReaderInv, ReadAndNodeAgree
  <2>7. QED
    BY <2>1, <2>6 DEF StoreStep, read
<1>3. QED
  BY <1>1, <1>2

LEMMA PeerStep ==
  ASSUME IInv, NEW n \in Peers,
         PeerStops(n) \/ PeerStarts(n) \/ \E e \in Epochs : PeerSaves(n, e)
  PROVE  ReaderInv' /\ StoreStep
<1>1. /\ UNCHANGED <<read, answer, network, ec_sealers, pc, epoch, pos, received>>
      /\ saved \in [Peers -> SUBSET Epochs] /\ running \in [Peers -> BOOLEAN]
      /\ replies \subseteq Replies
  BY DEF PeerStops, PeerStarts, PeerSaves, vars, config, decoding, IInv, ReaderInv, ClusterTypeOK
<1>2. saved' \in [Peers -> SUBSET Epochs] /\ running' \in [Peers -> BOOLEAN]
  BY <1>1 DEF PeerStops, PeerStarts, PeerSaves
<1>3. ReaderInv'
  BY <1>1, <1>2, ReadUntouched DEF IInv, ReaderInv, ReadAndNodeAgree, network
<1>4. QED
  BY <1>1, <1>3 DEF StoreStep, read

\* What the reader's node does on its own account leaves the read alone.
LEMMA NodeRunsStep ==
  ASSUME IInv, NodeRuns \/ SaveRuns
  PROVE  ReaderInv' /\ StoreStep
<1>1. /\ UNCHANGED <<read, answer, network, peers>>
      /\ InitErasure \/ (Waiting /\ \E last \in LastBlocks : SaveChunk(last))
           \/ (\E key \in Chunks : DamageRecord(key)) \/ SaveStep
  BY DEF NodeRuns, SaveRuns
<1>2. /\ client # "none" => pc # "down"
      /\ client = "local" => pc = "idle"
      /\ client = "decoding" <=> pc = "decoding"
      /\ replies \subseteq Replies
      /\ saved \in [Peers -> SUBSET Epochs] /\ running \in [Peers -> BOOLEAN]
  BY DEF IInv, ReaderInv, ClusterTypeOK, ReadAndNodeAgree
<1>3. /\ ec_sealers' = ec_sealers
      /\ client # "none" => pc' # "down"
      /\ client = "local" => pc' = "idle"
      /\ client = "decoding" <=> pc' = "decoding"
      /\ client = "decoding" => UNCHANGED <<epoch, pos, received>>
  <2>1. CASE InitErasure
    BY <2>1, <1>2 DEF InitErasure
  <2>2. CASE Waiting /\ \E last \in LastBlocks : SaveChunk(last)
    BY <2>2, <1>2 DEF Waiting, SaveChunk, config
  <2>3. CASE \E key \in Chunks : DamageRecord(key)
    BY <2>3, <1>2 DEF DamageRecord, config, decoding
  <2>4. CASE SaveStep
    BY <2>4, <1>2 DEF SaveStep, WriteDB, SaveDone, config
  <2>5. QED
    BY <1>1, <2>1, <2>2, <2>3, <2>4
<1>4. UNCHANGED <<requests, replies, saved, running>>
  BY <1>1 DEF network, peers
<1>5. ReaderInv'
  BY <1>1, <1>2, <1>3, <1>4, ReadUntouched
<1>6. QED
  BY <1>1, <1>5 DEF StoreStep, read

-----------------------------------------------------------------------------
(* All steps together.                                                     *)

LEMMA ClusterInitially == ClusterInit => IInv /\ Store!Init
<1> SUFFICES ASSUME ClusterInit PROVE IInv /\ Store!Init
  OBVIOUS
<1> USE DEF ClusterInit
<1>1. NodeInv /\ ResultInv
  BY NodeInit DEF Init, ResultInv, NoWrongBlock, OwnBlockStaysReadable, AbortOnlyIfNotSaved,
                  DecodeKeepsReceived
<1>2. ClusterTypeOK
  BY EmptySeq, BlockNumbersAssumption DEF ClusterTypeOK
<1>3. ReadAndNodeAgree /\ CollectedCorrect /\ InputsInOrder
  BY DEF Init, ReadAndNodeAgree, CollectedCorrect, InputsInOrder
<1>4. AskedNodeHasData /\ NothingIsExplained /\ Store!Init
  BY DEF AskedNodeHasData, NothingIsExplained, Store!Init
<1>5. QED
  BY <1>1, <1>2, <1>3, <1>4 DEF IInv, ReaderInv

\* Every step keeps what is invariant and is a step of the store, or none of it.
LEMMA ClusterStep ==
  ASSUME IInv, ClusterNext
  PROVE  IInv' /\ StoreStep
<1>1. NodeInv' /\ ResultInv'
  BY StepOfNode, NodePart
<1>2. CASE \E b \in Blocks : Ask(b)
  BY <1>1, <1>2, AskStep DEF IInv
<1>3. CASE CallerRuns
  <2>1. ASSUME TimeOut PROVE ReaderInv' /\ StoreStep
    BY <2>1, AskAllStep DEF TimeOut
  <2>2. QED
    BY <1>1, <1>3, <2>1, ReadLocallyStep, StartDecodeStep, TakeInputStep, EndDecodeStep
       DEF IInv, CallerRuns
<1>4. CASE ChunkArrives \/ \E reply \in replies : ReceiveBlock(reply)
  BY <1>1, <1>4, ReceiveChunkStep, ReceiveBlockStep DEF IInv, ChunkArrives
<1>5. CASE ServeOwn \/ \E n \in Peers : Serve(n)
  BY <1>1, <1>5, ServeOwnStep, ServeStep DEF IInv
<1>6. CASE \E n \in Peers \ Faulty : \/ PeerStops(n) \/ PeerStarts(n)
                                     \/ \E e \in Epochs : PeerSaves(n, e)
  BY <1>1, <1>6, PeerStep DEF IInv
<1>7. CASE NodeRuns \/ SaveRuns \/ Die
  BY <1>1, <1>7, NodeRunsStep, DieInStep DEF IInv
<1>8. QED
  BY <1>2, <1>3, <1>4, <1>5, <1>6, <1>7 DEF ClusterNext

LEMMA ClusterStutter == IInv /\ UNCHANGED cvars => IInv'
<1> SUFFICES ASSUME IInv, UNCHANGED cvars PROVE IInv'
  OBVIOUS
<1> USE DEF cvars
<1>1. NodeInv' /\ ResultInv' /\ ec_sealers' = ec_sealers
  BY NodePart
<1>2. UNCHANGED <<read, answer, network, peers, pc, epoch, pos, received>>
  BY DEF vars, decoding
<1>3. ReaderInv'
  BY <1>1, <1>2, ReadUntouched
     DEF network, peers, IInv, ReaderInv, ClusterTypeOK, ReadAndNodeAgree
<1>4. QED
  BY <1>1, <1>3 DEF IInv

LEMMA ClusterInvHolds == ClusterSpec => []IInv
<1>1. IInv /\ [ClusterNext]_cvars => IInv'
  BY ClusterStep, ClusterStutter
<1>2. QED
  BY <1>1, ClusterInitially, PTL DEF ClusterSpec

-----------------------------------------------------------------------------
(* The theorems.                                                           *)

\* The reader's node, its read and the messages stay consistent, whatever faulty
\* nodes send and in whatever order, or how often, messages arrive.
THEOREM ClusterInvariant == ClusterSpec => []ClusterInv
<1>1. IInv => ClusterInv
  BY DEF IInv, ReaderInv, ClusterInv
<1>2. QED
  BY <1>1, ClusterInvHolds, PTL

\* A request goes to the node that stores the data asked for: the address of a
\* block, the placement, its inverse and what saveChunk keeps agree.
THEOREM RequestsReachData == ClusterSpec => []AskedNodeHasData
<1>1. IInv => AskedNodeHasData
  BY DEF IInv, ReaderInv
<1>2. QED
  BY <1>1, ClusterInvHolds, PTL

\* A read ends with nothing only for a block without bytes, or if decode did
\* without the chunk of the block.
THEOREM NothingHasAReason == ClusterSpec => []NothingIsExplained
<1>1. IInv => NothingIsExplained
  BY DEF IInv, ReaderInv
<1>2. QED
  BY <1>1, ClusterInvHolds, PTL

\* The cluster implements the store: a read ends with the block that was asked
\* for or with nothing, never with other bytes.
THEOREM ClusterImplementsStore == ClusterSpec => ImplementsBlockStore
<1>1. ASSUME IInv, [ClusterNext]_cvars
      PROVE  [Store!Next]_<<block, IF answer = NoAnswer THEN NoAnswer
                                   ELSE [number |-> answer.number, value |-> answer.value]>>
  BY <1>1, ClusterStep DEF StoreStep, cvars, read
<1>2. QED
  BY <1>1, ClusterInitially, ClusterInvHolds, PTL DEF ClusterSpec, ImplementsBlockStore, Store!Spec
=============================================================================
