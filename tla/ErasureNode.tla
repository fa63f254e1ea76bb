---------------------------- MODULE ErasureNode ----------------------------
(***************************************************************************)
(* One storage node: the class Erasure with its database, its cache and    *)
(* its operations, on a chain whose blocks every node agrees on.           *)
(*                                                                         *)
(* A chunk is named <<epoch, position>>; encoding and digests are abstract *)
(* here: the digest of a chunk is the chunk's name, so a record passes the *)
(* digest check exactly when its data is the chunk the digest was made of. *)
(* The library runs in one thread, so an action is a whole call, except    *)
(* for saveChunk and decode: one action is one iteration of their loops,   *)
(* because the process may die between two of them and because the order   *)
(* in which chunks reach decode is not fixed.                              *)
(***************************************************************************)
EXTENDS BlockNumbers, LRU, FiniteSets

CONSTANTS
  ec_m,             \* the number of parity chunks of an epoch
  MaxEpoch,         \* bound: the last epoch of the chain
  ChunkSet,         \* ChunkSet[e]: what getDistinctChunkSet(e) returns (ChunkPlacement)
  Sealers,          \* bound: the sealer lists the node may be constructed with
  ec_nodeid,        \* the id of this node
  cache_capacity,   \* the capacity of the cache
  EmptyBlocks,      \* the data chunks whose block has no bytes
  Zero,             \* a chunk of zero bytes
  Damaged,          \* a chunk that is none of the chain's
  NoData,           \* the data of a record that is only a digest
  NotFound,         \* what the database has under a key never put
  NoResult,         \* no call has just returned
  Abort,            \* a failed assert: the process ends
  MaxFailures,      \* bound: how many Puts of the database fail
  MaxDamage         \* bound: how many records are damaged on disk

N         == ec_k + ec_m
Pos       == 0 .. N-1
DataPos   == 0 .. ec_k-1
Epochs    == 0 .. MaxEpoch
Chunks    == Epochs \X Pos
Blocks    == 1 .. ec_k * (MaxEpoch + 1)
LastBlocks == { ec_k * (e + 1) : e \in Epochs }

\* An unsigned int that is no index: what -1 becomes for a node that is no sealer.
NoIndex == Word - 1

\* What the database may hold and what a call may return.
Records == [data : Chunks \cup {NoData, Damaged}, digest : Chunks]
Results == [op : {"get", "local", "decode"}, key : Chunks,
            value : Chunks \cup {NoValue, Damaged, Abort}, had : BOOLEAN]

ASSUME NodeAssumption ==
  /\ ec_m \in Nat \ {0}
  /\ N < NoIndex
  /\ MaxEpoch \in Nat
  /\ ec_k * (MaxEpoch + 1) <= IntMax
  /\ \A e \in Epochs :
       /\ ChunkSet[e] \in [Pos -> Pos]
       /\ \A p, q \in Pos : ChunkSet[e][p] = ChunkSet[e][q] => p = q
  /\ \A s \in Sealers : /\ DOMAIN s = Pos
                        /\ \A x, y \in Pos : s[x] = s[y] => x = y
  /\ cache_capacity \in Int
  /\ EmptyBlocks \subseteq Chunks
  /\ MaxFailures \in Nat /\ MaxDamage \in Nat

\* The values that stand for something else than a chunk are not chunks,
\* nor records, nor each other.
ASSUME DistinctAssumption ==
  /\ {Zero, Damaged, NoData, Abort, NoValue} \cap Chunks = {}
  /\ Damaged # NoData /\ Abort # NoValue
  /\ NotFound \notin Records /\ NoResult \notin Results

VARIABLES
  ec_sealers,              \* the sealer list, fixed when the node is configured
  ec_position_in_sealers,  \* the index of this node in it
  ec_db,                   \* the database: survives the process
  ec_cache,                \* the cache, keys and values being chunks (LRU)
  complete_coding_epoch,   \* the epoch saved last
  pc,                      \* which call is running, "down" if no process is
  epoch,                   \* the epoch of the running saveChunk or decode
  i,                       \* the loop variable of saveChunk
  pos,                     \* chunk_pos of the running decode
  ptrs,                    \* the shards of the running decode
  present,                 \* which of them erasure_recover takes as given
  received,                \* the positions in index so far
  result,                  \* what the call that ended in this step returned
  failed,                  \* history: the keys whose last Put failed
  acked,                   \* history: epochs saved by a call with no failed Put
  failures, damages        \* the counters of the two bounds

disk     == <<ec_db, failed, acked, failures, damages>>
config   == <<ec_sealers, ec_position_in_sealers>>
decoding == <<pos, ptrs, present, received>>
vars     == <<config, disk, ec_cache, complete_coding_epoch, pc, epoch, i, decoding, result>>

NoPtrs == [p \in Pos |-> Zero]

-----------------------------------------------------------------------------
(* Parts of the operations.                                                *)

\* findSequenceInSealers, converted to unsigned int: -1 becomes NoIndex.
\* (The same computation on another node has that node's id.)
SequenceOf(sealers, id) ==
  IF \E x \in Pos : sealers[x] = id
  THEN CHOOSE x \in Pos : sealers[x] = id
  ELSE NoIndex

SequenceInSealers(sealers) == SequenceOf(sealers, ec_nodeid)

\* saveChunk keeps the data of a chunk where its index is this node's own ...
KeepsData(e, p) == ChunkSet[e][p] = ec_position_in_sealers

\* ... and computeBlocksInWhichNode gives a node id, which getBlockByNumber
\* compares with its own.  (It passes the block number as an int.)
OwnerOf(b) == ec_sealers[ChunkSet[EpochOfInt(ToInt(b))][PosOfInt(ToInt(b))]]

IsOwner(b) == OwnerOf(b) = ec_nodeid

\* Mutant of Record: the digest is stored without the data for every chunk.
RecordOfDigest(e, p) == [data |-> NoData, digest |-> <<e, p>>]

\* The value writeDB puts: the chunk followed by its digest, or the digest only.
Record(e, p) == [data   |-> IF KeepsData(e, p) THEN <<e, p>> ELSE NoData,
                 digest |-> <<e, p>>]

\* unpackChunkToBlock: the block in a chunk, the empty vector if it has no bytes.
BlockOf(chunk) == IF chunk \in EmptyBlocks \cup {Zero} THEN NoValue ELSE chunk

\* localReadBlock on a record that was read: a digest that does not fit the
\* data (there is none in a record of a digest only) yields the empty vector.
LocalBlock(record) ==
  IF record.data = record.digest THEN BlockOf(record.data) ELSE NoValue

\* erasure_recover, abstractly: too few shards present is an error and writes
\* nothing; otherwise the absent shards are computed from ec_k present ones.
Recover(e, shards, given) ==
  LET G == { p \in Pos : given[p] }
  IN  IF Cardinality(G) < ec_k THEN shards
      ELSE [p \in Pos |-> IF p \in G THEN shards[p]
                          ELSE IF \A q \in G : shards[q] = <<e, q>> THEN <<e, p>>
                          ELSE Damaged]

\* generate_ptrs: every shard is marked present, whatever the caller had set.
GeneratedPresent == [p \in Pos |-> TRUE]

-----------------------------------------------------------------------------
Init ==
  /\ ec_sealers \in Sealers
  /\ ec_position_in_sealers = NoIndex
  /\ ec_db = [c \in Chunks |-> NotFound]
  /\ ec_cache = <<>>
  /\ complete_coding_epoch = -1
  /\ pc = "down"
  /\ epoch = 0 /\ i = 0
  /\ pos = 0 /\ ptrs = NoPtrs /\ present = GeneratedPresent /\ received = {}
  /\ result = NoResult
  /\ failed = {} /\ acked = {}
  /\ failures = 0 /\ damages = 0

\* Everything the process has in memory is gone.
LoseMemory ==
  /\ pc' = "down"
  /\ ec_cache' = <<>>
  /\ complete_coding_epoch' = -1
  /\ epoch' = 0 /\ i' = 0
  /\ pos' = 0 /\ ptrs' = NoPtrs /\ present' = GeneratedPresent /\ received' = {}

\* initErasure in a new process: the database is as the last one left it.
InitErasure ==
  /\ pc = "down"
  /\ pc' = "idle"
  /\ ec_position_in_sealers' = SequenceInSealers(ec_sealers)
  /\ result' = NoResult
  /\ UNCHANGED <<ec_sealers, disk, ec_cache, complete_coding_epoch, epoch, i, decoding>>

-----------------------------------------------------------------------------
(* saveChunk.                                                              *)

\* saveChunk(blocks, last) begins; the same epoch may be saved again.
SaveChunk(last) ==
  /\ pc = "idle"
  /\ pc' = "saving"
  /\ epoch' = EpochOfInt(last)
  /\ i' = 0
  /\ result' = NoResult
  /\ UNCHANGED <<config, disk, ec_cache, complete_coding_epoch, decoding>>

\* Mutant of PutOK: the key of the database is the position alone.
PutOKAnyEpoch(key) ==
  /\ ec_db' = [c \in Chunks |-> IF c[2] = key[2] THEN Record(key[1], key[2]) ELSE ec_db[c]]
  /\ failed' = failed \ {key}
  /\ UNCHANGED failures

\* Mutant of PutOK: a chunk that is another node's leaves no record at all.
PutOKOwnOnly(key) ==
  /\ ec_db' = IF KeepsData(key[1], key[2])
              THEN [ec_db EXCEPT ![key] = Record(key[1], key[2])] ELSE ec_db
  /\ failed' = failed \ {key}
  /\ UNCHANGED failures

\* The database takes the record, or reports an error and has what it had.
PutOK(key) ==
  /\ ec_db' = [ec_db EXCEPT ![key] = Record(key[1], key[2])]
  /\ failed' = failed \ {key}
  /\ UNCHANGED failures

PutError(key) ==
  /\ failures < MaxFailures
  /\ failures' = failures + 1
  /\ failed' = failed \cup {key}
  /\ UNCHANGED ec_db

\* One iteration of the loop, with writeDB: the node's own chunk goes into the
\* cache first and then into the database, and the result is not looked at.
WriteDB ==
  LET key == <<epoch, i>>
  IN  /\ pc = "saving" /\ i < N
      /\ ec_cache' = IF KeepsData(epoch, i)
                     THEN AfterPut(ec_cache, key, key, cache_capacity)
                     ELSE ec_cache
      /\ PutOK(key) \/ PutError(key)
      /\ i' = i + 1
      /\ result' = NoResult
      /\ UNCHANGED <<config, acked, damages, complete_coding_epoch, pc, epoch, decoding>>

\* Mutant of SaveDone: the last chunk is not waited for.
SaveDoneEarly ==
  /\ pc = "saving" /\ i >= N - 1
  /\ pc' = "idle"
  /\ complete_coding_epoch' = epoch
  /\ acked' = IF \E p \in Pos : <<epoch, p>> \in failed THEN acked ELSE acked \cup {epoch}
  /\ epoch' = 0 /\ i' = 0
  /\ result' = NoResult
  /\ UNCHANGED <<config, ec_db, failed, failures, damages, ec_cache, decoding>>

\* Mutant of SaveDone: the loop is compared with one index too many.
SaveDoneLate ==
  /\ pc = "saving" /\ i > N
  /\ pc' = "idle"
  /\ UNCHANGED <<config, disk, ec_cache, complete_coding_epoch, epoch, i, decoding, result>>

\* The loop ends, whatever the Puts returned.
SaveDone ==
  /\ pc = "saving" /\ i = N
  /\ pc' = "idle"
  /\ complete_coding_epoch' = epoch
  /\ acked' = IF \E p \in Pos : <<epoch, p>> \in failed THEN acked ELSE acked \cup {epoch}
  /\ epoch' = 0 /\ i' = 0
  /\ result' = NoResult
  /\ UNCHANGED <<config, ec_db, failed, failures, damages, ec_cache, decoding>>

-----------------------------------------------------------------------------
(* Reading.                                                                *)

Return(op, key, value) ==
  result' = [op |-> op, key |-> key, value |-> value, had |-> FALSE]

\* readChunk asserts that the key is there; otherwise the process ends.
AbortRead(op, key) ==
  /\ ec_db[key] = NotFound
  /\ LoseMemory
  /\ Return(op, key, Abort)
  /\ UNCHANGED <<config, disk>>

\* getBlockByNumber: from the cache, from the own database, or not at all.
GetBlockByNumber(b) ==
  LET key   == <<EpochOfUnsigned(b), PosOfUnsigned(b)>>
      chunk == Lookup(ec_cache, key)
  IN  /\ pc = "idle"
      /\ \/ /\ chunk # NoValue
            /\ ec_cache' = AfterGet(ec_cache, key)
            /\ Return("get", key, BlockOf(chunk))
            /\ UNCHANGED <<config, disk, complete_coding_epoch, pc, epoch, i, decoding>>
         \/ /\ chunk = NoValue
            /\ ~ IsOwner(b)
            /\ Return("get", key, NoValue)
            /\ UNCHANGED <<config, disk, ec_cache, complete_coding_epoch, pc, epoch, i, decoding>>
         \/ /\ chunk = NoValue
            /\ IsOwner(b)
            /\ ec_db[key] # NotFound
            /\ Return("get", key, LocalBlock(ec_db[key]))
            /\ UNCHANGED <<config, disk, ec_cache, complete_coding_epoch, pc, epoch, i, decoding>>
         \/ /\ chunk = NoValue
            /\ IsOwner(b)
            /\ AbortRead("get", key)

\* localReadBlock, called directly: any data chunk, whoever owns it, and no cache.
\* (A parity chunk has no length header to unpack; no caller asks for one.)
LocalReadBlock(key) ==
  /\ pc = "idle"
  /\ \/ /\ ec_db[key] # NotFound
        /\ Return("local", key, LocalBlock(ec_db[key]))
        /\ UNCHANGED <<config, disk, ec_cache, complete_coding_epoch, pc, epoch, i, decoding>>
     \/ AbortRead("local", key)

-----------------------------------------------------------------------------
(* decode.                                                                 *)

DecodeBegin(b) ==
  /\ pc = "idle"
  /\ pc' = "decoding"
  /\ epoch' = EpochOfInt(b)
  /\ pos' = PosOfInt(b)
  /\ ptrs' = NoPtrs
  /\ present' = GeneratedPresent
  /\ received' = {}
  /\ result' = NoResult
  /\ UNCHANGED <<config, disk, ec_cache, complete_coding_epoch, i>>

\* Mutant of DecodeInput: the chunk is cached under its place in the input.
DecodeInputByIndex(seq, chunk) ==
  /\ pc = "decoding"
  /\ Cardinality(received) < ec_k /\ seq \notin received
  /\ ptrs' = [ptrs EXCEPT ![seq] = chunk]
  /\ present' = [present EXCEPT ![seq] = TRUE]
  /\ received' = received \cup {seq}
  /\ ec_cache' = AfterPut(ec_cache, <<epoch, Cardinality(received)>>, chunk, cache_capacity)
  /\ result' = NoResult
  /\ UNCHANGED <<config, disk, complete_coding_epoch, pc, epoch, i, pos>>

\* The next input, at a position not had before.  It is cached as it comes.
DecodeInput(seq, chunk) ==
  /\ pc = "decoding"
  /\ Cardinality(received) < ec_k /\ seq \notin received
  /\ ptrs' = [ptrs EXCEPT ![seq] = chunk]
  /\ present' = [present EXCEPT ![seq] = TRUE]
  /\ received' = received \cup {seq}
  /\ ec_cache' = AfterPut(ec_cache, <<epoch, seq>>, chunk, cache_capacity)
  /\ result' = NoResult
  /\ UNCHANGED <<config, disk, complete_coding_epoch, pc, epoch, i, pos>>

\* Mutant of DecodeEnd: the shard returned is indexed among the inputs.
DecodeEndByRank ==
  /\ pc = "decoding"
  /\ Cardinality(received) = ec_k
  /\ pc' = "idle"
  /\ LET chunk == Recover(epoch, ptrs, present)[Cardinality({p \in received : p < pos})]
     IN  result' = [op |-> "decode", key |-> <<epoch, pos>>, value |-> BlockOf(chunk),
                    had |-> pos \in received]
  /\ epoch' = 0 /\ pos' = 0 /\ ptrs' = NoPtrs /\ present' = GeneratedPresent /\ received' = {}
  /\ UNCHANGED <<config, disk, ec_cache, complete_coding_epoch, i>>

\* k chunks have been taken: recover, and return the shard of the target.
\* (The caller unpacks it to the block.)
DecodeEnd ==
  /\ pc = "decoding"
  /\ Cardinality(received) = ec_k
  /\ pc' = "idle"
  /\ LET chunk == Recover(epoch, ptrs, present)[pos]
     IN  result' = [op |-> "decode", key |-> <<epoch, pos>>, value |-> BlockOf(chunk),
                    had |-> pos \in received]
  /\ epoch' = 0 /\ pos' = 0 /\ ptrs' = NoPtrs /\ present' = GeneratedPresent /\ received' = {}
  /\ UNCHANGED <<config, disk, ec_cache, complete_coding_epoch, i>>

-----------------------------------------------------------------------------
(* What happens to the node.                                               *)

\* The process dies at any point of any call.  What Put has acknowledged is
\* in the operating system and stays (the writes are not synced, so a loss of
\* power could take the last ones; that is not modelled here).
Crash ==
  /\ pc # "down"
  /\ LoseMemory
  /\ result' = NoResult
  /\ UNCHANGED <<config, disk>>

\* The bytes of a chunk change on disk.
DamageRecord(key) ==
  /\ damages < MaxDamage
  /\ ec_db[key] # NotFound
  /\ ec_db[key].data \notin {NoData, Damaged}
  /\ ec_db' = [ec_db EXCEPT ![key].data = Damaged]
  /\ damages' = damages + 1
  /\ result' = NoResult
  /\ UNCHANGED <<config, failed, acked, failures, ec_cache, complete_coding_epoch, pc, epoch, i, decoding>>

SaveStep == WriteDB \/ SaveDone

\* The inputs of decode are correct chunks of its epoch, as example.cpp demands.
Next ==
  \/ InitErasure
  \/ \E last \in LastBlocks : SaveChunk(last)
  \/ SaveStep
  \/ \E b \in Blocks : GetBlockByNumber(b) \/ DecodeBegin(b)
  \/ \E key \in Epochs \X DataPos : LocalReadBlock(key)
  \/ \E key \in Chunks : DamageRecord(key)
  \/ \E seq \in Pos : DecodeInput(seq, <<epoch, seq>>)
  \/ DecodeEnd
  \/ Crash

\* saveChunk runs on once it has begun; nothing obliges anyone to call.
Spec == Init /\ [][Next]_vars /\ WF_vars(SaveStep)
-----------------------------------------------------------------------------
TypeOK ==
  /\ ec_sealers \in Sealers
  /\ ec_position_in_sealers \in Pos \cup {NoIndex}
  /\ ec_db \in [Chunks -> Records \cup {NotFound}]
  /\ complete_coding_epoch \in Epochs \cup {-1}
  /\ pc \in {"down", "idle", "saving", "decoding"}
  /\ epoch \in Epochs
  /\ i \in 0 .. N
  /\ pos \in DataPos
  /\ ptrs \in [Pos -> Chunks \cup {Zero}]
  /\ present \in [Pos -> BOOLEAN]
  /\ received \subseteq Pos
  /\ result \in Results \cup {NoResult}
  /\ failed \subseteq Chunks
  /\ acked \subseteq Epochs
  /\ failures \in 0 .. MaxFailures
  /\ damages \in 0 .. MaxDamage

\* The cache holds chunks under their own names.
CacheEntries == { [key |-> c, value |-> c] : c \in Chunks }
CacheCorrect == ec_cache \in Seq(CacheEntries)

\* The position is that of the sealer list once there is anything it was used for.
Configured ==
  \/ ec_position_in_sealers = SequenceInSealers(ec_sealers)
  \/ pc = "down" /\ acked = {} /\ \A key \in Chunks : ec_db[key] = NotFound

\* A record has the digest of its key and, where it keeps the data, that of its key.
RecordsCorrect ==
  \A key \in Chunks : ec_db[key] # NotFound =>
    /\ ec_db[key].digest = key
    /\ ec_db[key].data \in IF KeepsData(key[1], key[2]) THEN {key, Damaged} ELSE {NoData}

\* The iterations of saveChunk so far have stored their chunks, or failed.
SavedSoFar ==
  pc = "saving" =>
    \A p \in 0 .. i-1 : ec_db[<<epoch, p>>] # NotFound \/ <<epoch, p>> \in failed

AckedStored == \A e \in acked, p \in Pos : ec_db[<<e, p>>] # NotFound

\* The shards of decode are the chunks received, or zero, and all marked present.
DecodedSoFar ==
  pc = "decoding" =>
    \A p \in Pos : present[p] /\ ptrs[p] = IF p \in received THEN <<epoch, p>> ELSE Zero

\* What ties cache, database, records of saves and shards together in every state,
\* between the iterations of a save or a decode included.  All that a call returns
\* is read off one of them, so the properties below follow from it.
NodeInv == /\ TypeOK /\ CacheCorrect /\ Configured /\ RecordsCorrect
           /\ SavedSoFar /\ AckedStored /\ DecodedSoFar

\* No call ever returns the bytes of another block than the one asked for,
\* whether it was cached by saveChunk or decode, read from a record that was
\* damaged in the meantime, or decoded.
NoWrongBlock ==
  result # NoResult => result.value \in {result.key, NoValue, Abort}

\* Once saveChunk has returned for an epoch with every Put accepted, the node
\* never again fails to read the block it owns there: not after the cache has
\* evicted it, a crash, a restart, or a later save of which a Put fails.  (A
\* damaged record is reported as an empty block.)
OwnBlockStaysReadable ==
  result # NoResult =>
    LET e == result.key[1]
        p == result.key[2]
    IN  (result.op \in {"get", "local"} /\ e \in acked /\ KeepsData(e, p)
           /\ ec_db[result.key].data # Damaged)
        => result.value = BlockOf(result.key)

\* A read ends the process only for an epoch whose save never came through.
AbortOnlyIfNotSaved ==
  result # NoResult /\ result.value = Abort => result.key[1] \notin acked

\* The storage promise of the README, O(1) per block over all nodes: of every
\* epoch a node stores the data of at most one chunk, of a saved epoch exactly
\* one if it is a sealer and none if it is not.
OneDataChunkPerEpoch ==
  \A e \in Epochs :
    LET kept == { p \in Pos : ec_db[<<e, p>>] # NotFound /\ ec_db[<<e, p>>].data # NoData }
    IN  /\ Cardinality(kept) <= 1
        /\ e \in acked =>
             ((kept # {}) <=> \E x \in Pos : ec_sealers[x] = ec_nodeid)

\* What is missing of the epoch recorded as complete is missing because its
\* Put failed: a complete save skips no chunk.
CompleteUpToFailedPuts ==
  complete_coding_epoch # -1 =>
    \A p \in Pos : LET key == <<complete_coding_epoch, p>>
                   IN  ec_db[key] = NotFound => key \in failed

\* decode gives back the target's chunk whenever it was among the inputs.
DecodeKeepsReceived ==
  result # NoResult /\ result.op = "decode" /\ result.had =>
    result.value = BlockOf(result.key)

\* saveChunk always comes to its end, unless the process does.
SaveTerminates == pc = "saving" ~> pc # "saving"

(* What the documentation says and the code does not do.                   *)

\* example.cpp: k correct chunks are enough for decode to give the block.
DecodeRecovers ==
  result # NoResult /\ result.op = "decode" => result.value = BlockOf(result.key)

\* Erasure.h: complete_coding_epoch is the completed epoch, so all its records
\* are in the database.
CompletedEpochIsStored ==
  complete_coding_epoch # -1 =>
    \A p \in Pos : ec_db[<<complete_coding_epoch, p>>] # NotFound
=============================================================================
