-------------------------- MODULE BlockAddressing --------------------------
(***************************************************************************)
(* Block numbers over the life of a chain: the caller saves the blocks in  *)
(* groups of ec_k, the blocks numbered from 1, each group under the number *)
(* of its last block; any block number may be asked for at any time.       *)
(*                                                                         *)
(* The save side numbers by position in the vector (saveChunk), the read   *)
(* sides by arithmetic on the block number, and they must meet under the   *)
(* same names.  (Which chunks a node keeps, and caches, is in ErasureNode; *)
(* here every chunk is kept in both.)                                      *)
(***************************************************************************)
EXTENDS BlockNumbers, StorageKeys, FiniteSetsExt

CONSTANTS
  ec_m,     \* the number of parity chunks of an epoch
  None,     \* the answer where no block was saved
  Parity    \* what is saved at the positions of parity chunks

\* An epoch has fewer chunks than half the unsigned ints (2^31 in the program).
ASSUME AddressingAssumption ==
  ec_m \in Nat /\ ec_k + ec_m <= IntMax + 1

VARIABLES
  height,   \* the number of the last block saved
  stored,   \* the block saved under each key of the database
  cached,   \* ... and of the cache
  answer    \* the last question and the blocks it led to

vars == <<height, stored, cached, answer>>

Pos == 0 .. ec_k + ec_m - 1

\* The block under a key, None under a key nothing was saved under.
At(group, key) == IF key \in DOMAIN group THEN group[key] ELSE None

Init ==
  /\ height = 0
  /\ stored = [key \in {} |-> None]
  /\ cached = [key \in {} |-> None]
  /\ answer = [number |-> None]

\* saveChunk(blocks, last): blocks[p] goes to position p of the epoch of last, the
\* parity to the positions behind, one after the other.
SaveChunk ==
  LET last  == height + ec_k
      epoch == EpochOfInt(last)
      After(group, name(_)) ==
        [key \in DOMAIN group \cup { name(p) : p \in Pos } |->
           LET written == { p \in Pos : name(p) = key }
           IN  IF written = {} THEN group[key]
               ELSE IF Max(written) < ec_k THEN height + 1 + Max(written) ELSE Parity]
      DataKey(p) == GetChunkDataKey(epoch, p)
      OfCache(p) == CacheKey(epoch, p)
  IN  /\ last <= IntMax
      /\ stored' = After(stored, DataKey)
      /\ cached' = After(cached, OfCache)
      /\ height' = last
      /\ UNCHANGED answer

\* getBlockByNumber(b), and the calls its caller makes for the same block
\* with an int parameter: computeBlocksInWhichNode and computeChunkPosition.
Ask(b) ==
  LET position == ChunkPosition(ToInt(b)) IN
  /\ answer' = [number |-> b,
                saved  |-> b \in 1 .. height,
                cache  |-> At(cached, CacheKey(EpochOfUnsigned(b), PosOfUnsigned(b))),
                local  |-> At(stored, GetChunkDataKey(EpochOfUnsigned(b), PosOfUnsigned(b))),
                owner  |-> At(stored, GetChunkDataKey(EpochOfInt(ToInt(b)), PosOfInt(ToInt(b)))),
                remote |-> At(stored, GetChunkDataKey(ToUnsigned(position[1]),
                                                      ToUnsigned(position[2])))]
  /\ UNCHANGED <<height, stored, cached>>

\* The least int, whose predecessor overflows, is not asked for.
Next == SaveChunk \/ \E b \in Unsigneds \ {IntMax + 1} : Ask(b)

Spec == Init /\ [][Next]_vars

-----------------------------------------------------------------------------
\* The names are exactly those of the blocks saved so far, one in the database and
\* one in the cache for each: no group ever overwrites another.
SlotsAreBlocks ==
  /\ \A b \in 1 .. height : /\ At(stored, GetChunkDataKey(EpochOfUnsigned(b), PosOfUnsigned(b))) = b
                            /\ At(cached, CacheKey(EpochOfUnsigned(b), PosOfUnsigned(b))) = b
  /\ \A group \in {stored, cached} :
       /\ \A key \in DOMAIN group : group[key] \in (1 .. height) \cup {Parity}
       /\ \A s, t \in DOMAIN group : group[s] = group[t] /\ group[s] # Parity => s = t

\* A block that was saved is found by every way of asking for it, in the
\* unsigned and in the int arithmetic alike.
SavedBlocksAreFound ==
  answer.number # None /\ answer.saved =>
    /\ answer.cache  = answer.number
    /\ answer.local  = answer.number
    /\ answer.owner  = answer.number
    /\ answer.remote = answer.number

\* No other number, block 0 and the numbers above the int range included,
\* is taken for a block that was saved.
NoFalseBlock ==
  answer.number # None /\ ~ answer.saved =>
    {answer.cache, answer.local, answer.owner, answer.remote} = {None}
=============================================================================
