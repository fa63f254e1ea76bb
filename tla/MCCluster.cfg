CONSTANTS
  ec_k = 2
  ec_m = 1
  Word = 16
  MaxEpoch = 0
  ChunkSet <- MCChunkSet
  Sealers <- MCSealers
  ec_nodeid = "self"
  cache_capacity = 1
  EmptyBlocks <- MCEmptyBlocks
  Zero = Zero
  Damaged = Damaged
  NoData = NoData
  NotFound = NotFound
  NoResult = NoResult
  NoValue = NoValue
  Abort = Abort
  MaxFailures = 0
  MaxDamage = 1
  Peers = {"b", "c"}
  Faulty = {"c"}
  Lies <- MCLies
  NoBlock = NoBlock
  NoAnswer = NoAnswer
SPECIFICATION ClusterSpec
INVARIANTS
  ClusterInv
  NothingIsExplained
  AskedNodeHasData
PROPERTIES
  ImplementsBlockStore
  
