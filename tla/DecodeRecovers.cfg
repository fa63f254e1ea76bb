CONSTANTS
  ec_k = 2
  ec_m = 1
  Word = 16
  MaxEpoch = 1
  ChunkSet <- MCChunkSet
  Sealers <- MCSealers
  ec_nodeid <- MCNodeId
  IdSize = 1
  OwnText <- MCOwnText
  SealerTexts <- MCSealerTexts
  cache_capacity = 2
  EmptyBlocks <- MCEmptyBlocks
  Zero = Zero
  Damaged = Damaged
  NoData = NoData
  NotFound = NotFound
  NoResult = NoResult
  NoValue = NoValue
  Abort = Abort
  MaxFailures = 0
  MaxDamage = 0
SPECIFICATION Spec
INVARIANT DecodeRecovers
