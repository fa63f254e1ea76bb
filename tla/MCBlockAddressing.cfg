CONSTANTS
  ec_k = 4
  ec_m = 2
  Word = 128
  KeyBase = 2
  CacheBase = 3
  None = None
  Parity = Parity
SPECIFICATION Spec
INVARIANTS
  SlotsAreBlocks
  SavedBlocksAreFound
  
