CONSTANTS
  ec_k = 2
  ec_m = 1
  Base = 2
  ByteRange = 3
  Blocks <- MCBlocks
  Digest <- MCDigest
  DigestSize <- MCDigestSize
  DamagedAt <- MCDamagedAt
  NotRead = NotRead
SPECIFICATION RecordSpec
INVARIANTS
  FormatInv
  ReadBackIsPrefix
  RecordReadsBack
