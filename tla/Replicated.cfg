SPECIFICATION FairSpec
CONSTANTS
  N = 3
  Chunks = 2
  Value <- MCValue
  Junk = "junk"
  Fp <- MCFp
INVARIANTS VoteAligned OutputAgreed
PROPERTIES ChunksPrinted
CHECK_DEADLOCK FALSE
