CONSTANTS
  c1 = c1
  c2 = c2
  t1 = t1
  t2 = t2
  NumBlocks = 3
  BlockSize = 2
  MaxSeq = 4
  Caches <- MCCaches
  Token <- MCToken
  Prompts <- MCPrompts
  Chunks <- MCChunks
SPECIFICATION Spec
SYMMETRY MCSymmetry
INVARIANTS
  BlocksAccounted
  KVExact
  CachedExact
PROPERTIES
  SharedReadOnly
  PrivateHistories
CHECK_DEADLOCK FALSE
