CONSTANTS
  c1 = c1
  c2 = c2
  d1 = d1
  t1 = t1
  t2 = t2
  NumBlocks = 2
  BlockSize = 2
  MaxSeq = 3
  Caches <- MCCaches
  Token <- MCToken
  Prompts <- MCPrompts
  Chunks <- MCChunks
  Prefilled <- MCPrefilled
  Decoded <- MCDecoded
  Decoders = {d1}
  None = None
  Warp = 4
  Vec = 2
  GemvMaxM = 2
  BigN = 16
  AlignN = 8
  AlignK = 4
  Tile <- MCTile
  Calls <- MCCalls
  WarpsPerBlock = 3
  TileMinHeadDim = 2
  MinKeysPerSplit = 2
  TargetWarps = 9
  AttnCalls <- MCAttnCalls
SPECIFICATION MCSpec
SYMMETRY MCSymmetry
CHECK_DEADLOCK FALSE
INVARIANTS
  DeviceTableCoherent
  NoDanglingCursor
  GemmExact
  LoadsInBounds
  AttentionExact
PROPERTIES
  IsPagedKV
