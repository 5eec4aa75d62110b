CONSTANTS
  r1 = r1
  r2 = r2
  r3 = r3
  r4 = r4
  r5 = r5
  r6 = r6
  r7 = r7
  r8 = r8
  a = a
  b = b
  e = e
  NumBlocks = 4
  BlockSize = 2
  MaxSeq = 6
  Caches <- FewRequests
  Token <- MCToken
  Prompts <- MCPrompts
  Chunks <- MCChunks
  Prompt <- FewPrompt
  MaxTokens <- FewMaxTokens
  Eos = e
  Sample <- MCSample
  MaxBatch = 2
  PrefixSharing = TRUE
  ClearAnyTime = TRUE
SPECIFICATION SchedSpec
CHECK_DEADLOCK FALSE
INVARIANTS
  NeverOutOfBlocks
