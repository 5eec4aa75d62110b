CONSTANTS
  r1 = r1
  r2 = r2
  r3 = r3
  r4 = r4
  r5 = r5
  r6 = r6
  r7 = r7
  r8 = r8
  a = a
  b = b
  e = e
  NumBlocks = 3
  BlockSize = 2
  MaxSeq = 6
  Caches <- ApartRequests
  Token <- MCToken
  Prompts <- MCPrompts
  Chunks <- MCChunks
  Prompt <- ApartPrompt
  MaxTokens <- ApartMaxTokens
  Eos = e
  Sample <- MCSample
  MaxBatch = 2
  PrefixSharing = TRUE
  ClearAnyTime = FALSE
SPECIFICATION FairSpec
CHECK_DEADLOCK FALSE
PROPERTY
  Completes
