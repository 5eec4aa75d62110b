CONSTANTS
  r1 = r1
  r2 = r2
  r3 = r3
  r4 = r4
  r5 = r5
  r6 = r6
  r7 = r7
  r8 = r8
  a = a
  b = b
  e = e
  NumBlocks = 5
  BlockSize = 2
  MaxSeq = 7
  Caches <- ManyRequests
  Token <- MCToken
  Prompts <- MCPrompts
  Chunks <- MCChunks
  Prompt <- ManyPrompt
  MaxTokens <- ManyMaxTokens
  Eos = e
  Sample <- MCSample
  MaxBatch = 2
  PrefixSharing = TRUE
  ClearAnyTime = TRUE
SPECIFICATION SchedSpec
CHECK_DEADLOCK FALSE
CONSTRAINT
  FewKnown
INVARIANTS
  StandaloneTokens
  CacheFollowsOutput
  ReservedExact
PROPERTIES
  OnlyClearOverCommits
  StorageContract
  IsStepMachine
