CONSTANTS
  r1 = r1
  r2 = r2
  r3 = r3
  r4 = r4
  r5 = r5
  r6 = r6
  r7 = r7
  r8 = r8
  r9 = r9
  r10 = r10
  r11 = r11
  r12 = r12
  a = a
  b = b
  e = e
  NumBlocks = 4
  BlockSize = 3
  MaxSeq = 7
  Caches <- FailRequests
  Token <- MCToken
  Prompts <- MCPrompts
  Chunks <- MCChunks
  Prompt <- FailPrompt
  MaxTokens <- FailMaxTokens
  EosId <- FailEosId
  Proposer <- FailProposer
  K <- FailK
  Ngram <- FailNgram
  Picks <- MixedPicks
  Guesses <- AnyGuess
  MaxBatch = 2
  PrefixSharing = TRUE
  ClearAnyTime = TRUE
SPECIFICATION SpecSchedSpec
CHECK_DEADLOCK FALSE
CONSTRAINT
  FewKnown
INVARIANTS
  TargetTokens
  LockStep
PROPERTIES
  StorageContracts
