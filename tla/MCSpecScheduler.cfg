CONSTANTS
  r1 = r1
  r2 = r2
  r3 = r3
  r4 = r4
  r5 = r5
  r6 = r6
  r7 = r7
  r8 = r8
  r9 = r9
  r10 = r10
  r11 = r11
  r12 = r12
  a = a
  b = b
  e = e
  NumBlocks = 10
  BlockSize = 2
  MaxSeq = 11
  Caches <- ManyRequests
  Token <- MCToken
  Prompts <- MCPrompts
  Chunks <- MCChunks
  Prompt <- ManyPrompt
  MaxTokens <- ManyMaxTokens
  EosId <- ManyEosId
  Proposer <- ManyProposer
  K <- ManyK
  Ngram <- ManyNgram
  Picks <- GreedyPicks
  Guesses <- AnyGuess
  MaxBatch = 3
  PrefixSharing = TRUE
  ClearAnyTime = FALSE
SPECIFICATION FairSpecSched
CHECK_DEADLOCK FALSE
INVARIANTS
  BothPoolsFit
PROPERTIES
  SpecCompletes
  GreedyIsStepMachine
