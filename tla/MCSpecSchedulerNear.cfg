CONSTANTS
  r1 = r1
  r2 = r2
  r3 = r3
  r4 = r4
  r5 = r5
  r6 = r6
  r7 = r7
  r8 = r8
  r9 = r9
  r10 = r10
  r11 = r11
  r12 = r12
  a = a
  b = b
  e = e
  NumBlocks = 5
  BlockSize = 2
  MaxSeq = 5
  Caches <- NearRequests
  Token <- MCToken
  Prompts <- MCPrompts
  Chunks <- MCChunks
  Prompt <- NearPrompt
  MaxTokens <- NearMaxTokens
  EosId <- NearEosId
  Proposer <- NearProposer
  K <- NearK
  Ngram <- NearNgram
  Picks <- GreedyPicks
  Guesses <- AnyGuess
  MaxBatch = 1
  PrefixSharing = FALSE
  ClearAnyTime = FALSE
SPECIFICATION SpecSchedSpec
CHECK_DEADLOCK FALSE
INVARIANT
  SpecServesPlain
