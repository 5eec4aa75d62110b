CONSTANTS
  r1 = r1
  r2 = r2
  Requests <- MCRequests
  Answer <- MCAnswer
  MaxTokens <- MCMaxTokens
  MayStall = FALSE
  MayRaise = TRUE
  LateSubmits = FALSE
  MaxCancels <- NeverCancelled
  MaxStarts = 1
  MaxStops = 1
  NoDone = NoDone
SPECIFICATION MCSpec
CHECK_DEADLOCK FALSE
PROPERTY
  EveryStreamEnds
