CONSTANTS
  r1 = r1
  r2 = r2
  Requests <- MCRequests
  Answer <- MCAnswer
  MaxTokens <- MCMaxTokens
  MayStall = TRUE
  MayRaise = TRUE
  LateSubmits = TRUE
  MaxCancels <- TwiceCancelled
  MaxStarts = 2
  MaxStops = 2
  NoDone = NoDone
SPECIFICATION MCSpec
CHECK_DEADLOCK FALSE
INVARIANTS
  OneBook
  ReasonTrue
  NoOrphans
  AnswersWhole
  StreamedText
PROPERTIES
  IsTokenStream
  StreamsEndUnlessCut
  ConnectionsEnd
