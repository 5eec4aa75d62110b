CONSTANTS
  host = host
  device = device
  MaxMade = 3
  NumLayers = 2
  KV = 2
  Rep = 2
  D = 2
  QkNorm = TRUE
  Context = 5
  Experts = 4
  TopK = 2
  RouterLogit <- MCRouterLogit
  Hosts <- MCHosts
  Devices <- MCDevices
  MaxSeq = 4
  Ids <- MCIds
  Batches <- MCBatches
  SpecBatches <- MCSpecBatches
  Fails <- MCFails
  TargetLogits <- MCTargetLogits
  DraftLogits <- MCDraftLogits
  Runs <- MCRuns
  Layers = 2
  Models <- MCModels
  Lanes = 2
  Bytes = 2
SPECIFICATION MCSpec
CHECK_DEADLOCK FALSE
INVARIANTS
  RowsStandalone
  CacheExact
  TokensOfTarget
  DistributionKept
  LoopCaches
  NucleusMinimal
  LoadedAsConfigured
  PackedExact
