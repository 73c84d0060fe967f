CONSTANTS
  Workers = {w1, w2}
  Render = render
  x = x
  y = y
  Routings <- MCRoutings
  MaxSources = 3
  MaxStages = 3
  GenMod = 3
  Limits = {0, 1, 2}
  Addresses = {1, 2, 3}
  MaxPreviews = 4
  Patience = 2
  Targets = {"a", "b"}
  NoTarget = "none"
  QueueSize = 2
  MaxCalls = 4
  MaxPanics = 2
  PanicMidNote = FALSE
  NInputs = 2
  NOutputs = 2
  Connections = 2
  PortQueue = 1
  IndexMod = 2
  FirstIndex = 1
  Waits = TRUE
  MaxEvents = 2
  MaxSends = 1
  MaxConfigs = 3
SPECIFICATION AFairSpec
INVARIANTS
  StagesExact
  ClipsAccounted
  NoHangingNote
  PatchbayExact
PROPERTIES
  PoolReturns
CHECK_DEADLOCK FALSE
