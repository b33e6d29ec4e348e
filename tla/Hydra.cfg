SPECIFICATION HydraSpec
CONSTANTS
  NumHeads = 3
  MinHeads = 1
  QueueSize = 3
  High = 1
  Low = 1
  Scalers = {s1, s2}
  Busy = {0}
  MaxPushes = 3
  MaxCalls = 4
  HS_HEADS = 3
  HitLoad = 2
  WeightMax = 5
  WeightShare = 4
  DistScale = 2
  BatchSize = 2
  Rate = 2
  Second = 3
  MaxSubmits = 4
  MaxTime = 4
  RamMin = 1
  RamMax = 2
  CpuMax = 1
  LoadMax = 2
  HydraMin = 4
  HydraMax = 32
  Seconds = 3
  MaxAsked = 5
INVARIANTS
  HeadsCounted
  TasksInOrder
  OpsOnceInOrder
  LimitsAreKept
  LoadSpread
CHECK_DEADLOCK FALSE
