SPECIFICATION Spec
CONSTANTS
  Zones = {1, 2}
  DecayDiv = 2
  DecayCap = 2
  EpochMod = 4
  Interval = 2
  ReflexMin <- LowestBias
  ReflexMax = 2
  Demote <- Threshold
  DiamondIds = {1, 2}
  BiasCap = 32
  BiasDiv = 8
  HeatDiv = 4
  HeatBoost = 3
  ColdStart = 2
  CountMax = 5
  Places = {1, 2}
  PoolSize = 3
  Ttl = 2
  Entries <- FewEntries
  Rewardable = {1, 2}
  Overlap = FALSE
  MaxOps = 7
INVARIANTS
  LazyIsEager
  HoneycombSound
CHECK_DEADLOCK FALSE
