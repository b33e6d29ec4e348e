SPECIFICATION Spec
CONSTANTS
  Zones = {1, 2}
  DecayDiv = 2
  DecayCap = 2
  EpochMod = 3
  Interval = 2
  ReflexMin <- LowestBias
  ReflexMax = 2
  Demote <- Threshold
  DiamondIds = {1}
  BiasCap = 1
  BiasDiv = 8
  HeatDiv = 4
  HeatBoost = 1
  ColdStart = 1
  CountMax = 1
  Places = {1}
  PoolSize = 2
  Ttl = 1
  Entries <- RacingEntries
  Rewardable = {1}
  Overlap = TRUE
  MaxOps = 6
INVARIANTS
  DemotionNeedsHistory
CHECK_DEADLOCK FALSE
