SPECIFICATION RoutingSpec
CONSTANTS
  Scale = 16
  PhiUp = 26
  PhiDown = 10
  TwinEps = 2
  StreakMax = 3
  GapMax = 5
  Word = 4096
  Addresses <- AllAddresses
  MaxOps = 11
  WindowSize = 2
  TraceSize = 2
  GhostSize = 2
  CollapseTtl = 1
  Offsets = {0, 1, 2}
  Data = {0, 1}
  MaxCastleOps = 5
  EvoAddresses <- FoldingAddresses
  XorBits <- BitXor
  Bucket <- OneBucket
  Buckets = {0}
  FibSeed = 0
  FibLimit = 600
  AgeMax = 2
  EpochMod = 4
  AvgLoad = 1
  LoadMod = 4
  Dnas = {0, 3}
  MaxEvoOps <- EvoOps
  MeshScale = 16384
  MeshUp = 26509
  MeshDown = 10125
  MESH_SEEDS <- Seeds
  TailDepth = 6
  AndBits <- BitAnd
  MeshAddresses <- MixedAddresses
  MaxEvents = 7
  BufSize = 2
  BufLaps = 4
  BufFirst = 5
  MaxEntries = 6
INVARIANTS
  GhostRunBounded
  CastleRemembers
  LanesStick
  MeshRemembers
  BufferKeeps
PROPERTIES
  EvictsTheIdle
CHECK_DEADLOCK FALSE
