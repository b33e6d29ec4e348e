SPECIFICATION CoreSpec
CONSTANTS
  Max = 4
  Gate = 2
  Nexus = 2
  MaxPush = 9
  NodeMax = 6
  AnchorStride = 3
  PageSize = 4
  Base = 0
  DataStride = 6
  NodeBytes = {0, 3, 9}
  NumNodes = 2
  Stride = 2
  Share = 3
  SplitThresh = 1
  ActMax = 4
  GhostTicks = 1
  Batch = 2
  CommitBatch = 2
  MaxOps = 5
  MaxTicks = 3
INVARIANTS
  PeekIsTimeline
  FlushedIsTimeline
  PendingDataKept
  EachOnceInItsWorld
  CrashWindow
  DeadTransitions
CHECK_DEADLOCK FALSE
