CONSTANTS
  Size = 4
  Batch = 2
  Laps = 2
  MaxPush = 10
  MaxOverflow = 1
SPECIFICATION FairSpec
PROPERTIES ForegroundEmpties EventuallyDrained StopReturns ImplementsQueue
