SPECIFICATION FairSpec
CONSTANTS
  Size = 2
  Batch = 2
  Laps = 4
  First = 5
  MaxPush = 6
  MaxStart = 1
INVARIANTS
  DeliveredAsPushed
  NewestNeverLost
PROPERTIES
  StopEmpties
  StopReturns
CHECK_DEADLOCK FALSE
