SPECIFICATION Spec
CONSTANTS
  Lanes = {l1}
  MaxWrites = 3
  RingMax = 2
  Pending = Pending
  MaxPushes = 4
INVARIANTS
  DeltaKept
  HoldsNewest
  ConfirmedIsOnDisk
CHECK_DEADLOCK FALSE
