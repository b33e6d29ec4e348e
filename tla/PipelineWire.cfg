SPECIFICATION WireSpec
CONSTANTS
  Tiles = {t1}
  Bits = {}
  SigSize = 2
  NumLanes = 2
  Batch = 2
  Gate = 2
  NumSlots = 1
  HitMod = 4
  Mature = 3
  Sigs <- OneSig
  Ctxs = {c1}
  NoCtx = NoCtx
  MayFail = {1}
  MaxOps = 5
  MaxRestarts = 1
INVARIANTS
  LanesLoseOnlyRefused
  SnapshotCadence
CHECK_DEADLOCK FALSE
