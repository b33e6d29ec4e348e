SPECIFICATION WireSpec
CONSTANTS
  Tiles = {t1}
  Bits = {}
  SigSize = 2
  NumLanes = 1
  Batch = 1
  Gate = 2
  NumSlots = 2
  HitMod = 4
  Mature = 3
  Sigs <- CollidingSigs
  Ctxs = {c1, c2}
  NoCtx = NoCtx
  MayFail = {}
  MaxOps = 7
  MaxRestarts = 0
SYMMETRY CtxSymmetry
INVARIANTS
  MainIsEarned
  CacheIsEarned
CHECK_DEADLOCK FALSE
