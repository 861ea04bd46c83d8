\* Two threads compete for two sectors in a cache of two blocks.
CONSTANTS
  t1 = t1
  t2 = t2
  t3 = t3
  Thread <- TwoThreads
  CACHE_LIMIT = 2
  Sector = {0, 1}
  Value = {0}
  Zero = 0
  Uses <- AllShare
  MaxHeld = 1
  Deletes = TRUE
SYMMETRY TwoSymmetry
SPECIFICATION Spec
INVARIANTS
  TypeOK
  Exclusion
  EvictAccounting
  WaitsForItsSector
  NoWritebackPanic
  EvictNeverWaits
PROPERTY InUseNotEvicted
