\* Three threads compete for one sector.
CONSTANTS
  t1 = t1
  t2 = t2
  t3 = t3
  Thread <- ThreeThreads
  CACHE_LIMIT = 3
  Sector = {0}
  Value = {0}
  Zero = 0
  Uses <- AllShare
  MaxHeld = 1
  Deletes = FALSE
SYMMETRY ThreeSymmetry
SPECIFICATION Spec
INVARIANTS
  NoLostWakeup
