\* Two threads miss on the same sector.
CONSTANTS
  t1 = t1
  t2 = t2
  t3 = t3
  Thread <- TwoThreads
  CACHE_LIMIT = 2
  Sector = {0}
  Value = {0}
  Zero = 0
  Uses <- AllShare
  MaxHeld = 1
  Deletes = FALSE
SPECIFICATION Spec
PROPERTY ImplementsStore
