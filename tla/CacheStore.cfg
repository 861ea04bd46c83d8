\* Two threads on the same two sectors, which they read, write and delete, in
\* the runs in which no sector is brought in twice at once and nobody is given a
\* block of a deleted sector.  A thread on its way to such a block has no
\* allowed step, so deadlock is not checked here; the other runs check it.
CONSTANTS
  t1 = t1
  t2 = t2
  t3 = t3
  Thread <- TwoThreads
  CACHE_LIMIT = 2
  Sector = {0, 1}
  Value = {0, 1}
  Zero = 0
  Uses <- AllShare
  MaxHeld = 1
  Deletes = TRUE
SYMMETRY TwoSymmetry
SPECIFICATION UndisturbedSpec
PROPERTY ImplementsStore
CHECK_DEADLOCK FALSE
