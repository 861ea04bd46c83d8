\* Three threads of three priorities: nested locks, or a lock, a semaphore and sleeping.
CONSTANTS
  mainThread = mainThread
  threadA = threadA
  threadB = threadB
  lockA = lockA
  lockB = lockB
  semaA = semaA
  NULL = NULL
  Idle = Idle
  Main = mainThread
  Thread = {mainThread, threadA, threadB}
  Lock = {lockA, lockB}
  Semaphore = {semaA}
  LockOrder <- Order
  PRI_MAX = 2
  PRI_DEFAULT = 1
  MaxValue = 1
  MaxSleep = 1
  PreemptAnywhere = FALSE
SYMMETRY Workers
CONSTRAINT InMix
SPECIFICATION MCSpec
INVARIANTS
  
  LockExclusion
  NoLostWakeup
  
  WokenOnTime
