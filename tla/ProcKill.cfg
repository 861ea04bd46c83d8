\* A child that an exception ends.
CONSTANTS
  init = init
  p1 = p1
  p2 = p2
  p3 = p3
  None = None
  Root = init
  Proc <- ThreeProcs
  ExitStatus = {0}
  LoadFails = FALSE
  CreateFails = FALSE
  Kills = TRUE
SPECIFICATION FairSpec
PROPERTY
  WaitReturns
\* User programs need not call anything, and the processes are used up.
CHECK_DEADLOCK FALSE
