\* No call of exec, wait or exit hangs when nothing fails.
CONSTANTS
  init = init
  p1 = p1
  p2 = p2
  p3 = p3
  None = None
  Root = init
  Proc <- ThreeProcs
  ExitStatus = {0}
  LoadFails = FALSE
  CreateFails = FALSE
  Kills = FALSE
SPECIFICATION FairSpec
PROPERTIES
  WaitReturns
  
  ExitEnds
\* User programs need not call anything, and the processes are used up.
CHECK_DEADLOCK FALSE
