\* Processes exec, wait, exit and are killed in any order.
CONSTANTS
  init = init
  p1 = p1
  p2 = p2
  p3 = p3
  None = None
  Root = init
  Proc <- FourProcs
  ExitStatus = {0, 1}
  LoadFails = TRUE
  CreateFails = TRUE
  Kills = TRUE
SPECIFICATION Spec
SYMMETRY Children
INVARIANTS
  TypeOK
  ExecHonest
  StatusRight
  RecordOwned
  ReapedByOne
  WaitOnce
\* User programs need not call anything, and the processes are used up.
CHECK_DEADLOCK FALSE
