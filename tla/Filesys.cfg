\* Two threads in each part of the file system.
CONSTANTS
  w1 = w1
  w2 = w2
  fileA = fileA
  fileB = fileB
  Fiber <- TwoWorkers
  File = {2, 3}
  LastSector = 5
  N = 1
  INDEX_SIZE = 1
  Reads <- SomeReads
  Writes <- SomeWrites
  Walker <- TwoWorkers
  Inodes = {1, 2, 3}
  TooLong = "long"
  Calls <- TreeCalls
  MaxOpen = 1
  LastBit = 7
  BitsPerBlock = 3
  Proc <- TwoWorkers
  Plain <- TwoFiles
  DirInode = {"dir"}
  MaxFd = 3
  MaxLength = 1
  MaxLeak = 1
SYMMETRY Symmetry
SPECIFICATION FilesysSpec
CONSTRAINTS SecondFileLater OneReader TreeOrNames FewDescriptors
CHECK_DEADLOCK FALSE
INVARIANTS
   
   
  
  LowestDescriptor OpensCounted
 
