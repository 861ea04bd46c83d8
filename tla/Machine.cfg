\* Interrupts, devices, memory and the advanced scheduler.
CONSTANTS
  w1 = w1
  w2 = w2
  Job = {"first", "second"}
  Irq = {0, 14}
  Registered = {0, 14}
  Maskable = {14}
  MaxDepth = 2
  Writer <- OneWorker
  Reader <- OtherWorker
  INTQ_BUFSIZE = 3
  MaxOut = 5
  MaxIn = 4
  Nobody = Nobody
  Key = {2, 30, 83, 42, 54, 57400, 29, 58}
  INPUT_SIZE = 1
  Printer <- TwoWorkers
  Texts <- SomeTexts
  COL_CNT = 3
  ROW_CNT = 2
  TabStop = 2
  MaxWritten = 4
  NoPrinter = Nobody
  Disker <- TwoWorkers
  Signature <- SomeSignatures
  Capacity = {2, 3}
  TooBig = 3
  Tables <- SomeTables
  Datum = {0, 1}
  Formatted = 0
  NoDisker = Nobody
  Allocator <- TwoWorkers
  FreePages = 6
  UserLimit = 2
  BitsPerPage = 4
  PGSIZE = 10
  ArenaSize = 3
  MinBlock = 3
  Sizes = {2, 8}
  NoAllocator = Nobody
  Space <- TwoWorkers
  UPage = {0, 1}
  PT_SPAN = 2
  Phys = {1, 2, 3, 4}
  Kernel = Nobody
  SecPerMin = 11
  MinPerHour = 2
  HourPerDay = 2
  days_per_month <- ShortMonths
  FirstYear = 16
  LastYear = 16
  MaxElapsed = 2
  Thr = {1, 2}
  FLOAT = 8
  TIMER_FREQ = 4
  PRI_TICKS = 2
  TIME_SLICE = 3
  DECAY = 4
  PRI_MAX = 3
  Nices <- SomeNices
  MaxTicks = 5
SYMMETRY WorkerSymmetry
SPECIFICATION MachineSpec
CHECK_DEADLOCK FALSE
INVARIANTS ExternalAlone  BlocksIntact MemorySound 
