\* The library and the start of the kernel and of a program, over bounded inputs.
CONSTANTS
  Elem = {10, 11, 20}
  Rank <- ByTens
  HashKey = {0, 1, 2, 5}
  Twin = {"x", "y"}
  MIN_BUCKETS = 2
  BEST_ELEMS_PER_BUCKET = 1
  ELEM_BITS = 2
  BitCounts = {3, 4}
  MemSize = 5
  Byte = {0, 1, 2}
  Delims = {2}
  MaxCount = 6
  Value = {0, 1, 2}
  IntMax = 31
  W = 4
  TypeBits <- SmallTypes
  Arguments <- SomeArguments
  Strings <- SomeStrings
  Flags <- SomeFlags
  Widths <- SomeWidths
  Precisions <- SomePrecisions
  BufSizes = {0, 6}
  MaxItems = 1
  ScratchSize = 9
  BLOCK_SECTOR_SIZE = 2
  OctalDigits = 2
  INT_MAX = 31
  ULONG_MAX = 63
  NameRoom = 4
  HostArchives <- SomeArchives
  HostFiles <- SomeFiles
  PGSIZE = 4
  PHYS_BASE = 24
  AddrSpace = 32
  FileLength = 8
  Headers <- SomeHeaders
  CommandLines <- SomeCommandLines
  WORD = 2
  RADIX = 8
  StackTop = 64
  MaxJunk = 2
  CommandLine <- KernelLines
  LOADER_ARGS_LEN = 48
  Devices <- SomeDevices
  NoName = "NULL"
SPECIFICATION SequentialSpec
CHECK_DEADLOCK FALSE
INVARIANTS   StartsRight
