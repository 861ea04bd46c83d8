------------------------------ MODULE FreeMap ------------------------------
(***************************************************************************)
(* The life of the free map, filesys/free-map.c, through formatting, work, *)
(* shutdown and the next boot (filesys_init, do_format and filesys_done of *)
(* filesys/filesys.c).  The map is a file whose blocks are allocated from  *)
(* the map itself.  Sectors and blocks of the map file are numbers; block  *)
(* b of the file holds the bits of MapBits(b).                             *)
(***************************************************************************)
EXTENDS Integers, FiniteSets, FiniteSetsExt

CONSTANTS
  LastBit,      \* the device has the sectors 0 .. LastBit
  BitsPerBlock  \* bits of the map in one block of its file

FREE_MAP_SECTOR == 0
ROOT_SECTOR == 1
Bits == 0..LastBit
MapBlock == 0..(LastBit \div BitsPerBlock)
MapBits(b) == {s \in Bits : s \div BitsPerBlock = b}

ASSUME FreeMapConstants == LastBit \in Nat /\ BitsPerBlock \in Nat \ {0}

VARIABLES
  bits,           \* the sectors marked in memory
  mapped,         \* the sector of each block of the map file; 0 is none
  cached, stored, \* the contents of the map file, in the cache and on disk
  init_complete,
  map_lock,       \* is the lock held?
  next,           \* the next block that bitmap_write writes
  root_block,     \* the sector of the root directory's entries
  life            \* where the system is between power on and power off

freeMapVars == <<bits, mapped, cached, stored, init_complete, map_lock, next, root_block, life>>

(* Contents of the file after block b is written from memory.              *)
Put(file_bits, b, from) == (file_bits \ MapBits(b)) \cup (from \cap MapBits(b))

-----------------------------------------------------------------------------
(* filesys_init: free_map_init marks the two sectors; the map is formatted *)
(* or opened.                                                              *)
filesys_init(format) ==
  /\ life = "off"
  /\ ~format => stored # {}
  /\ bits' = {FREE_MAP_SECTOR, ROOT_SECTOR}
  /\ life' = IF format THEN "create" ELSE "open"
  /\ init_complete' = ~format
  /\ mapped' = IF format THEN [b \in MapBlock |-> 0] ELSE mapped
  /\ cached' = IF format THEN {} ELSE stored
  /\ UNCHANGED <<stored, map_lock, next, root_block>>

(* free_map_create: inode_create writes the last byte of the file, which   *)
(* allocates its last block.                                               *)
Allocate(b) ==
  LET s == Min(Bits \ bits)
  IN bits' = bits \cup {s} /\ mapped' = [mapped EXCEPT ![b] = s]

free_map_create ==
  /\ life = "create"
  /\ Allocate(Max(MapBlock))
  /\ life' = "write" /\ next' = 0
  /\ UNCHANGED <<cached, stored, init_complete, map_lock, root_block>>

(* bitmap_write, one block: a hole is filled by free_map_allocate, which   *)
(* takes the lock.  Its caller may hold it: that fails an assertion.       *)
WriteBlock(goOn) ==
  LET hole == mapped[next] = 0
      now == IF hole THEN bits \cup {Min(Bits \ bits)} ELSE bits
  IN IF hole /\ map_lock
     THEN life' = "panic" /\ UNCHANGED <<bits, mapped, cached, next>>
     ELSE /\ bits' = now
          /\ mapped' = IF hole THEN [mapped EXCEPT ![next] = Min(Bits \ bits)] ELSE mapped
          /\ cached' = Put(cached, next, now)
          /\ next' = IF next = Max(MapBlock) THEN 0 ELSE next + 1
          /\ life' = IF next = Max(MapBlock) THEN goOn ELSE life

CreateWrite == /\ life = "write" /\ WriteBlock("close")
               /\ UNCHANGED <<stored, init_complete, map_lock, root_block>>

(* free_map_flush: the map is written under the lock.  free_map_close sets *)
(* init_complete first.                                                    *)
free_map_flush(from, goOn) ==
  /\ life = from
  /\ WriteBlock(goOn)
  /\ map_lock' = (life' = from)
  /\ init_complete' = TRUE
  /\ UNCHANGED <<stored, root_block>>

(* do_format makes the root directory before it closes the map: one more   *)
(* sector, not written to the file yet as init_complete is false.          *)
do_format ==
  /\ life = "close"
  /\ root_block' = Min(Bits \ bits)
  /\ bits' = bits \cup {root_block'}
  /\ life' = "formatted"
  /\ UNCHANGED <<mapped, cached, stored, init_complete, map_lock, next>>
free_map_close == free_map_flush("formatted", "open")

(* free_map_open reads the map from its file.                              *)
free_map_open ==
  /\ life = "open"
  /\ bits' = cached /\ life' = "run"
  /\ UNCHANGED <<mapped, cached, stored, init_complete, map_lock, next, root_block>>

-----------------------------------------------------------------------------
(* free_map_allocate and free_map_release write the whole map, block by    *)
(* block, under the lock.                                                  *)
allocate ==
  /\ life = "run" /\ Bits # bits
  /\ bits' = bits \cup {Min(Bits \ bits)}
  /\ life' = "saving" /\ map_lock' = TRUE
  /\ UNCHANGED <<mapped, cached, stored, init_complete, next, root_block>>

release(s) ==
  /\ life = "run" /\ s \in bits \ ({FREE_MAP_SECTOR, ROOT_SECTOR} \cup {mapped[b] : b \in MapBlock} \cup {root_block})
  /\ bits' = bits \ {s}
  /\ life' = "saving" /\ map_lock' = TRUE
  /\ UNCHANGED <<mapped, cached, stored, init_complete, next, root_block>>

SaveMap ==
  /\ life = "saving"
  /\ WriteBlock("run")
  /\ map_lock' = (life' = "saving")
  /\ UNCHANGED <<stored, init_complete, root_block>>

(* The cache writes its blocks back at any time.                           *)
WriteBack(b) ==
  /\ life \notin {"off", "panic"}
  /\ stored' = Put(stored, b, cached)
  /\ UNCHANGED <<bits, mapped, cached, init_complete, map_lock, next, life, root_block>>

(* filesys_done: the cache is flushed, then the map written once more.     *)
DoneUnflushed ==
  /\ life = "run" /\ life' = "done"
  /\ UNCHANGED <<bits, mapped, cached, stored, init_complete, map_lock, next, root_block>>
filesys_done ==
  /\ life = "run"
  /\ stored' = cached /\ life' = "done"
  /\ UNCHANGED <<bits, mapped, cached, init_complete, map_lock, next, root_block>>
DoneFlush == free_map_flush("done", "off")

FreeMapInit ==
  /\ bits = {} /\ mapped = [b \in MapBlock |-> 0] /\ cached = {} /\ stored = {}
  /\ init_complete = FALSE /\ map_lock = FALSE /\ next = 0 /\ root_block = 0
  /\ life = "off"

FreeMapNext ==
  \/ \E format \in BOOLEAN : filesys_init(format)
  \/ free_map_create \/ CreateWrite \/ do_format \/ free_map_close \/ free_map_open
  \/ allocate \/ (\E s \in Bits : release(s)) \/ SaveMap
  \/ (\E b \in MapBlock : WriteBack(b)) \/ filesys_done \/ DoneFlush

FreeMapSpec == FreeMapInit /\ [][FreeMapNext]_freeMapVars

-----------------------------------------------------------------------------
(* The map is written under its lock only when its file has no holes: no   *)
(* write of the map needs the lock that its caller holds.                  *)
NoSelfDeadlock == life # "panic" /\ (map_lock => \A b \in MapBlock : mapped[b] # 0)

(* What was allocated while the disk was formatted, the map file's own     *)
(* blocks and the root directory's, is marked and each block is marked for *)
(* itself: neither formatting nor a boot forgets it.                       *)
MapKeepsItself ==
  life \in {"run", "saving", "done"} =>
     /\ root_block \in bits
     /\ \A b, c \in MapBlock :
           /\ mapped[b] \in bits \ {FREE_MAP_SECTOR, ROOT_SECTOR, root_block}
           /\ mapped[b] = mapped[c] => b = c

(* What the system knew when it was shut down is what the next boot reads, *)
(* though filesys_done flushes the cache before it writes the map.         *)
MapSurvives == life = "off" /\ bits # {} => stored = bits
=============================================================================
