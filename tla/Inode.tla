------------------------------- MODULE Inode -------------------------------
(***************************************************************************)
(* The inodes of filesys/inode.c and the free map of filesys/free-map.c:   *)
(* files as trees of sectors (direct, indirect and doubly indirect), read, *)
(* written, grown, closed and removed by several threads.                  *)
(*                                                                         *)
(* A step is what a thread does while it holds one cache block, or the     *)
(* free map's lock inside it: threads are switched where they get a block  *)
(* or a lock.  Offsets and lengths are in sectors, and the contents of a   *)
(* data sector are one value, the file it was written through.  Opens of   *)
(* plain files are one step: the directory's lock is held by dir_lookup,   *)
(* dir_remove and dir_add while they open and by nobody else meanwhile.    *)
(***************************************************************************)
EXTENDS Integers, Sequences, FiniteSets, FiniteSetsExt, SequencesExt

CONSTANTS
  Fiber,        \* the threads
  File,         \* the sectors of the files' inodes
  LastSector,   \* the device has the sectors 0 .. LastSector
  N,            \* direct pointers in an inode: 123
  INDEX_SIZE,   \* pointers in an index block: 128
  Reads, Writes \* bound: the <<position, size>> of reads and of writes

NoFile == -1
Sectors == 0..LastSector
Slot == 0..Max({N + 1, INDEX_SIZE - 1})
MaxBlock == N + INDEX_SIZE + INDEX_SIZE * INDEX_SIZE - 1

ASSUME InodeConstants ==
  /\ N \in Nat \ {0} /\ INDEX_SIZE \in Nat \ {0} 
  /\ \A r \in Reads \cup Writes : r[1] \in Nat /\ r[2] \in Nat \ {0} /\ r[1] + r[2] <= MaxBlock + 1
  /\ LastSector \in Nat /\ File \subseteq 2..LastSector

VARIABLES
  free_map,   \* the sectors marked in the free map
  ptr,        \* the pointers in inode and index blocks; 0 is none
  data,       \* what was written to a data sector last
  dlen,       \* length in the inode on disk
  mem,        \* the open inodes
  deleted,    \* the files whose inode has been freed
  fiber       \* what each thread is doing

inodeVars == <<free_map, ptr, data, dlen, mem, deleted, fiber>>

Closed == [open_cnt |-> 0, removed |-> FALSE, dirty |-> FALSE, length |-> 0]
Resting == [at |-> "rest", f |-> NoFile, op |-> "none", pos |-> 0, size |-> 0,
            sector |-> 0, depth |-> 0]

-----------------------------------------------------------------------------
(* MLI_translate: the slots to follow from the inode to block number b.    *)
Path(b) ==
  IF b < N THEN <<b>>
  ELSE IF b < N + INDEX_SIZE THEN <<N, b - N>>
  ELSE LET r == b - N - INDEX_SIZE IN <<N + 1, r \div INDEX_SIZE, r % INDEX_SIZE>>

(* Go on with t at the sector s found at the current level of its path.    *)
Descend(t, s) ==
  fiber' = [fiber EXCEPT ![t].sector = s, ![t].depth = @ + 1,
              ![t].at = IF fiber[t].depth = Len(Path(fiber[t].pos)) THEN "data" ELSE "look"]

(* The pointer is read under shared access.  A hole is not filled yet: the *)
(* block is put and taken again exclusively.                               *)
Look(t) ==
  /\ fiber[t].at = "look"
  /\ LET s == ptr[fiber[t].sector][Path(fiber[t].pos)[fiber[t].depth]]
     IN IF s = 0 THEN fiber' = [fiber EXCEPT ![t].at = "grow"] ELSE Descend(t, s)
  /\ UNCHANGED <<free_map, ptr, data, dlen, mem, deleted>>

(* free_map_allocate of one sector: the first that is not marked.          *)
FreeSectors == Sectors \ free_map

AllocateUnmarked(s) == UNCHANGED free_map
free_map_allocate(s) == s = Min(FreeSectors) /\ free_map' = free_map \cup {s}

free_map_release(S) == free_map' = free_map \ S

(* expand_by_one under exclusive access to the parent: a zeroed sector, or *)
(* 0 when the device is full.  The pointer is not tested again.            *)
NoZero(t, s) ==
  /\ free_map_allocate(s)
  /\ ptr' = [ptr EXCEPT ![fiber[t].sector][Path(fiber[t].pos)[fiber[t].depth]] = s]
  /\ UNCHANGED data

expand_by_one(t, s) ==
  /\ free_map_allocate(s)
  /\ ptr' = [ptr EXCEPT ![s] = [i \in Slot |-> 0],
                        ![fiber[t].sector][Path(fiber[t].pos)[fiber[t].depth]] = s]
  /\ data' = [data EXCEPT ![s] = NoFile]

Grow(t) ==
  /\ fiber[t].at = "grow" /\ FreeSectors # {}
  /\ \E s \in FreeSectors : expand_by_one(t, s) /\ Descend(t, s)
  /\ UNCHANGED <<dlen, mem, deleted>>

(* Without a free sector MLI_translate stores and returns 0.  A write      *)
(* stops; a read goes on with sector 0.                                    *)
GrowFails(t) ==
  /\ fiber[t].at = "grow" /\ FreeSectors = {}
  /\ ptr' = [ptr EXCEPT ![fiber[t].sector][Path(fiber[t].pos)[fiber[t].depth]] = 0]
  /\ fiber' = [fiber EXCEPT ![t].sector = 0, ![t].depth = 0,
                            ![t].at = IF fiber[t].op = "write" THEN "length" ELSE "data"]
  /\ UNCHANGED <<free_map, data, dlen, mem, deleted>>

-----------------------------------------------------------------------------
(* The top of the loops of inode_read_at and inode_write_at.  A read stops *)
(* at the end of the file; a write ends with a look at the length.         *)
Turn(p) ==
  IF p.size > 0 /\ ~(p.op = "read" /\ mem[p.f].length <= p.pos)
  THEN [p EXCEPT !.at = "look", !.sector = p.f, !.depth = 1]
  ELSE IF p.op = "write" THEN [p EXCEPT !.at = "length", !.sector = 0, !.depth = 0]
  ELSE [Resting EXCEPT !.f = p.f]

Access(t, op, pos, size) ==
  /\ fiber[t].at = "rest" /\ fiber[t].f # NoFile
  /\ fiber' = [fiber EXCEPT ![t] = Turn([@ EXCEPT !.op = op, !.pos = pos, !.size = size])]
  /\ UNCHANGED <<free_map, ptr, data, dlen, mem, deleted>>

(* Copy a sector under shared access and advance.                          *)
Copy(t) ==
  /\ fiber[t].at = "data"
  /\ LET p == fiber[t]
     IN /\ fiber' = [fiber EXCEPT ![t] = Turn([p EXCEPT !.pos = @ + 1, !.size = @ - 1])]
        /\ data' = IF p.op = "write" THEN [data EXCEPT ![p.sector] = p.f] ELSE data
  /\ UNCHANGED <<free_map, ptr, dlen, mem, deleted>>

(* The end of a write, under the inode's lock: the length grows to the     *)
(* offset reached plus the size that is left.                              *)
Lengthen(t) ==
  /\ fiber[t].at = "length"
  /\ LET p == fiber[t]
     IN mem' = IF mem[p.f].length < p.size + p.pos
               THEN [mem EXCEPT ![p.f].length = p.size + p.pos, ![p.f].dirty = TRUE]
               ELSE mem
  /\ fiber' = [fiber EXCEPT ![t] = [Resting EXCEPT !.f = fiber[t].f]]
  /\ UNCHANGED <<free_map, ptr, data, dlen, deleted>>

inode_read_at(t, pos, size) == Access(t, "read", pos, size)

inode_write_at(t, pos, size) == Access(t, "write", pos, size)

-----------------------------------------------------------------------------
(* inode_open and inode_reopen of a file; its length comes from the disk   *)
(* only when it is opened first.                                           *)
inode_open(t, f) ==
  /\ fiber[t].at = "rest" /\ fiber[t].f = NoFile
  /\ f \notin deleted /\ ~mem[f].removed
  /\ mem' = IF mem[f].open_cnt = 0
            THEN [mem EXCEPT ![f] = [Closed EXCEPT !.open_cnt = 1, !.length = dlen[f]]]
            ELSE [mem EXCEPT ![f].open_cnt = @ + 1]
  /\ fiber' = [fiber EXCEPT ![t].f = f]
  /\ UNCHANGED <<free_map, ptr, data, dlen, deleted>>

inode_remove(t) ==
  /\ fiber[t].at = "rest" /\ fiber[t].f # NoFile
  /\ mem' = [mem EXCEPT ![fiber[t].f].removed = TRUE]
  /\ UNCHANGED <<free_map, ptr, data, dlen, deleted, fiber>>

(* inode_close: a changed length is written to the inode on disk ...       *)
inode_close(t) ==
  /\ fiber[t].at = "rest" /\ fiber[t].f # NoFile
  /\ LET f == fiber[t].f
     IN /\ dlen' = IF mem[f].dirty THEN [dlen EXCEPT ![f] = mem[f].length] ELSE dlen
        /\ fiber' = [fiber EXCEPT ![t].at = IF mem[f].dirty THEN "clean" ELSE "drop"]
  /\ UNCHANGED <<free_map, ptr, data, mem, deleted>>

(* ... the inode's block is put, and the inode is clean ...                *)
Clean(t) ==
  /\ fiber[t].at = "clean"
  /\ mem' = [mem EXCEPT ![fiber[t].f].dirty = FALSE]
  /\ fiber' = [fiber EXCEPT ![t].at = "drop"]
  /\ UNCHANGED <<free_map, ptr, data, dlen, deleted>>

(* ... and the last to close it frees it, and its sectors if it was        *)
(* removed.                                                                *)
Drop(t) ==
  /\ fiber[t].at = "drop"
  /\ LET f == fiber[t].f
         last == mem[f].open_cnt = 1
     IN /\ mem' = IF last THEN [mem EXCEPT ![f] = Closed] ELSE [mem EXCEPT ![f].open_cnt = @ - 1]
        /\ deleted' = IF last /\ mem[f].removed THEN deleted \cup {f} ELSE deleted
        /\ fiber' = [fiber EXCEPT ![t] = IF last /\ mem[f].removed
                                         THEN [Resting EXCEPT !.at = "free", !.f = f, !.sector = f]
                                         ELSE Resting]
  /\ UNCHANGED <<free_map, ptr, data, dlen>>

(* inode_free_data, one index block at a time: the direct sectors, then    *)
(* the indirect block and its sectors, then the doubly indirect one with   *)
(* the sectors of its inner blocks; and last the inode's own sector.       *)
Pointed(s, slots) == {ptr[s][i] : i \in slots} \ {0}

Released(f, stage) ==
  CASE stage = "free" -> Pointed(f, 0..(N - 1))
    [] stage = "free_indirect" ->
         IF ptr[f][N] = 0 THEN {} ELSE {ptr[f][N]} \cup Pointed(ptr[f][N], 0..(INDEX_SIZE - 1))
    [] stage = "free_two" ->
         IF ptr[f][N + 1] = 0 THEN {}
         ELSE {ptr[f][N + 1]} \cup
              UNION {Pointed(s, 0..(INDEX_SIZE - 1)) : s \in Pointed(ptr[f][N + 1], 0..(INDEX_SIZE - 1))}
    [] stage = "free_self" -> {f}

NextStage(stage) ==
  CASE stage = "free" -> "free_indirect" [] stage = "free_indirect" -> "free_two"
    [] stage = "free_two" -> "free_self" [] stage = "free_self" -> "rest"

inode_free_data(t) ==
  /\ fiber[t].at \in {"free", "free_indirect", "free_two", "free_self"}
  /\ LET stage == fiber[t].at
         f == fiber[t].f
     IN /\ free_map_release(Released(f, stage))
        /\ fiber' = [fiber EXCEPT ![t] = IF stage = "free_self" THEN Resting
                                         ELSE [@ EXCEPT !.at = NextStage(stage)]]
  /\ UNCHANGED <<ptr, data, dlen, mem, deleted>>

-----------------------------------------------------------------------------
(* Every file starts out created and empty.                                *)
InodeInit ==
  /\ free_map = {0, 1} \cup File
  /\ ptr = [s \in Sectors |-> [i \in Slot |-> 0]]
  /\ data = [s \in Sectors |-> NoFile]
  /\ dlen = [s \in File |-> 0]
  /\ mem = [f \in File |-> Closed]
  /\ deleted = {}
  /\ fiber = [t \in Fiber |-> Resting]

InodeStep(t) ==
  \/ \E f \in File : inode_open(t, f)
  \/ \E r \in Reads : inode_read_at(t, r[1], r[2])
  \/ \E r \in Writes : inode_write_at(t, r[1], r[2])
  \/ Look(t) \/ Grow(t) \/ GrowFails(t) \/ Copy(t) \/ Lengthen(t)
  \/ inode_remove(t) \/ inode_close(t) \/ Clean(t) \/ Drop(t) \/ inode_free_data(t)

InodeNext == \E t \in Fiber : InodeStep(t)

InodeSpec == InodeInit /\ [][InodeNext]_inodeVars

-----------------------------------------------------------------------------
(* Every variable has its type.                                            *)
InodeTypeOK ==
  /\ free_map \subseteq Sectors
  /\ ptr \in [Sectors -> [Slot -> Sectors]] /\ data \in [Sectors -> File \cup {NoFile}]
  /\ dlen \in [File -> 0..(MaxBlock + 1)]
  /\ \A f \in File : /\ mem[f].open_cnt \in 0..Cardinality(Fiber)
                     /\ mem[f].length \in 0..(MaxBlock + 1)
  /\ \A t \in Fiber : fiber[t].f \in File \cup {NoFile} /\ fiber[t].sector \in Sectors

(* The sectors that a file's index reaches, with the slot that names each. *)
Level1(f) == {<<f, i>> : i \in 0..(N + 1)}
IndexSlots(s) == {<<s, i>> : i \in 0..(INDEX_SIZE - 1)}
Edges(f) ==
  LET inner == Pointed(f, {N}) \cup
               UNION {Pointed(s, 0..(INDEX_SIZE - 1)) : s \in Pointed(f, {N + 1})}
      all == Level1(f) \cup UNION {IndexSlots(s) : s \in inner \cup Pointed(f, {N + 1})}
  IN {e \in all : ptr[e[1]][e[2]] # 0}
Live == File \ deleted

(* No sector is named twice: not by two files, not by two slots of one,    *)
(* however growth, failure and removal interleave.                         *)
NoSharing ==
  LET edges == UNION {Edges(f) : f \in Live}
  IN /\ \A d, e \in edges : ptr[d[1]][d[2]] = ptr[e[1]][e[2]] => d = e
     /\ \A e \in edges : ptr[e[1]][e[2]] \notin {1} \cup Live

(* What a file's index names is marked in the free map: it cannot be given *)
(* to another file.                                                        *)
ReachableMarked ==
  \A f \in Live : f \in free_map /\ \A e \in Edges(f) : ptr[e[1]][e[2]] \in free_map

(* A data sector of a file holds what was written through that file, or    *)
(* zeros: what a former owner of the sector left is never seen.            *)
OwnData ==
  \A f \in Live, b \in 0..MaxBlock :
     LET p == Path(b)
         s1 == ptr[f][p[1]]
         s2 == IF Len(p) = 1 \/ s1 = 0 THEN s1 ELSE ptr[s1][p[2]]
         s3 == IF Len(p) < 3 \/ s2 = 0 THEN s2 ELSE ptr[s2][p[3]]
     IN s3 # 0 => data[s3] \in {f, NoFile}
=============================================================================
