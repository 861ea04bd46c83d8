----------------------- MODULE BufferCacheDataProofs -----------------------
(***************************************************************************)
(* The invariant behind the contents of the buffer cache: a sector is in   *)
(* one block at most, all who use it use that block, and a block without   *)
(* unwritten changes agrees with the disk.  It holds as long as no two     *)
(* threads bring in the same sector at once (SoleMiss) and nobody is given *)
(* a block of a deleted sector (NoReuse).                                  *)
(***************************************************************************)
EXTENDS BufferCacheProofs

\* A sector is in one valid block at most.
OneCopy == \A b, c \in Block :
             blocks[b].valid /\ blocks[c].valid /\ blocks[b].bs_id = blocks[c].bs_id => b = c
\* The block a thread has of a sector is the one that is loaded, if any is.
HeldIsLoaded == \A t \in Thread, b, c \in Block :
                  hold[t][b].mode # "none" /\ blocks[c].valid /\ blocks[b].bs_id = blocks[c].bs_id
                    => b = c
\* All who have a sector have the same block.
SameBlock == \A t, u \in Thread, b, c \in Block :
               /\ hold[t][b].mode # "none" /\ hold[u][c].mode # "none"
               /\ blocks[b].bs_id = blocks[c].bs_id
               => b = c
\* A block without unwritten changes agrees with the disk.
Clean == \A b \in Block :
           /\ blocks[b].valid /\ ~blocks[b].dirty
           /\ \A t \in Thread : hold[t][b].mode # "none" => hold[t][b].phase # "wrote"
           => blocks[b].data = disk[blocks[b].bs_id]
\* The sector of a block marked deleted is free.
Deleted == \A b \in Block : blocks[b].deleted => blocks[b].valid /\ blocks[b].bs_id \in freed
\* A search for a sector does not miss it.
Passed(t, c) == \/ At(t, "probe") /\ c < call[t].i
                \/ call[t].pc \in {"down", "scan", "store", "next"}
Missed == \A t \in Thread, c \in Block : Passed(t, c) => ~Hit(c, call[t].sector)
\* A thread waits for a block that is loaded.
WaitsLoaded == \A t \in Thread : call[t].pc \in {"window", "asleep", "woken"} =>
                                   blocks[call[t].i].valid

DataInv == OneCopy /\ HeldIsLoaded /\ SameBlock /\ Clean /\ Deleted
SInv == DataInv /\ Missed /\ WaitsLoaded

-----------------------------------------------------------------------------
\* Block c keeps its sector and its contents.
Kept(c) == /\ blocks'[c].bs_id = blocks[c].bs_id /\ blocks'[c].data = blocks[c].data
           /\ (blocks'[c].valid <=> blocks[c].valid) /\ (blocks'[c].dirty <=> blocks[c].dirty)
           /\ (blocks'[c].deleted <=> blocks[c].deleted)

\* Counting users and waiters leaves the rest of a block alone.
LEMMA CountersOnly ==
  ASSUME NEW blk \in CacheBlock, NEW x \in BOOLEAN,
         NEW r, r \in {Counted(blk, x), Counted(NotPending(blk), x), Released(blk),
                       [blk EXCEPT !.pending_requests = @ + 1]}
  PROVE  /\ r.bs_id = blk.bs_id /\ r.data = blk.data
         /\ r.valid = blk.valid /\ r.dirty = blk.dirty /\ r.deleted = blk.deleted
<1>1. CASE r = Counted(blk, x)
  BY <1>1 DEF Counted, CacheBlock
<1>2. CASE r = Counted(NotPending(blk), x)
  BY <1>2 DEF Counted, NotPending, CacheBlock
<1>3. CASE r = Released(blk)
  BY <1>3 DEF Released, CacheBlock
<1>4. CASE r = [blk EXCEPT !.pending_requests = @ + 1]
  BY <1>4 DEF CacheBlock
<1> QED
  BY <1>1, <1>2, <1>3, <1>4

\* ... and so does the update of the cache with such a block.
LEMMA CountersKeep ==
  ASSUME TypeOK, NEW b \in Block, NEW x \in BOOLEAN,
         \/ blocks' = [blocks EXCEPT ![b] = Counted(@, x)]
         \/ blocks' = [blocks EXCEPT ![b] = Counted(NotPending(@), x)]
         \/ blocks' = [blocks EXCEPT ![b] = Released(@)]
         \/ blocks' = [blocks EXCEPT ![b].pending_requests = @ + 1]
  PROVE  \A c \in Block : Kept(c)
<1>0. blocks[b] \in CacheBlock /\ blocks \in [Block -> CacheBlock]
  BY DEF TypeOK
<1>1. PICK r : /\ r \in {Counted(blocks[b], x), Counted(NotPending(blocks[b]), x),
                         Released(blocks[b]), [blocks[b] EXCEPT !.pending_requests = @ + 1]}
               /\ blocks' = [blocks EXCEPT ![b] = r]
  BY Zenon
<1>2. blocks'[b] = r /\ \A c \in Block : c # b => blocks'[c] = blocks[c]
  BY <1>0, <1>1
<1>3. /\ r.bs_id = blocks[b].bs_id /\ r.data = blocks[b].data
      /\ r.valid = blocks[b].valid /\ r.dirty = blocks[b].dirty /\ r.deleted = blocks[b].deleted
  BY <1>0, <1>1, CountersOnly
<1> QED
  BY <1>2, <1>3 DEF Kept

\* A step of a call that grants nothing, and of a flush that writes nothing.
LEMMA MoveData ==
  ASSUME DataInv, \A c \in Block : Kept(c), hold' = hold, disk' = disk, freed' = freed
  PROVE  DataInv'
<1>1. OneCopy' /\ HeldIsLoaded' /\ SameBlock'
  BY DEF DataInv, OneCopy, HeldIsLoaded, SameBlock, Kept
<1>2. Clean'
  BY DEF DataInv, Clean, Kept
<1>3. Deleted'
  BY DEF DataInv, Deleted, Kept
<1> QED
  BY <1>1, <1>2, <1>3 DEF DataInv

\* A grant of a loaded block its caller did not have.
LEMMA GrantData ==
  ASSUME TypeOK, DataInv, \A c \in Block : Kept(c), disk' = disk, freed' = freed,
         NEW t \in Thread, NEW b \in Block, NEW x \in BOOLEAN, GrantTo(t, b, x),
         blocks[b].valid, hold[t][b].mode = "none"
  PROVE  DataInv'
<1>1. /\ \A u \in Thread, c \in Block : u # t \/ c # b => hold'[u][c] = hold[u][c]
      /\ hold'[t][b].phase = "got"
  BY GrantUpdate
<1>2. OneCopy'
  BY DEF DataInv, OneCopy, Kept
<1>3. HeldIsLoaded'
  <2>1. SUFFICES ASSUME NEW u \in Thread, NEW c \in Block, NEW d \in Block, hold'[u][c].mode # "none",
                        blocks'[d].valid, blocks'[c].bs_id = blocks'[d].bs_id
                 PROVE  c = d
    BY DEF HeldIsLoaded
  <2>2. blocks[d].valid /\ blocks[c].bs_id = blocks[d].bs_id
    BY <2>1 DEF Kept
  <2>3. CASE u = t /\ c = b
    BY <2>2, <2>3 DEF DataInv, OneCopy
  <2>4. CASE u # t \/ c # b
    BY <1>1, <2>1, <2>2, <2>4 DEF DataInv, HeldIsLoaded
  <2> QED
    BY <2>3, <2>4
<1>4. SameBlock'
  <2>1. SUFFICES ASSUME NEW u \in Thread, NEW w \in Thread, NEW c \in Block, NEW d \in Block,
                        hold'[u][c].mode # "none", hold'[w][d].mode # "none",
                        blocks'[c].bs_id = blocks'[d].bs_id
                 PROVE  c = d
    BY DEF SameBlock
  <2>2. blocks[c].bs_id = blocks[d].bs_id
    BY <2>1 DEF Kept
  <2>3. hold[u][c].mode # "none" \/ c = b
    BY <1>1, <2>1
  <2>4. hold[w][d].mode # "none" \/ d = b
    BY <1>1, <2>1
  <2> QED
    BY <2>2, <2>3, <2>4 DEF DataInv, HeldIsLoaded, SameBlock
<1>5. Clean'
  <2>1. SUFFICES ASSUME NEW c \in Block, blocks'[c].valid, ~blocks'[c].dirty,
                        \A u \in Thread : hold'[u][c].mode # "none" => hold'[u][c].phase # "wrote"
                 PROVE  blocks'[c].data = disk'[blocks'[c].bs_id]
    BY DEF Clean
  <2>2. \A u \in Thread : hold[u][c].mode # "none" => hold[u][c].phase # "wrote"
    BY <1>1, <2>1
  <2> QED
    BY <2>1, <2>2 DEF DataInv, Clean, Kept
<1>6. Deleted'
  BY DEF DataInv, Deleted, Kept
<1> QED
  BY <1>2, <1>3, <1>4, <1>5, <1>6 DEF DataInv

\* cache_put_block, of a block whose changes are marked.
LEMMA PutData ==
  ASSUME TypeOK, DataInv, \A c \in Block : Kept(c), disk' = disk, freed' = freed,
         NEW t \in Thread, NEW b \in Block, hold' = [hold EXCEPT ![t][b] = NoGrant],
         hold[t][b].phase # "wrote"
  PROVE  DataInv'
<1>0. NoGrant \in Grant /\ NoGrant.mode = "none"
  BY DEF NoGrant, Grant, Mode, Phase
<1>1. \A u \in Thread, c \in Block : hold'[u][c] = IF u = t /\ c = b THEN NoGrant ELSE hold[u][c]
  BY <1>0, HoldUpdate, Zenon
<1>2. /\ hold'[t][b].mode = "none"
      /\ \A u \in Thread, c \in Block : u # t \/ c # b => hold'[u][c] = hold[u][c]
  BY <1>0, <1>1
<1>3. \A u \in Thread, c \in Block : hold'[u][c].mode # "none" => hold[u][c].mode # "none"
  BY <1>2
<1>4. OneCopy' /\ Deleted'
  BY DEF DataInv, OneCopy, Deleted, Kept
<1>5. HeldIsLoaded'
  BY <1>3 DEF DataInv, HeldIsLoaded, Kept
<1>6. SameBlock'
  BY <1>3 DEF DataInv, SameBlock, Kept
<1>7. Clean'
  <2>1. SUFFICES ASSUME NEW c \in Block, blocks'[c].valid, ~blocks'[c].dirty,
                        \A u \in Thread : hold'[u][c].mode # "none" => hold'[u][c].phase # "wrote"
                 PROVE  blocks'[c].data = disk'[blocks'[c].bs_id]
    BY DEF Clean
  <2>2. \A u \in Thread : hold[u][c].mode # "none" => hold[u][c].phase # "wrote"
    BY <1>2, <2>1
  <2> QED
    BY <2>1, <2>2 DEF DataInv, Clean, Kept
<1> QED
  BY <1>4, <1>5, <1>6, <1>7 DEF DataInv

\* What a client does to a block it has.
LEMMA UseData ==
  ASSUME TypeOK, DataInv, NEW t \in Thread, NEW b \in Block, hold[t][b].mode # "none",
         NEW r \in CacheBlock, NEW p \in Phase, blocks' = [blocks EXCEPT ![b] = r],
         Reaches(t, b, p), disk' = disk, r.bs_id = blocks[b].bs_id, r.valid,
         /\ ~r.dirty /\ p # "wrote"
         /\ \A u \in Thread : u # t /\ hold[u][b].mode # "none" => hold[u][b].phase # "wrote"
         => r.data = disk[r.bs_id],
         r.deleted => r.bs_id \in freed',
         \A s \in freed : s # r.bs_id => s \in freed'
  PROVE  DataInv'
<1>0. hold[t][b] \in Grant
  BY DEF TypeOK
<1>1. PICK g \in Grant : g = [mode |-> hold[t][b].mode, phase |-> p]
  BY <1>0, Zenon DEF Grant
<1>2. g.mode = hold[t][b].mode /\ g.phase = p /\ hold' = [hold EXCEPT ![t][b] = g]
  BY <1>1 DEF Reaches
<1>3. hold'[t][b] = g /\ \A u \in Thread, c \in Block : u # t \/ c # b => hold'[u][c] = hold[u][c]
  BY <1>2, HoldUpdate, Zenon
<1>4. \A u \in Thread, c \in Block : hold'[u][c].mode = hold[u][c].mode
  BY <1>2, <1>3, Zenon
<1>5. blocks'[b] = r /\ \A c \in Block : c # b => blocks'[c] = blocks[c]
  BY DEF TypeOK
<1>6. \A c \in Block : blocks'[c].bs_id = blocks[c].bs_id
  BY <1>5
<1>7. OneCopy'
  <2>1. \A c \in Block : blocks[c].valid /\ blocks[c].bs_id = r.bs_id => c = b
    BY DEF DataInv, HeldIsLoaded
  <2> QED
    BY <1>5, <2>1 DEF DataInv, OneCopy
<1>8. HeldIsLoaded'
  <2>1. SUFFICES ASSUME NEW u \in Thread, NEW c \in Block, NEW d \in Block, hold[u][c].mode # "none",
                        blocks'[d].valid, blocks[c].bs_id = blocks[d].bs_id
                 PROVE  c = d
    BY <1>4, <1>6 DEF HeldIsLoaded
  <2>2. CASE d = b
    BY <2>1, <2>2 DEF DataInv, SameBlock
  <2>3. CASE d # b
    BY <1>5, <2>1, <2>3 DEF DataInv, HeldIsLoaded
  <2> QED
    BY <2>2, <2>3
<1>9. SameBlock'
  BY <1>4, <1>6 DEF DataInv, SameBlock
<1>10. Clean'
  <2>1. SUFFICES ASSUME NEW c \in Block, blocks'[c].valid, ~blocks'[c].dirty,
                        \A u \in Thread : hold'[u][c].mode # "none" => hold'[u][c].phase # "wrote"
                 PROVE  blocks'[c].data = disk'[blocks'[c].bs_id]
    BY DEF Clean
  <2>2. CASE c = b
    BY <1>2, <1>3, <1>4, <1>5, <2>1, <2>2
  <2>3. CASE c # b
    BY <1>3, <1>5, <2>1, <2>3 DEF DataInv, Clean
  <2> QED
    BY <2>2, <2>3
<1>11. Deleted'
  <2>1. SUFFICES ASSUME NEW c \in Block, blocks'[c].deleted
                 PROVE  blocks'[c].valid /\ blocks'[c].bs_id \in freed'
    BY DEF Deleted
  <2>2. CASE c = b
    BY <1>5, <2>1, <2>2
  <2>3. CASE c # b
    <3>1. blocks[c].valid /\ blocks[c].bs_id \in freed
      BY <1>5, <2>1, <2>3 DEF DataInv, Deleted
    <3>2. blocks[c].bs_id # r.bs_id
      BY <2>3, <3>1 DEF DataInv, HeldIsLoaded
    <3> QED
      BY <1>5, <2>3, <3>1, <3>2
  <2> QED
    BY <2>2, <2>3
<1> QED
  BY <1>7, <1>8, <1>9, <1>10, <1>11 DEF DataInv

\* writeback of block b.
LEMMA WritebackDisk ==
  ASSUME TypeOK, NEW b \in Block, disk' = WrittenDisk(b)
  PROVE  /\ \A s \in Sector : s # blocks[b].bs_id \/ ~blocks[b].valid => disk'[s] = disk[s]
         /\ NeedsWrite(b) => disk'[blocks[b].bs_id] = blocks[b].data
         /\ ~NeedsWrite(b) => disk' = disk
<1>1. blocks[b].bs_id \in Sector /\ disk \in [Sector -> Value]
  BY DEF TypeOK, CacheBlock
<1> QED
  BY <1>1 DEF WrittenDisk, NeedsWrite

\* cache_flush at one block.
LEMMA FlushData ==
  ASSUME TypeOK, DataInv, NEW t \in Thread, FlushBlock(t)
  PROVE  DataInv'
<1>b. PICK b \in Block : b = call[t].i
  BY DEF TypeOK, Call
<1>1. /\ disk' = WrittenDisk(b) /\ hold' = hold /\ freed' = freed
      /\ blocks' = IF NeedsWrite(b) THEN [blocks EXCEPT ![b].dirty = FALSE] ELSE blocks
  BY <1>b DEF FlushBlock
<1>2. CASE ~NeedsWrite(b)
  <2>1. disk' = disk /\ blocks' = blocks
    BY <1>1, <1>2, WritebackDisk
  <2> QED
    BY <1>1, <2>1, MoveData, Zenon DEF Kept
<1>3. CASE NeedsWrite(b)
  <2>1. /\ blocks'[b].bs_id = blocks[b].bs_id /\ blocks'[b].data = blocks[b].data
        /\ blocks'[b].valid /\ ~blocks'[b].deleted
        /\ \A c \in Block : c # b => blocks'[c] = blocks[c]
    <3>1. blocks[b] \in CacheBlock /\ blocks \in [Block -> CacheBlock]
      BY DEF TypeOK
    <3>2. blocks' = [blocks EXCEPT ![b] = [blocks[b] EXCEPT !.dirty = FALSE]]
      BY <1>1, <1>3
    <3> QED
      BY <1>3, <3>1, <3>2 DEF CacheBlock, NeedsWrite
  <2>2. blocks[b].valid
    BY <1>3 DEF NeedsWrite
  <2>3. OneCopy' /\ HeldIsLoaded' /\ SameBlock'
    BY <1>1, <2>1, <2>2 DEF DataInv, OneCopy, HeldIsLoaded, SameBlock
  <2>4. Clean'
    <3>1. SUFFICES ASSUME NEW c \in Block, blocks'[c].valid, ~blocks'[c].dirty,
                          \A u \in Thread : hold'[u][c].mode # "none" => hold'[u][c].phase # "wrote"
                   PROVE  blocks'[c].data = disk'[blocks'[c].bs_id]
      BY DEF Clean
    <3>2. CASE c = b
      BY <1>1, <1>3, <2>1, <3>2, WritebackDisk
    <3>3. CASE c # b
      <4>1. blocks[c].data = disk[blocks[c].bs_id] /\ blocks[c].bs_id # blocks[b].bs_id
        BY <1>1, <2>1, <2>2, <3>1, <3>3 DEF DataInv, Clean, OneCopy
      <4>2. blocks[c].bs_id \in Sector
        BY DEF TypeOK, CacheBlock
      <4> QED
        BY <1>1, <2>1, <3>3, <4>1, <4>2, WritebackDisk
    <3> QED
      BY <3>2, <3>3
  <2>5. Deleted'
    BY <1>1, <2>1 DEF DataInv, Deleted
  <2> QED
    BY <2>3, <2>4, <2>5 DEF DataInv
<1> QED
  BY <1>2, <1>3

\* The victim of an eviction is a block without users; afterwards it has the
\* caller's sector, without its contents.
LEMMA EvictView ==
  ASSUME IInv, SInv, NEW t \in Thread, NEW b \in Block, b = call[t].i,
         NEW s \in Sector, s = call[t].sector, Evict(t)
  PROVE  /\ \A c \in Block : ~Hit(c, s)
         /\ \A u \in Thread : hold[u][b].mode = "none"
         /\ \A u \in Thread : call[u].pc \in {"window", "asleep", "woken"} => call[u].i # b
         /\ blocks'[b].bs_id = s /\ ~blocks'[b].valid /\ ~blocks'[b].deleted
         /\ \A c \in Block : c # b => blocks'[c] = blocks[c]
         /\ hold'[t][b].mode # "none"
         /\ \A u \in Thread, c \in Block : u # t \/ c # b => hold'[u][c] = hold[u][c]
         /\ call'[t].pc = "client" /\ \A u \in Thread : u # t => call'[u] = call[u]
         /\ \A c \in Block : hold[t][c].mode # "none" => blocks[c].bs_id # s
         /\ disk' = WrittenDisk(b) /\ freed' = freed
<1>0. TypeOK /\ blocks[b] \in CacheBlock /\ blocks \in [Block -> CacheBlock]
  BY DEF IInv, TypeOK
<1>x. PICK x \in BOOLEAN : x = call[t].exclusive
  BY <1>0 DEF TypeOK, Call
<1>1. /\ At(t, "scan") /\ Unused(b) /\ GrantTo(t, b, x)
      /\ blocks' = [blocks EXCEPT ![b] = Counted(Fresh(blocks[b], s), x)]
      /\ disk' = WrittenDisk(b) /\ freed' = freed
  BY <1>x DEF Evict
<1>2. \A c \in Block : ~Hit(c, s)
  BY <1>1 DEF SInv, Missed, Passed, At
<1>3. \A u \in Thread : hold[u][b].mode = "none"
  BY <1>1, UsersCount
<1>4. \A u \in Thread : call[u].pc \in {"window", "asleep", "woken"} => call[u].i # b
  <2>1. \A u \in Thread : u \notin Pending(b)
    BY <1>1, UsersCount DEF Unused
  <2> QED
    BY <2>1 DEF Pending
<1>5. /\ Fresh(blocks[b], s) \in CacheBlock /\ Fresh(blocks[b], s).bs_id = s
      /\ ~Fresh(blocks[b], s).valid /\ ~Fresh(blocks[b], s).deleted
  BY <1>0, Zenon DEF Fresh, CacheBlock
<1>6. PICK q, r : q = Fresh(blocks[b], s) /\ r = Counted(q, x)
  BY Zenon
<1>7. r.bs_id = s /\ ~r.valid /\ ~r.deleted
  BY <1>5, <1>6, CountersOnly
<1>8. blocks'[b] = r /\ \A c \in Block : c # b => blocks'[c] = blocks[c]
  BY <1>0, <1>1, <1>6
<1>9. /\ hold'[t][b].mode # "none"
      /\ \A u \in Thread, c \in Block : u # t \/ c # b => hold'[u][c] = hold[u][c]
      /\ call'[t].pc = "client" /\ \A u \in Thread : u # t => call'[u] = call[u]
  BY <1>0, <1>1, GrantUpdate
<1>10. \A c \in Block : hold[t][c].mode # "none" => blocks[c].bs_id # s
  <2>1. \A c \in Block : hold[t][c].mode # "none" => blocks[c].bs_id < s
    BY <1>1 DEF IInv, AboveHeld, At
  <2>2. s \in Nat
    BY SectorAssumption
  <2> QED
    BY <2>1, <2>2
<1> QED
  BY <1>1, <1>2, <1>3, <1>4, <1>7, <1>8, <1>9, <1>10, Zenon

\* evict, with nobody else about to bring in the sector.
LEMMA EvictData ==
  ASSUME IInv, SInv, SoleMiss, NEW t \in Thread, Evict(t)
  PROVE  SInv'
<1>0. TypeOK
  BY DEF IInv
<1>b. PICK b \in Block, s \in Sector : b = call[t].i /\ s = call[t].sector
  BY <1>0 DEF TypeOK, Call
<1>1. /\ \A c \in Block : ~Hit(c, s)
      /\ \A u \in Thread : hold[u][b].mode = "none"
      /\ \A u \in Thread : call[u].pc \in {"window", "asleep", "woken"} => call[u].i # b
  BY <1>b, EvictView
<1>2. /\ blocks'[b].bs_id = s /\ ~blocks'[b].valid /\ ~blocks'[b].deleted
      /\ \A c \in Block : c # b => blocks'[c] = blocks[c]
  BY <1>b, EvictView
<1>3. /\ hold'[t][b].mode # "none"
      /\ \A u \in Thread, c \in Block : u # t \/ c # b => hold'[u][c] = hold[u][c]
      /\ call'[t].pc = "client" /\ \A u \in Thread : u # t => call'[u] = call[u]
  BY <1>b, EvictView
<1>4. /\ \A c \in Block : hold[t][c].mode # "none" => blocks[c].bs_id # s
      /\ disk' = WrittenDisk(b) /\ freed' = freed
  BY <1>b, EvictView
<1>5. \A c \in Block, u \in Thread : hold[u][c].mode # "none" => blocks[c].bs_id # s
  <2>1. SUFFICES ASSUME NEW c \in Block, NEW u \in Thread, hold[u][c].mode # "none",
                        blocks[c].bs_id = s
                 PROVE  FALSE
    OBVIOUS
  <2>2. CachedIn(s) = {}
    BY <1>1 DEF CachedIn
  <2>3. BringsIn(t, s)
    BY <1>b DEF BringsIn, Evict, At
  <2>4. BringsIn(u, s)
    BY <1>1, <2>1 DEF BringsIn, Held, Hit
  <2>5. u = t
    BY <2>2, <2>3, <2>4 DEF SoleMiss
  <2> QED
    BY <1>4, <2>1, <2>5
<1>6. OneCopy'
  BY <1>2 DEF SInv, DataInv, OneCopy
<1>7. \A u \in Thread, c \in Block : hold'[u][c].mode # "none" =>
        (u = t /\ c = b) \/ (c # b /\ hold[u][c].mode # "none" /\ blocks[c].bs_id # s)
  BY <1>1, <1>3, <1>5
<1>8. HeldIsLoaded'
  <2>1. SUFFICES ASSUME NEW u \in Thread, NEW c \in Block, NEW d \in Block, hold'[u][c].mode # "none",
                        blocks'[d].valid, blocks'[c].bs_id = blocks'[d].bs_id
                 PROVE  c = d
    BY DEF HeldIsLoaded
  <2>2. d # b /\ blocks[d].valid /\ blocks[d].bs_id # s
    BY <1>1, <1>2, <2>1 DEF Hit
  <2>3. c # b /\ hold[u][c].mode # "none"
    BY <1>2, <1>7, <2>1, <2>2
  <2> QED
    BY <1>2, <2>1, <2>2, <2>3 DEF SInv, DataInv, HeldIsLoaded
<1>9. SameBlock'
  <2>1. SUFFICES ASSUME NEW u \in Thread, NEW w \in Thread, NEW c \in Block, NEW d \in Block,
                        hold'[u][c].mode # "none", hold'[w][d].mode # "none",
                        blocks'[c].bs_id = blocks'[d].bs_id
                 PROVE  c = d
    BY DEF SameBlock
  <2>2. CASE c = b
    BY <1>2, <1>7, <2>1, <2>2
  <2>3. CASE d = b
    BY <1>2, <1>7, <2>1, <2>3
  <2>4. CASE c # b /\ d # b
    BY <1>2, <1>7, <2>1, <2>4 DEF SInv, DataInv, SameBlock
  <2> QED
    BY <2>2, <2>3, <2>4
<1>10. Clean'
  <2>1. SUFFICES ASSUME NEW c \in Block, blocks'[c].valid, ~blocks'[c].dirty,
                        \A u \in Thread : hold'[u][c].mode # "none" => hold'[u][c].phase # "wrote"
                 PROVE  blocks'[c].data = disk'[blocks'[c].bs_id]
    BY DEF Clean
  <2>2. c # b /\ blocks'[c] = blocks[c] /\ \A u \in Thread : hold'[u][c] = hold[u][c]
    BY <1>2, <1>3, <2>1
  <2>3. blocks[c].data = disk[blocks[c].bs_id]
    BY <2>1, <2>2 DEF SInv, DataInv, Clean
  <2>4. blocks[c].bs_id # blocks[b].bs_id \/ ~blocks[b].valid
    BY <2>1, <2>2 DEF SInv, DataInv, OneCopy
  <2>5. blocks[c].bs_id \in Sector
    BY <1>0 DEF TypeOK, CacheBlock
  <2> QED
    BY <1>0, <1>4, <2>2, <2>3, <2>4, <2>5, WritebackDisk
<1>11. Deleted'
  BY <1>2, <1>4 DEF SInv, DataInv, Deleted
<1>12. Missed'
  BY <1>2, <1>3 DEF SInv, Missed, Passed, Hit, At
<1>13. WaitsLoaded'
  <2>1. SUFFICES ASSUME NEW u \in Thread, call'[u].pc \in {"window", "asleep", "woken"}
                 PROVE  blocks'[call'[u].i].valid
    BY DEF WaitsLoaded
  <2>2. u # t /\ call'[u] = call[u]
    BY <1>3, <2>1
  <2>3. call[u].i # b /\ call[u].i \in Block
    BY <1>0, <1>1, <2>1, <2>2 DEF TypeOK, Call
  <2> QED
    BY <1>2, <2>1, <2>2, <2>3 DEF SInv, WaitsLoaded
<1> QED
  BY <1>6, <1>8, <1>9, <1>10, <1>11, <1>12, <1>13 DEF SInv, DataInv

\* Where the blocks keep their contents, only the call that moves matters.
LEMMA CallKept ==
  ASSUME TypeOK, Missed, WaitsLoaded, \A c \in Block : Kept(c), NEW t \in Thread,
         \A u \in Thread : u # t => call'[u] = call[u],
         \A c \in Block : Passed(t, c)' => ~Hit(c, call'[t].sector),
         call'[t].pc \in {"window", "asleep", "woken"} =>
           call'[t].i \in Block /\ blocks[call'[t].i].valid
  PROVE  Missed' /\ WaitsLoaded'
<1>1. \A c \in Block : \A s : Hit(c, s)' <=> Hit(c, s)
  BY DEF Hit, Kept
<1>2. \A u \in Thread, c \in Block : u # t => (Passed(u, c)' <=> Passed(u, c))
  BY DEF Passed, At
<1>3. Missed'
  BY <1>1, <1>2 DEF Missed
<1>4. \A u \in Thread : call[u].i \in Block
  BY DEF TypeOK, Call
<1>5. WaitsLoaded'
  BY <1>4 DEF WaitsLoaded, Kept
<1> QED
  BY <1>3, <1>5

\* The grants of cache_get_block other than evict's: the block has the sector
\* and is loaded, and the caller did not have it.
LEMMA GrantView ==
  ASSUME IInv, SInv, NEW t \in Thread, NEW b \in Block, b = call[t].i,
         NEW s \in Sector, s = call[t].sector, NEW x \in BOOLEAN, x = call[t].exclusive,
         Token(t) \/ ProbeShare(t) \/ WakeGrant(t)
  PROVE  /\ \A c \in Block : Kept(c)
         /\ GrantTo(t, b, x) /\ disk' = disk /\ freed' = freed
         /\ blocks[b].valid /\ blocks[b].bs_id = s
         /\ \A c \in Block : hold[t][c].mode # "none" => blocks[c].bs_id # s
<1>0. TypeOK
  BY DEF IInv
<1>1. \A c \in Block : Kept(c)
  <2>1. \/ blocks' = [blocks EXCEPT ![b] = Counted(@, x)]
        \/ blocks' = [blocks EXCEPT ![b] = Counted(NotPending(@), x)]
    BY Zenon DEF Token, ProbeShare, WakeGrant
  <2> QED
    BY <1>0, <2>1, CountersKeep
<1>2. GrantTo(t, b, x) /\ disk' = disk /\ freed' = freed
  BY DEF Token, ProbeShare, WakeGrant
<1>3. blocks[b].valid /\ blocks[b].bs_id = s
  <2>1. CASE Token(t)
    BY <2>1 DEF Token, IInv, TokensOK, Hit
  <2>2. CASE ProbeShare(t)
    BY <2>2, Zenon DEF ProbeShare, Hit
  <2>3. CASE WakeGrant(t)
    BY <2>3, Zenon DEF WakeGrant, At, IInv, WaitsOK, SInv, WaitsLoaded
  <2> QED
    BY <2>1, <2>2, <2>3
<1>4. \A c \in Block : hold[t][c].mode # "none" => blocks[c].bs_id # s
  <2>1. call[t].pc \notin {"client", "flush"}
    BY Zenon DEF Token, ProbeShare, WakeGrant, At
  <2>2. \A c \in Block : hold[t][c].mode # "none" => blocks[c].bs_id < s
    BY <2>1 DEF IInv, AboveHeld
  <2>3. s \in Nat
    BY SectorAssumption
  <2> QED
    BY <2>2, <2>3
<1> QED
  BY <1>1, <1>2, <1>3, <1>4

\* Those grants keep the invariant.
LEMMA GrantSInv ==
  ASSUME IInv, SInv, NEW t \in Thread, Token(t) \/ ProbeShare(t) \/ WakeGrant(t)
  PROVE  SInv'
<1>0. TypeOK /\ DataInv /\ Missed /\ WaitsLoaded
  BY DEF IInv, SInv
<1>b. PICK b \in Block, s \in Sector, x \in BOOLEAN :
        b = call[t].i /\ s = call[t].sector /\ x = call[t].exclusive
  BY <1>0 DEF TypeOK, Call
<1>1. /\ \A c \in Block : Kept(c)
      /\ GrantTo(t, b, x) /\ disk' = disk /\ freed' = freed
      /\ blocks[b].valid /\ hold[t][b].mode = "none"
  BY <1>b, GrantView
<1>2. DataInv'
  BY <1>0, <1>1, GrantData
<1>3. call'[t].pc = "client" /\ \A u \in Thread : u # t => call'[u] = call[u]
  BY <1>0, <1>1, GrantUpdate
<1>4. Missed' /\ WaitsLoaded'
  BY <1>0, <1>1, <1>3, CallKept DEF Passed, At
<1> QED
  BY <1>2, <1>4 DEF SInv

\* The blocks are numbered from 0 to CACHE_LIMIT - 1.
LEMMA BlockOrder ==
  ASSUME NEW b \in Block, NEW c \in Block
  PROVE  /\ ~(c < 0) /\ (c < b + 1 => c < b \/ c = b)
         /\ b + 1 < CACHE_LIMIT \/ c < b \/ c = b
<1>1. CACHE_LIMIT \in Int
  BY LimitAssumption
<1>2. b \in Int /\ c \in Int /\ 0 <= c /\ c <= CACHE_LIMIT - 1
  BY <1>1 DEF Block
<1> QED
  BY <1>1, <1>2

\* So do the steps of a call that grant nothing.
LEMMA MoveSInv ==
  ASSUME IInv, SInv, NEW t \in Thread,
         \/ \E s \in Sector, x \in BOOLEAN : Get(t, s, x)
         \/ ProbeMiss(t) \/ ProbeUnused(t) \/ ProbeWait(t) \/ Sleep(t) \/ WakeWait(t)
         \/ EvictDown(t) \/ ScanBusy(t) \/ ScanStore(t) \/ ScanNext(t) \/ Flush(t)
  PROVE  SInv' /\ (\A c \in Block : Kept(c)) /\ hold' = hold /\ disk' = disk /\ freed' = freed
<1>0. TypeOK /\ DataInv /\ Missed /\ WaitsLoaded /\ call \in [Thread -> Call]
  BY DEF IInv, SInv, TypeOK
<1>b. PICK b \in Block : b = call[t].i
  BY <1>0 DEF Call
<1>1. hold' = hold /\ disk' = disk /\ freed' = freed
  BY DEF Get, ProbeMiss, ProbeUnused, ProbeWait, Sleep, WakeWait, EvictDown, ScanBusy,
     ScanStore, ScanNext, Flush
<1>2. \A c \in Block : Kept(c)
  <2>1. CASE ProbeWait(t)
    BY <1>0, <1>b, <2>1, CountersKeep, Zenon DEF ProbeWait
  <2>2. CASE ~ProbeWait(t)
    <3>1. blocks' = blocks
      BY <2>2 DEF Get, ProbeMiss, ProbeUnused, Sleep, WakeWait, EvictDown, ScanBusy,
         ScanStore, ScanNext, Flush
    <3> QED
      BY <3>1 DEF Kept
  <2> QED
    BY <2>1, <2>2
<1>3. \A u \in Thread : u # t => call'[u] = call[u]
  BY <1>0 DEF Get, ProbeMiss, ProbeUnused, ProbeWait, Sleep, WakeWait, EvictDown, ScanBusy,
     ScanStore, ScanNext, Flush, Goto
<1>4. \A c \in Block : Passed(t, c)' => ~Hit(c, call'[t].sector)
  <2>1. ASSUME NEW s \in Sector, NEW x \in BOOLEAN, Get(t, s, x)
        PROVE  \A c \in Block : Passed(t, c)' => ~Hit(c, call'[t].sector)
    <3>1. call'[t].pc = "probe" /\ call'[t].i = 0
      BY <1>0, <2>1, Zenon DEF Get
    <3>2. \A c \in Block : ~(c < 0)
      BY BlockOrder, Zenon
    <3> QED
      BY <3>1, <3>2, Zenon DEF Passed, At
  <2>2. CASE ProbeMiss(t)
    <3>1. call[t].pc = "probe" /\ ~Hit(b, call[t].sector)
      BY <1>b, <2>2 DEF ProbeMiss, At
    <3>2. call'[t].sector = call[t].sector
      BY <1>0, <2>2 DEF ProbeMiss, Goto, Call
    <3>3. \A c \in Block : Passed(t, c)' => c < b \/ c = b
      <4>1. CASE b + 1 < CACHE_LIMIT
        <5>1. call'[t].pc = "probe" /\ call'[t].i = b + 1
          BY <1>0, <1>b, <2>2, <3>1, <4>1 DEF ProbeMiss, Call
        <5>2. \A c \in Block : c < b + 1 => c < b \/ c = b
          BY BlockOrder, Zenon
        <5> QED
          BY <5>1, <5>2 DEF Passed, At
      <4>2. CASE ~(b + 1 < CACHE_LIMIT)
        <5>1. \A c \in Block : c < b \/ c = b
          BY <4>2, BlockOrder, Zenon
        <5> QED
          BY <5>1, Zenon
      <4> QED
        BY <4>1, <4>2
    <3> QED
      BY <1>0, <1>b, <3>1, <3>2, <3>3, Zenon DEF Missed, Passed, At
  <2>3. CASE EvictDown(t) \/ ScanBusy(t) \/ ScanStore(t) \/ ScanNext(t)
    <3>1. call[t].pc \in {"down", "scan", "store", "next"}
      BY <2>3 DEF EvictDown, ScanBusy, ScanStore, ScanNext, At
    <3>2. call'[t].sector = call[t].sector
      <4>1. CASE EvictDown(t)
        BY <1>0, <4>1 DEF EvictDown, Call
      <4>2. CASE ScanBusy(t) \/ ScanStore(t)
        BY <1>0, <4>2 DEF ScanBusy, ScanStore, Goto, Call
      <4>3. CASE ScanNext(t)
        BY <1>0, <4>3 DEF ScanNext, Call
      <4> QED
        BY <2>3, <4>1, <4>2, <4>3
    <3> QED
      BY <1>0, <3>1, <3>2 DEF Missed, Passed
  <2>4. CASE ProbeUnused(t) \/ ProbeWait(t) \/ Sleep(t) \/ WakeWait(t) \/ Flush(t)
    <3>1. call'[t].pc \in {"token", "window", "asleep", "flush"}
      BY <1>0, <2>4 DEF ProbeUnused, ProbeWait, Sleep, WakeWait, Flush, Goto, Call
    <3> QED
      BY <3>1 DEF Passed, At
  <2> QED
    BY <2>1, <2>2, <2>3, <2>4
<1>5. call'[t].pc \in {"window", "asleep", "woken"} =>
        call'[t].i \in Block /\ blocks[call'[t].i].valid
  <2>1. CASE ProbeWait(t) \/ Sleep(t) \/ WakeWait(t)
    <3>1. call'[t].i = b
      BY <1>0, <1>b, <2>1 DEF ProbeWait, Sleep, WakeWait, Goto, Call
    <3>2. blocks[b].valid
      BY <1>0, <1>b, <2>1 DEF ProbeWait, Sleep, WakeWait, At, Hit, WaitsLoaded
    <3> QED
      BY <3>1, <3>2
  <2>2. CASE ~(ProbeWait(t) \/ Sleep(t) \/ WakeWait(t))
    <3>1. call'[t].pc \in {"probe", "down", "token", "scan", "store", "next", "flush"}
      BY <1>0, <2>2 DEF Get, ProbeMiss, ProbeUnused, EvictDown, ScanBusy, ScanStore, ScanNext,
         Flush, Goto, Call, At
    <3> QED
      BY <3>1
  <2> QED
    BY <2>1, <2>2
<1>6. Missed' /\ WaitsLoaded'
  BY <1>0, <1>2, <1>3, <1>4, <1>5, CallKept, Zenon
<1>7. DataInv'
  BY <1>0, <1>1, <1>2, MoveData
<1> QED
  BY <1>1, <1>2, <1>6, <1>7 DEF SInv

\* cache_flush keeps the invariant.
LEMMA FlushSInv ==
  ASSUME IInv, SInv, NEW t \in Thread, FlushBlock(t)
  PROVE  SInv'
<1>0. TypeOK /\ DataInv /\ call \in [Thread -> Call] /\ blocks \in [Block -> CacheBlock]
  BY DEF IInv, SInv, TypeOK
<1>b. PICK b \in Block : b = call[t].i
  BY <1>0 DEF Call
<1>1. DataInv'
  BY <1>0, FlushData
<1>2. \A c \in Block : blocks'[c].bs_id = blocks[c].bs_id /\ (blocks'[c].valid <=> blocks[c].valid)
  BY <1>0, <1>b DEF FlushBlock, CacheBlock
<1>3. \A u \in Thread : u # t => call'[u] = call[u]
  BY <1>0 DEF FlushBlock, Goto
<1>4. call'[t].pc \in {"flush", "client"}
  BY <1>0 DEF FlushBlock, Goto, At, Call
<1>5. Missed'
  <2>1. \A c \in Block : \A s : Hit(c, s)' <=> Hit(c, s)
    BY <1>2 DEF Hit
  <2>2. \A u \in Thread, c \in Block : Passed(u, c)' => u # t /\ Passed(u, c)
    BY <1>3, <1>4 DEF Passed, At
  <2> QED
    BY <1>3, <2>1, <2>2 DEF SInv, Missed
<1>6. WaitsLoaded'
  <2>1. \A u \in Thread : call[u].i \in Block
    BY <1>0 DEF Call
  <2> QED
    BY <1>2, <1>3, <1>4, <2>1 DEF SInv, WaitsLoaded
<1> QED
  BY <1>1, <1>5, <1>6 DEF SInv

\* cache_put_block does.
LEMMA PutSInv ==
  ASSUME IInv, SInv, NEW t \in Thread, NEW b \in Block, Put(t, b)
  PROVE  SInv'
<1>0. TypeOK /\ DataInv /\ call \in [Thread -> Call]
  BY DEF IInv, SInv, TypeOK
<1>1. /\ blocks' = [blocks EXCEPT ![b] = Released(@)] /\ hold' = [hold EXCEPT ![t][b] = NoGrant]
      /\ hold[t][b].phase # "wrote" /\ disk' = disk /\ freed' = freed
  BY DEF Put, MayPut
<1>2. \A c \in Block : Kept(c)
  BY <1>0, <1>1, CountersKeep, Zenon
<1>3. DataInv'
  BY <1>0, <1>1, <1>2, PutData, Zenon
<1>4. PICK ws \in Woken(b) :
        call' = [u \in Thread |-> IF u \in ws THEN [call[u] EXCEPT !.pc = "woken"] ELSE call[u]]
  BY DEF Put
<1>5. ws \subseteq Waiters(b, TRUE) \cup Waiters(b, FALSE)
  BY Zenon DEF Woken, OneWriter
<1>6. \A u \in Thread : \/ call'[u] = call[u]
                        \/ /\ call[u].pc \in {"window", "asleep"}
                           /\ call'[u].pc = "woken" /\ call'[u].i = call[u].i
  <2>1. SUFFICES ASSUME NEW u \in Thread, u \in ws
                 PROVE  /\ call[u].pc \in {"window", "asleep"}
                        /\ call'[u].pc = "woken" /\ call'[u].i = call[u].i
    BY <1>4
  <2>2. call[u].pc \in {"window", "asleep"}
    BY <1>5, <2>1 DEF Waiters
  <2>3. call'[u] = [call[u] EXCEPT !.pc = "woken"] /\ call[u] \in Call
    BY <1>0, <1>4, <2>1
  <2> QED
    BY <2>2, <2>3 DEF Call
<1>7. Missed'
  <2>1. \A c \in Block : \A s : Hit(c, s)' <=> Hit(c, s)
    BY <1>2 DEF Hit, Kept
  <2>2. \A u \in Thread, c \in Block : Passed(u, c)' => call'[u] = call[u] /\ Passed(u, c)
    BY <1>6 DEF Passed, At
  <2> QED
    BY <2>1, <2>2 DEF SInv, Missed
<1>8. WaitsLoaded'
  <2>1. \A u \in Thread : call[u].i \in Block
    BY <1>0 DEF Call
  <2> QED
    BY <1>2, <1>6, <2>1 DEF SInv, WaitsLoaded, Kept
<1> QED
  BY <1>3, <1>7, <1>8 DEF SInv

\* The view of a client operation: the block r it leaves, the phase p it reaches.
Using(t, b, r, p) ==
  /\ r \in CacheBlock /\ p \in Phase /\ hold[t][b].mode # "none" /\ At(t, "client")
  /\ blocks' = [blocks EXCEPT ![b] = r] /\ Reaches(t, b, p)
  /\ r.bs_id = blocks[b].bs_id /\ r.valid
  /\ disk' = disk /\ call' = call

\* What the operations of a client leave in its block.
LEMMA UseView ==
  ASSUME IInv, NEW t \in Thread, NEW b \in Block
  PROVE  /\ Read(t, b) =>
              \E r : /\ Using(t, b, r, "ready") /\ freed' = freed /\ hold[t][b].phase = "got"
                     /\ (r.dirty <=> blocks[b].dirty) /\ (r.deleted <=> blocks[b].deleted)
                     /\ r.data = IF blocks[b].valid THEN blocks[b].data ELSE disk[r.bs_id]
         /\ ZeroBlock(t, b) =>
              \E r : /\ Using(t, b, r, "ready") /\ freed' = freed \ {r.bs_id}
                     /\ hold[t][b].phase = "got"
                     /\ r.dirty /\ (r.deleted <=> blocks[b].deleted) /\ r.data = Zero
         /\ \A v \in Value : Modify(t, b, v) =>
              \E r : /\ Using(t, b, r, "wrote") /\ freed' = freed
                     /\ (r.deleted <=> blocks[b].deleted) /\ r.data = v
         /\ MarkDirty(t, b) =>
              \E r : /\ Using(t, b, r, "ready") /\ freed' = freed
                     /\ r.dirty /\ (r.deleted <=> blocks[b].deleted) /\ r.data = blocks[b].data
                     /\ blocks[b].valid
         /\ MarkDeleted(t, b) =>
              \E r : /\ Using(t, b, r, "deleted") /\ freed' = freed \cup {r.bs_id}
                     /\ hold[t][b].phase = "ready" /\ hold[t][b].mode = "exclusive"
                     /\ (r.dirty <=> blocks[b].dirty) /\ r.data = blocks[b].data
                     /\ blocks[b].valid
<1>0. /\ blocks[b] \in CacheBlock /\ blocks \in [Block -> CacheBlock] /\ disk \in [Sector -> Value]
      /\ Zero \in Value /\ {"ready", "wrote", "deleted"} \subseteq Phase
      /\ hold[t][b].mode # "none" /\ hold[t][b].phase # "got" => blocks[b].valid
  BY ClientAssumption DEF IInv, TypeOK, ValidOK, Phase
<1>1. ASSUME Read(t, b)
      PROVE  \E r : /\ Using(t, b, r, "ready") /\ freed' = freed /\ hold[t][b].phase = "got"
                    /\ (r.dirty <=> blocks[b].dirty) /\ (r.deleted <=> blocks[b].deleted)
                    /\ r.data = IF blocks[b].valid THEN blocks[b].data ELSE disk[r.bs_id]
  <2> DEFINE d == IF blocks[b].valid THEN blocks[b].data ELSE disk[blocks[b].bs_id]
             r == [blocks[b] EXCEPT !.valid = TRUE, !.data = d]
  <2>1. blocks' = [blocks EXCEPT ![b] = r]
    BY <1>0, <1>1, Zenon DEF Read
  <2>2. d \in Value
    BY <1>0 DEF CacheBlock
  <2>3. /\ r \in CacheBlock /\ r.bs_id = blocks[b].bs_id /\ r.valid /\ r.data = d
        /\ r.dirty = blocks[b].dirty /\ r.deleted = blocks[b].deleted
    <3> HIDE DEF d
    <3> QED
      BY <1>0, <2>2, Zenon DEF CacheBlock
  <2>4. PICK q : q = r
    BY Zenon
  <2>5. r.data = IF blocks[b].valid THEN blocks[b].data ELSE disk[r.bs_id]
    BY <2>3
  <2> HIDE DEF r, d
  <2>6. Using(t, b, q, "ready") /\ freed' = freed /\ hold[t][b].phase = "got"
    BY <1>0, <1>1, <2>1, <2>3, <2>4, Zenon DEF Read, Using, MayUse
  <2> QED
    BY <2>3, <2>4, <2>5, <2>6
<1>2. ASSUME ZeroBlock(t, b)
      PROVE  \E r : /\ Using(t, b, r, "ready") /\ freed' = freed \ {r.bs_id}
                    /\ hold[t][b].phase = "got"
                    /\ r.dirty /\ (r.deleted <=> blocks[b].deleted) /\ r.data = Zero
  <2> DEFINE r == [blocks[b] EXCEPT !.valid = TRUE, !.dirty = TRUE, !.data = Zero]
  <2>1. blocks' = [blocks EXCEPT ![b] = r]
    BY <1>0, <1>2, Zenon DEF ZeroBlock
  <2>2. /\ r \in CacheBlock /\ r.bs_id = blocks[b].bs_id /\ r.valid /\ r.dirty /\ r.data = Zero
        /\ r.deleted = blocks[b].deleted
    BY <1>0, Zenon DEF CacheBlock
  <2> HIDE DEF r
  <2>3. Using(t, b, r, "ready") /\ freed' = freed \ {r.bs_id} /\ hold[t][b].phase = "got"
    BY <1>0, <1>2, <2>1, <2>2, Zenon DEF ZeroBlock, Using, MayUse
  <2> QED
    BY <2>1, <2>2, <2>3, Zenon
<1>3. ASSUME NEW v \in Value, Modify(t, b, v)
      PROVE  \E r : /\ Using(t, b, r, "wrote") /\ freed' = freed
                    /\ (r.deleted <=> blocks[b].deleted) /\ r.data = v
  <2> DEFINE r == [blocks[b] EXCEPT !.data = v]
  <2>1. blocks' = [blocks EXCEPT ![b] = r] /\ blocks[b].valid
    BY <1>0, <1>3 DEF Modify
  <2>2. /\ r \in CacheBlock /\ r.bs_id = blocks[b].bs_id /\ r.valid /\ r.data = v
        /\ r.deleted = blocks[b].deleted
    BY <1>0, <2>1 DEF CacheBlock
  <2> HIDE DEF r
  <2>3. Using(t, b, r, "wrote") /\ freed' = freed
    BY <1>0, <1>3, <2>1, <2>2, Zenon DEF Modify, Using
  <2> QED
    BY <2>1, <2>2, <2>3, Zenon
<1>4. ASSUME MarkDirty(t, b)
      PROVE  \E r : /\ Using(t, b, r, "ready") /\ freed' = freed
                    /\ r.dirty /\ (r.deleted <=> blocks[b].deleted) /\ r.data = blocks[b].data
                    /\ blocks[b].valid
  <2> DEFINE r == [blocks[b] EXCEPT !.dirty = TRUE]
  <2>1. blocks' = [blocks EXCEPT ![b] = r] /\ blocks[b].valid
    BY <1>0, <1>4 DEF MarkDirty, MayUse
  <2>2. /\ r \in CacheBlock /\ r.bs_id = blocks[b].bs_id /\ r.valid /\ r.dirty
        /\ r.data = blocks[b].data /\ r.deleted = blocks[b].deleted
    BY <1>0, <2>1, Zenon DEF CacheBlock
  <2> HIDE DEF r
  <2>3. Using(t, b, r, "ready") /\ freed' = freed
    BY <1>0, <1>4, <2>1, <2>2, Zenon DEF MarkDirty, Using, MayUse
  <2> QED
    BY <2>1, <2>2, <2>3, Zenon
<1>5. ASSUME MarkDeleted(t, b)
      PROVE  \E r : /\ Using(t, b, r, "deleted") /\ freed' = freed \cup {r.bs_id}
                    /\ hold[t][b].phase = "ready" /\ hold[t][b].mode = "exclusive"
                    /\ (r.dirty <=> blocks[b].dirty) /\ r.data = blocks[b].data
                    /\ blocks[b].valid
  <2> DEFINE r == [blocks[b] EXCEPT !.deleted = TRUE]
  <2>1. blocks' = [blocks EXCEPT ![b] = r] /\ blocks[b].valid
    BY <1>0, <1>5 DEF MarkDeleted, MayUse
  <2>2. /\ r \in CacheBlock /\ r.bs_id = blocks[b].bs_id /\ r.valid
        /\ r.data = blocks[b].data /\ r.dirty = blocks[b].dirty
    BY <1>0, <2>1, Zenon DEF CacheBlock
  <2> HIDE DEF r
  <2>3. /\ Using(t, b, r, "deleted") /\ freed' = freed \cup {r.bs_id}
        /\ hold[t][b].phase = "ready" /\ hold[t][b].mode = "exclusive"
    BY <1>0, <1>5, <2>1, <2>2, Zenon DEF MarkDeleted, Using, MayUse
  <2> QED
    BY <2>1, <2>2, <2>3, Zenon
<1> QED
  BY <1>1, <1>2, <1>3, <1>4, <1>5, Zenon

\* A client operation keeps the invariant if the data of the block stay true
\* to the disk or are marked, and no deleted block comes back to life.
LEMMA UseSInv ==
  ASSUME IInv, SInv, SoleMiss, NEW t \in Thread, NEW b \in Block, NEW r, NEW p, Using(t, b, r, p),
         /\ ~r.dirty /\ p # "wrote"
         /\ \A u \in Thread : u # t /\ hold[u][b].mode # "none" => hold[u][b].phase # "wrote"
         => r.data = disk[r.bs_id],
         r.deleted => r.bs_id \in freed',
         \A s \in freed : s # r.bs_id => s \in freed'
  PROVE  SInv'
<1>0. TypeOK /\ DataInv /\ call \in [Thread -> Call] /\ blocks \in [Block -> CacheBlock]
  BY DEF IInv, SInv, TypeOK
<1>1. /\ r \in CacheBlock /\ p \in Phase /\ hold[t][b].mode # "none" /\ At(t, "client")
      /\ blocks' = [blocks EXCEPT ![b] = r] /\ Reaches(t, b, p)
      /\ r.bs_id = blocks[b].bs_id /\ r.valid
      /\ disk' = disk /\ call' = call
  BY DEF Using
<1>2. DataInv'
  BY <1>0, <1>1, UseData, Zenon
<1>3. blocks'[b] = r /\ \A c \in Block : c # b => blocks'[c] = blocks[c]
  BY <1>0, <1>1, Zenon
<1>4. Missed'
  <2>1. SUFFICES ASSUME NEW u \in Thread, NEW c \in Block, Passed(u, c), Hit(c, call[u].sector)'
                 PROVE  FALSE
    BY <1>1 DEF Missed, Passed, At, Hit
  <2>2. ~Hit(c, call[u].sector)
    BY <2>1 DEF SInv, Missed
  <2>3. c = b /\ ~blocks[b].valid /\ blocks[b].bs_id = call[u].sector
    BY <1>1, <1>3, <2>1, <2>2 DEF Hit
  <2>s. PICK s \in Sector : s = call[u].sector
    BY <1>0 DEF Call
  <2>4. CachedIn(s) = {}
    BY <1>1, <2>3, <2>s DEF CachedIn, Hit, SInv, DataInv, HeldIsLoaded
  <2>5. BringsIn(t, s)
    BY <1>1, <2>3, <2>s DEF BringsIn, Held
  <2>6. BringsIn(u, s)
    BY <2>1, <2>s DEF BringsIn, Passed, At
  <2>7. u = t
    BY <2>4, <2>5, <2>6 DEF SoleMiss
  <2> QED
    BY <1>1, <2>1, <2>7 DEF Passed, At
<1>5. WaitsLoaded'
  <2>1. \A u \in Thread : call[u].i \in Block
    BY <1>0 DEF Call
  <2> QED
    BY <1>1, <1>3, <2>1 DEF SInv, WaitsLoaded
<1> QED
  BY <1>2, <1>4, <1>5 DEF SInv

\* cache_read_block, cache_zero_block, the writes, cache_mark_block_dirty and
\* cache_mark_deleted keep it.
LEMMA ClientSInv ==
  ASSUME IInv, SInv, SoleMiss, NoReuse, NEW t \in Thread, NEW b \in Block,
         \/ Read(t, b) \/ ZeroBlock(t, b) \/ MarkDirty(t, b) \/ MarkDeleted(t, b)
         \/ \E v \in Value : Modify(t, b, v)
  PROVE  SInv'
<1>0. /\ blocks[b].deleted => blocks[b].bs_id \in freed
      /\ /\ blocks[b].valid /\ ~blocks[b].dirty
         /\ \A u \in Thread : hold[u][b].mode # "none" => hold[u][b].phase # "wrote"
         => blocks[b].data = disk[blocks[b].bs_id]
  BY DEF SInv, DataInv, Deleted, Clean
<1>1. CASE Read(t, b)
  <2>1. PICK r : /\ Using(t, b, r, "ready") /\ freed' = freed /\ hold[t][b].phase = "got"
                 /\ (r.dirty <=> blocks[b].dirty) /\ (r.deleted <=> blocks[b].deleted)
                 /\ r.data = IF blocks[b].valid THEN blocks[b].data ELSE disk[r.bs_id]
    BY <1>1, UseView, Zenon
  <2>2. r.bs_id = blocks[b].bs_id
    BY <2>1 DEF Using
  <2>3. (/\ ~r.dirty
         /\ \A u \in Thread : u # t /\ hold[u][b].mode # "none" => hold[u][b].phase # "wrote")
        => r.data = disk[r.bs_id]
    BY <1>0, <2>1, <2>2, Zenon
  <2> QED
    BY <1>0, <2>1, <2>2, <2>3, UseSInv, Zenon
<1>2. CASE ZeroBlock(t, b)
  <2>1. PICK r : /\ Using(t, b, r, "ready") /\ freed' = freed \ {r.bs_id}
                 /\ hold[t][b].phase = "got"
                 /\ r.dirty /\ (r.deleted <=> blocks[b].deleted) /\ r.data = Zero
    BY <1>2, UseView, Zenon
  <2>2. ~r.deleted
    BY <2>1, Zenon DEF Using, NoReuse
  <2> QED
    BY <2>1, <2>2, UseSInv, Zenon
<1>3. ASSUME NEW v \in Value, Modify(t, b, v)
      PROVE  SInv'
  <2>1. PICK r : /\ Using(t, b, r, "wrote") /\ freed' = freed
                 /\ (r.deleted <=> blocks[b].deleted) /\ r.data = v
    BY <1>3, UseView, Zenon
  <2>2. r.bs_id = blocks[b].bs_id
    BY <2>1, Zenon DEF Using
  <2> QED
    BY <1>0, <2>1, <2>2, UseSInv, Zenon
<1>4. CASE MarkDirty(t, b)
  <2>1. PICK r : /\ Using(t, b, r, "ready") /\ freed' = freed
                 /\ r.dirty /\ (r.deleted <=> blocks[b].deleted)
    BY <1>4, UseView, Zenon
  <2>2. r.bs_id = blocks[b].bs_id
    BY <2>1 DEF Using
  <2> QED
    BY <1>0, <2>1, <2>2, UseSInv, Zenon
<1>5. CASE MarkDeleted(t, b)
  <2>1. PICK r : /\ Using(t, b, r, "deleted") /\ freed' = freed \cup {r.bs_id}
                 /\ hold[t][b].phase = "ready"
                 /\ (r.dirty <=> blocks[b].dirty) /\ r.data = blocks[b].data
                 /\ blocks[b].valid
    BY <1>5, UseView, Zenon
  <2>2. r.bs_id = blocks[b].bs_id
    BY <2>1, Zenon DEF Using
  <2>3. (/\ ~r.dirty
         /\ \A u \in Thread : u # t /\ hold[u][b].mode # "none" => hold[u][b].phase # "wrote")
        => r.data = disk[r.bs_id]
    BY <1>0, <2>1, <2>2, Zenon
  <2> QED
    BY <2>1, <2>2, <2>3, UseSInv, Zenon
<1> QED
  BY <1>1, <1>2, <1>3, <1>4, <1>5

\* Every step of the undisturbed cache keeps the invariant.
LEMMA NextSInv == IInv /\ SInv /\ SoleMiss /\ NoReuse /\ [Next]_vars => SInv'
<1> SUFFICES ASSUME IInv, SInv, SoleMiss, NoReuse, [Next]_vars
             PROVE  SInv'
  OBVIOUS
<1>1. ASSUME blocks' = blocks, call' = call, hold' = hold, disk' = disk, freed' = freed
      PROVE  SInv'
  <2>1. DataInv'
    BY <1>1, MoveData DEF SInv, Kept
  <2>2. Missed' /\ WaitsLoaded'
    BY <1>1 DEF SInv, Missed, WaitsLoaded, Passed, At, Hit
  <2> QED
    BY <2>1, <2>2 DEF SInv
<1>2. CASE UNCHANGED vars
  BY <1>1, <1>2 DEF vars
<1>3. ASSUME NEW t \in Thread, Step(t)
      PROVE  SInv'
  <2>1. ASSUME NEW s \in Sector, NEW x \in BOOLEAN, Get(t, s, x)
        PROVE  SInv'
    BY <2>1, MoveSInv
  <2>2. CASE InGet(t)
    BY <2>2, MoveSInv, GrantSInv, EvictData DEF InGet
  <2>3. ASSUME NEW b \in Block, OnBlock(t, b)
        PROVE  SInv'
    <3>1. CASE PutPanic(t, b)
      BY <1>1, <3>1 DEF PutPanic
    <3> QED
      BY <2>3, <3>1, PutSInv, ClientSInv DEF OnBlock
  <2>4. CASE Flush(t) \/ FlushBlock(t)
    BY <2>4, MoveSInv, FlushSInv
  <2> QED
    BY <1>3, <2>1, <2>2, <2>3, <2>4 DEF Step
<1> QED
  BY <1>2, <1>3 DEF Next, Halted

\* The empty cache satisfies it.
LEMMA InitSInv == Init => SInv /\ SoleMiss /\ NoReuse
<1> SUFFICES ASSUME Init
             PROVE  SInv /\ SoleMiss /\ NoReuse
  OBVIOUS
<1>1. /\ \A b \in Block : ~blocks[b].valid /\ ~blocks[b].deleted
      /\ \A t \in Thread : call[t].pc = "client"
      /\ \A t \in Thread, b \in Block : hold[t][b].mode = "none"
  BY DEF Init, NoGrant
<1>2. SInv
  BY <1>1, Zenon DEF SInv, DataInv, OneCopy, HeldIsLoaded, SameBlock, Clean, Deleted, Missed, Passed,
     WaitsLoaded, At
<1>3. SoleMiss
  BY <1>1 DEF SoleMiss, BringsIn, Held
<1>4. NoReuse
  BY <1>1 DEF NoReuse
<1> QED
  BY <1>2, <1>3, <1>4
=============================================================================
