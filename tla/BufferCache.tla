---------------------------- MODULE BufferCache ----------------------------
(***************************************************************************)
(* The buffer cache of filesys/cache.c: CACHE_LIMIT blocks, each a monitor *)
(* (a lock, the conditions cond_read and cond_write) that grants a sector  *)
(* to one writer or to many readers, and a semaphore, num_evict, that      *)
(* counts the blocks eviction may take.                                    *)
(*                                                                         *)
(* A step runs from one point where the code can be overtaken to the next. *)
(* The fields of a block are read and written only under its lock, so a    *)
(* whole critical section is one step, guarded by the lock being free.     *)
(* The one place that sleeps while it holds a block lock is the sema_down  *)
(* of obtain_block, so the lock is taken exactly in the states "token".    *)
(* cond_wait releases the lock and only then goes to sleep: its two halves *)
(* are two steps, with "window" between them.                              *)
(*                                                                         *)
(* The clients are those of filesys/inode.c, reduced to what they do to a  *)
(* block they hold.  Which waiter cond_signal prefers (thread priorities)  *)
(* is left open: any waiter may be chosen.                                 *)
(***************************************************************************)
EXTENDS Integers, FiniteSets

CONSTANTS
  Thread,       \* the kernel threads that use the file system
  CACHE_LIMIT,  \* number of cache blocks
  Sector,       \* sectors of the file system device
  Value,        \* contents a sector can have
  Zero,         \* the contents cache_zero_block leaves
  Uses,         \* Uses[t]: the sectors thread t works on
  MaxHeld,      \* blocks a thread holds at a time, at most
  Deletes       \* TRUE iff clients delete (free) sectors

Block == 0 .. CACHE_LIMIT - 1

ASSUME ThreadAssumption == IsFiniteSet(Thread)
ASSUME LimitAssumption  == CACHE_LIMIT \in Nat \ {0} /\ MaxHeld \in Nat \ {0}
ASSUME SectorAssumption == Sector \subseteq Nat /\ 0 \in Sector
ASSUME ClientAssumption == /\ Uses \in [Thread -> SUBSET Sector]
                           /\ Zero \in Value
                           /\ Deletes \in BOOLEAN

VARIABLES
  blocks,       \* blocks[b]: struct cache_block
  num_evict,    \* value of the semaphore
  clock,        \* where the next eviction starts, updated without a lock
  disk,         \* contents of the device
  call,         \* call[t]: how far t's call into the cache has come
  hold,         \* hold[t][b]: t's grant on block b and what it did with it
  freed,        \* sectors given back to the free map
  panic         \* what stopped the kernel, or "none"

vars == <<blocks, num_evict, clock, disk, call, hold, freed, panic>>

\* Between calls a thread is at "client".  cache_get_block goes through
\* "probe" (obtain_block's loop), "token" (its sema_down, block lock held),
\* "down" (evict's sema_down), "scan", "store", "next" (evict's loop),
\* "window", "asleep", "woken" (cond_wait); cache_flush is at "flush".
PC == {"client", "probe", "token", "down", "scan", "store", "next",
       "window", "asleep", "woken", "flush"}
Mode  == {"none", "shared", "exclusive"}
Phase == {"got", "ready", "wrote", "deleted"}

CacheBlock == [bs_id : Sector, dirty : BOOLEAN, valid : BOOLEAN,
               deleted : BOOLEAN, num_readers : Nat, num_writers : Nat,
               pending_requests : Nat, data : Value]
Call  == [pc : PC, sector : Sector, exclusive : BOOLEAN, i : Block]
Grant == [mode : Mode, phase : Phase]

TypeOK == /\ blocks \in [Block -> CacheBlock]
          /\ num_evict \in Nat
          /\ clock \in Block
          /\ disk \in [Sector -> Value]
          /\ call \in [Thread -> Call]
          /\ hold \in [Thread -> [Block -> Grant]]
          /\ freed \subseteq Sector
          /\ panic \in {"none", "cond_signal", "writeback"}

NoGrant == [mode |-> "none", phase |-> "got"]

\* cache_init, and a device with any contents.
Init == /\ blocks = [b \in Block |->
             [bs_id |-> 0, dirty |-> FALSE, valid |-> FALSE, deleted |-> FALSE,
              num_readers |-> 0, num_writers |-> 0, pending_requests |-> 0,
              data |-> Zero]]
        /\ num_evict = CACHE_LIMIT
        /\ clock = 0
        /\ disk \in [Sector -> Value]
        /\ call = [t \in Thread |-> [pc |-> "client", sector |-> 0,
                                     exclusive |-> FALSE, i |-> 0]]
        /\ hold = [t \in Thread |-> [b \in Block |-> NoGrant]]
        /\ freed = {}
        /\ panic = "none"

-----------------------------------------------------------------------------
\* What the code reads of a block, and of the calls in progress.

At(t, p)     == call[t].pc = p
LockFree(b)  == \A t \in Thread : ~(At(t, "token") /\ call[t].i = b)
\* (variant: the pending requests are not looked at)
UnusedIgnoringPending(b) == /\ blocks[b].num_readers = 0
                            /\ blocks[b].num_writers = 0
\* (variant: the readers are not looked at)
UnusedIgnoringReaders(b) == /\ blocks[b].num_writers = 0
                            /\ blocks[b].pending_requests = 0
Unused(b)    == /\ blocks[b].num_readers = 0
                /\ blocks[b].num_writers = 0
                /\ blocks[b].pending_requests = 0
Hit(b, s)    == blocks[b].valid /\ blocks[b].bs_id = s
\* (variant: a writer does not wait for the readers)
ConflictWithWriters(b, exclusive) == blocks[b].num_writers > 0
Conflict(b, exclusive) == \/ blocks[b].num_writers > 0
                          \/ exclusive /\ blocks[b].num_readers > 0

\* The waiters on the list of cond_write (cond_read) of block b.
Waiters(b, exclusive) ==
  {t \in Thread : /\ call[t].pc \in {"window", "asleep"}
                  /\ call[t].i = b
                  /\ call[t].exclusive = exclusive}

Held(t)    == {b \in Block : hold[t][b].mode # "none"}
Goto(t, p) == call' = [call EXCEPT ![t].pc = p]

\* writeback: when it panics, and what it leaves on the disk.
WrittenPanic(b) == IF blocks[b].dirty /\ ~blocks[b].valid THEN "writeback" ELSE panic
NeedsWrite(b) == blocks[b].valid /\ blocks[b].dirty /\ ~blocks[b].deleted
WrittenDisk(b) == IF NeedsWrite(b)
                  THEN [disk EXCEPT ![blocks[b].bs_id] = blocks[b].data]
                  ELSE disk

\* The last part of cache_get_block: the counters and the return.
GrantTo(t, b, exclusive) ==
  /\ hold' = [hold EXCEPT ![t][b] =
                [mode  |-> IF exclusive THEN "exclusive" ELSE "shared",
                 phase |-> "got"]]
  /\ Goto(t, "client")

Counted(blk, exclusive) ==
  IF exclusive THEN [blk EXCEPT !.num_writers = @ + 1]
               ELSE [blk EXCEPT !.num_readers = @ + 1]

NotPending(blk) == [blk EXCEPT !.pending_requests = @ - 1]

-----------------------------------------------------------------------------
\* cache_get_block.

\* A client holds several blocks only along the tree of a file (an inode or
\* index block, then a block below it): the sector number stands for the
\* depth in that order.
Get(t, s, exclusive) ==
  /\ At(t, "client")
  /\ s \in Uses[t]
  /\ Cardinality(Held(t)) < MaxHeld
  /\ \A b \in Held(t) : blocks[b].bs_id < s
  /\ call' = [call EXCEPT ![t] = [pc |-> "probe", sector |-> s,
                                  exclusive |-> exclusive, i |-> 0]]
  /\ UNCHANGED <<blocks, num_evict, clock, disk, hold, freed, panic>>

\* An iteration of obtain_block's loop on a block that does not have the
\* sector; after the last one the call goes on to evict.
ProbeMiss(t) ==
  LET b == call[t].i IN
  /\ At(t, "probe") /\ LockFree(b)
  /\ ~Hit(b, call[t].sector)
  /\ IF b + 1 < CACHE_LIMIT
     THEN call' = [call EXCEPT ![t].i = b + 1]
     ELSE Goto(t, "down")
  /\ UNCHANGED <<blocks, num_evict, clock, disk, hold, freed, panic>>

\* The sector is in a block nobody uses: the sema_down comes first, under
\* the block lock.
ProbeUnused(t) ==
  LET b == call[t].i IN
  /\ At(t, "probe") /\ LockFree(b)
  /\ Hit(b, call[t].sector) /\ Unused(b)
  /\ Goto(t, "token")
  /\ UNCHANGED <<blocks, num_evict, clock, disk, hold, freed, panic>>

\* That sema_down returns; with no other user the grant is immediate.
Token(t) ==
  LET b == call[t].i IN
  /\ At(t, "token")
  /\ num_evict > 0
  /\ num_evict' = num_evict - 1
  /\ blocks' = [blocks EXCEPT ![b] = Counted(@, call[t].exclusive)]
  /\ GrantTo(t, b, call[t].exclusive)
  /\ UNCHANGED <<clock, disk, freed, panic>>

\* The sector is in a block in use: granted at once if the modes agree.
ProbeShare(t) ==
  LET b == call[t].i IN
  /\ At(t, "probe") /\ LockFree(b)
  /\ Hit(b, call[t].sector) /\ ~Unused(b)
  /\ ~Conflict(b, call[t].exclusive)
  /\ blocks' = [blocks EXCEPT ![b] = Counted(@, call[t].exclusive)]
  /\ GrantTo(t, b, call[t].exclusive)
  /\ UNCHANGED <<num_evict, clock, disk, freed, panic>>

\* Otherwise pending_requests++ and cond_wait, up to its lock_release.
ProbeWait(t) ==
  LET b == call[t].i IN
  /\ At(t, "probe") /\ LockFree(b)
  /\ Hit(b, call[t].sector)
  /\ Conflict(b, call[t].exclusive)
  /\ blocks' = [blocks EXCEPT ![b].pending_requests = @ + 1]
  /\ Goto(t, "window")
  /\ UNCHANGED <<num_evict, clock, disk, hold, freed, panic>>

\* The sema_down of cond_wait, after the lock was released.
Sleep(t) ==
  /\ At(t, "window")
  /\ Goto(t, "asleep")
  /\ UNCHANGED <<blocks, num_evict, clock, disk, hold, freed, panic>>

\* A signalled waiter has the lock again and re-tests its condition.
WakeGrant(t) ==
  LET b == call[t].i IN
  /\ At(t, "woken") /\ LockFree(b)
  /\ ~Conflict(b, call[t].exclusive)
  /\ blocks' = [blocks EXCEPT ![b] =
                  Counted(NotPending(@), call[t].exclusive)]
  /\ GrantTo(t, b, call[t].exclusive)
  /\ UNCHANGED <<num_evict, clock, disk, freed, panic>>

WakeWait(t) ==
  LET b == call[t].i IN
  /\ At(t, "woken") /\ LockFree(b)
  /\ Conflict(b, call[t].exclusive)
  /\ Goto(t, "window")
  /\ UNCHANGED <<blocks, num_evict, clock, disk, hold, freed, panic>>

-----------------------------------------------------------------------------
\* evict.

EvictDown(t) ==
  /\ At(t, "down")
  /\ num_evict > 0
  /\ num_evict' = num_evict - 1
  /\ call' = [call EXCEPT ![t].pc = "scan", ![t].i = clock]
  /\ UNCHANGED <<blocks, clock, disk, hold, freed, panic>>

\* The block is in use: on to the next one.  The loop stores its position in
\* clock and reads clock back, both without a lock.
ScanBusy(t) ==
  /\ At(t, "scan") /\ LockFree(call[t].i)
  /\ ~Unused(call[t].i)
  /\ Goto(t, "store")
  /\ UNCHANGED <<blocks, num_evict, clock, disk, hold, freed, panic>>

ScanStore(t) ==
  /\ At(t, "store")
  /\ clock' = call[t].i
  /\ Goto(t, "next")
  /\ UNCHANGED <<blocks, num_evict, disk, hold, freed, panic>>

ScanNext(t) ==
  /\ At(t, "next")
  /\ call' = [call EXCEPT ![t].pc = "scan",
                          ![t].i  = (clock + 1 + CACHE_LIMIT) % CACHE_LIMIT]
  /\ UNCHANGED <<blocks, num_evict, clock, disk, hold, freed, panic>>

\* init_block.
\* (variant: the dirty bit is not reset)
FreshButDirty(blk, s) ==
  [blk EXCEPT !.bs_id = s, !.valid = FALSE, !.deleted = FALSE,
              !.num_readers = 0, !.num_writers = 0, !.pending_requests = 0]
\* (variant: the valid bit is not reset)
FreshButValid(blk, s) ==
  [blk EXCEPT !.bs_id = s, !.dirty = FALSE, !.deleted = FALSE,
              !.num_readers = 0, !.num_writers = 0, !.pending_requests = 0]
Fresh(blk, s) ==
  [blk EXCEPT !.bs_id = s, !.valid = FALSE, !.dirty = FALSE, !.deleted = FALSE,
              !.num_readers = 0, !.num_writers = 0, !.pending_requests = 0]

\* A victim: writeback, init_block, and the grant, which is immediate.
Evict(t) ==
  LET b == call[t].i IN
  /\ At(t, "scan") /\ LockFree(b)
  /\ Unused(b)
  /\ disk' = WrittenDisk(b)
  /\ panic' = WrittenPanic(b)
  /\ blocks' = [blocks EXCEPT ![b] = Counted(Fresh(@, call[t].sector),
                                             call[t].exclusive)]
  /\ GrantTo(t, b, call[t].exclusive)
  /\ UNCHANGED <<num_evict, clock, freed>>

-----------------------------------------------------------------------------
\* cache_put_block.

\* cond_signal and cond_broadcast look at every listed waiter's private
\* semaphore with list_front, which asserts that the waiter sleeps on it.
SignalFails(b, exclusive) ==
  \E w \in Waiters(b, exclusive) : At(w, "window")

\* cond_signal(&b->cond_write): one waiting writer, if there is any.
OneWriter(b) == IF Waiters(b, TRUE) = {} THEN {{}}
                ELSE {{w} : w \in Waiters(b, TRUE)}

\* (variant: the last reader signals nobody)
WokenByWriters(b) ==
  IF blocks[b].num_writers > 0 THEN {Waiters(b, FALSE) \cup ws : ws \in OneWriter(b)}
  ELSE {{}}
\* The sets of waiters a put may wake: after a writer all readers and one
\* writer, after the last reader one writer, after another reader nobody.
Woken(b) ==
  IF blocks[b].num_writers > 0
  THEN {Waiters(b, FALSE) \cup ws : ws \in OneWriter(b)}
  ELSE IF blocks[b].num_readers = 1 THEN OneWriter(b) ELSE {{}}

PutFails(b) ==
  \/ blocks[b].num_writers > 0 /\ SignalFails(b, FALSE)
  \/ (blocks[b].num_writers > 0 \/ blocks[b].num_readers = 1) /\ SignalFails(b, TRUE)

\* The client is done with the block; one it wrote it has marked dirty.
MayPut(t, b) == /\ At(t, "client")
                /\ hold[t][b].mode # "none"
                /\ hold[t][b].phase # "wrote"
                /\ LockFree(b)

\* (variant: the reader count goes down after a writer, too)
ReleasedAlways(blk) == [blk EXCEPT !.num_writers = 0, !.num_readers = @ - 1]
Released(blk) == IF blk.num_writers > 0
                 THEN [blk EXCEPT !.num_writers = @ - 1]
                 ELSE [blk EXCEPT !.num_readers = @ - 1]

\* (variant: the block is not put up for eviction again)
EvictableNever(b) == num_evict
\* "If no requests pending, put up for eviction".
Evictable(b) == IF Unused(b)' THEN num_evict + 1 ELSE num_evict

Put(t, b) ==
  /\ MayPut(t, b)
  /\ ~PutFails(b)
  /\ blocks' = [blocks EXCEPT ![b] = Released(@)]
  /\ \E ws \in Woken(b) :
       call' = [u \in Thread |-> IF u \in ws THEN [call[u] EXCEPT !.pc = "woken"]
                                 ELSE call[u]]
  /\ num_evict' = Evictable(b)
  /\ hold' = [hold EXCEPT ![t][b] = NoGrant]
  /\ UNCHANGED <<clock, disk, freed, panic>>

PutPanic(t, b) ==
  /\ MayPut(t, b)
  /\ PutFails(b)
  /\ panic' = "cond_signal"
  /\ UNCHANGED <<blocks, num_evict, clock, disk, call, hold, freed>>

-----------------------------------------------------------------------------
\* What a client does with a block it holds.

Reaches(t, b, p) ==
  hold' = [hold EXCEPT ![t][b] = [mode |-> hold[t][b].mode, phase |-> p]]

MayUse(t, b, phases) == /\ At(t, "client")
                        /\ hold[t][b].mode # "none"
                        /\ hold[t][b].phase \in phases
                        /\ LockFree(b)

\* cache_read_block.  No client reaches a sector that is in no file.
Read(t, b) ==
  /\ MayUse(t, b, {"got"})
  /\ blocks[b].bs_id \notin freed
  /\ blocks' = [blocks EXCEPT ![b].valid = TRUE,
                              ![b].data  = IF blocks[b].valid THEN @
                                           ELSE disk[blocks[b].bs_id]]
  /\ Reaches(t, b, "ready")
  /\ UNCHANGED <<num_evict, clock, disk, call, freed, panic>>

\* cache_zero_block, called with exclusive access only, on a sector that was
\* just allocated (expand_by_one) or is about to become an inode.
ZeroBlock(t, b) ==
  /\ MayUse(t, b, {"got"})
  /\ hold[t][b].mode = "exclusive"
  /\ blocks' = [blocks EXCEPT ![b].valid = TRUE, ![b].dirty = TRUE,
                              ![b].data = Zero]
  /\ Reaches(t, b, "ready")
  /\ freed' = freed \ {blocks[b].bs_id}
  /\ UNCHANGED <<num_evict, clock, disk, call, panic>>

\* memcpy into the data, outside the lock (inode_write_at, MLI_translate).
Modify(t, b, v) ==
  /\ At(t, "client")
  /\ hold[t][b].mode # "none" /\ hold[t][b].phase = "ready"
  /\ blocks' = [blocks EXCEPT ![b].data = v]
  /\ Reaches(t, b, "wrote")
  /\ UNCHANGED <<num_evict, clock, disk, call, freed, panic>>

\* cache_mark_block_dirty, which follows every such write.
MarkDirty(t, b) ==
  /\ MayUse(t, b, {"wrote"})
  /\ blocks' = [blocks EXCEPT ![b].dirty = TRUE]
  /\ Reaches(t, b, "ready")
  /\ UNCHANGED <<num_evict, clock, disk, call, freed, panic>>

\* cache_mark_deleted and the free_map_release of the sector, by
\* inode_free_data and inode_close: exclusive, and then only put.
MarkDeleted(t, b) ==
  /\ Deletes
  /\ MayUse(t, b, {"ready"})
  /\ hold[t][b].mode = "exclusive"
  /\ blocks' = [blocks EXCEPT ![b].deleted = TRUE]
  /\ Reaches(t, b, "deleted")
  /\ freed' = freed \cup {blocks[b].bs_id}
  /\ UNCHANGED <<num_evict, clock, disk, call, panic>>

-----------------------------------------------------------------------------
\* cache_flush, by the thread that shuts the file system down.

Flush(t) ==
  /\ At(t, "client") /\ Held(t) = {}
  /\ call' = [call EXCEPT ![t].pc = "flush", ![t].i = 0]
  /\ UNCHANGED <<blocks, num_evict, clock, disk, hold, freed, panic>>

FlushBlock(t) ==
  LET b == call[t].i IN
  /\ At(t, "flush") /\ LockFree(b)
  /\ disk' = WrittenDisk(b)
  /\ panic' = WrittenPanic(b)
  /\ blocks' = IF NeedsWrite(b) THEN [blocks EXCEPT ![b].dirty = FALSE] ELSE blocks
  /\ IF b + 1 < CACHE_LIMIT
     THEN call' = [call EXCEPT ![t].i = b + 1]
     ELSE Goto(t, "client")
  /\ UNCHANGED <<num_evict, clock, hold, freed>>

-----------------------------------------------------------------------------
InGet(t) == \/ ProbeMiss(t) \/ ProbeUnused(t) \/ ProbeShare(t) \/ ProbeWait(t)
            \/ Token(t) \/ Sleep(t) \/ WakeGrant(t) \/ WakeWait(t)
            \/ EvictDown(t) \/ ScanBusy(t) \/ ScanStore(t) \/ ScanNext(t)
            \/ Evict(t)

OnBlock(t, b) == \/ Put(t, b) \/ PutPanic(t, b)
                 \/ Read(t, b) \/ ZeroBlock(t, b)
                 \/ \E v \in Value : Modify(t, b, v)
                 \/ MarkDirty(t, b) \/ MarkDeleted(t, b)

Step(t) == /\ panic = "none"
           /\ \/ \E s \in Sector, exclusive \in BOOLEAN : Get(t, s, exclusive)
              \/ InGet(t)
              \/ \E b \in Block : OnBlock(t, b)
              \/ Flush(t) \/ FlushBlock(t)

\* A kernel that panicked spins forever.
Halted == panic # "none" /\ UNCHANGED vars

Next == Halted \/ \E t \in Thread : Step(t)

Spec == Init /\ [][Next]_vars

\* The scheduler runs every ready thread again and again, and a client that
\* holds a block marks what it wrote and puts the block in the end.
Fairness == \A t \in Thread :
              /\ WF_vars(panic = "none" /\ (InGet(t) \/ FlushBlock(t)))
              /\ \A b \in Block :
                   /\ WF_vars(panic = "none" /\ MarkDirty(t, b))
                   /\ SF_vars(panic = "none" /\ (Put(t, b) \/ PutPanic(t, b)))

FairSpec == Spec /\ Fairness

-----------------------------------------------------------------------------
\* Properties.

\* A thread granted a block exclusively is its only user: no interleaving of
\* cache_get_block's waits with cache_put_block's signals lets another in.
Exclusion ==
  \A b \in Block, t, u \in Thread :
    t # u /\ hold[t][b].mode = "exclusive" => hold[u][b].mode = "none"

\* num_evict counts the unused blocks, less those promised to threads that are
\* past evict's sema_down and still look for a victim: whoever passes that
\* sema_down will find one, and evict's endless loop has a block to stop at.
Evictors == {t \in Thread : call[t].pc \in {"scan", "store", "next"}}
UnusedBlocks == {b \in Block : Unused(b)}
EvictAccounting ==
  num_evict + Cardinality(Evictors) = Cardinality(UnusedBlocks)

\* No waiter is forgotten: while a writer waits on cond_write the block is in
\* use, or a writer that was signalled is on its way; while a reader waits on
\* cond_read a writer has the block.  The next cache_put_block wakes them.
NoLostWakeup ==
  \A b \in Block :
    /\ Waiters(b, TRUE) # {} =>
         \/ blocks[b].num_readers + blocks[b].num_writers > 0
         \/ \E t \in Thread : At(t, "woken") /\ call[t].i = b /\ call[t].exclusive
    /\ Waiters(b, FALSE) # {} => blocks[b].num_writers > 0

\* The ASSERTs of cache_get_block on bs_id: a thread that waits for a block
\* still waits for the sector it asked for when it is woken.
WaitsForItsSector ==
  \A t \in Thread :
    call[t].pc \in {"token", "window", "asleep", "woken"} =>
      blocks[call[t].i].bs_id = call[t].sector

\* writeback's PANIC ("dirty but not valid") is never reached.
NoWritebackPanic == panic # "writeback"

\* The two sema_down(&num_evict) never put a thread to sleep (with a block
\* lock held, in obtain_block's case) as long as the cache has a block for
\* everything its clients can hold at once.
EvictNeverWaits ==
  Cardinality(Thread) * MaxHeld <= CACHE_LIMIT =>
    \A t \in Thread : call[t].pc \in {"token", "down"} => num_evict > 0

\* A block somebody holds or waits for keeps its sector: the counters evict
\* looks at cover every user, so a block in use is never evicted.
InUse(b) == \E t \in Thread :
              \/ hold[t][b].mode # "none"
              \/ call[t].pc \in {"token", "window", "asleep", "woken"} /\ call[t].i = b
InUseNotEvicted ==
  [][\A b \in Block : InUse(b) => blocks'[b].bs_id = blocks[b].bs_id]_vars

\* cond_wait "atomically releases LOCK and waits": a cond_signal under the
\* same lock finds every waiter asleep, and its list_front has an element.
CondWaitAtomic == panic # "cond_signal"

\* A thread asleep in cond_wait is woken sooner or later (or the kernel stops).
WaitersWake == \A t \in Thread : At(t, "asleep") ~> (At(t, "woken") \/ panic # "none")

-----------------------------------------------------------------------------
\* The cache implements SectorStore: a sector's contents are those of the
\* block that has it loaded, else those on the disk.

CachedIn(s) == {b \in Block : Hit(b, s)}
Contents == [s \in Sector |-> IF CachedIn(s) = {} THEN disk[s]
                              ELSE blocks[CHOOSE b \in CachedIn(s) : TRUE].data]
Access == [t \in Thread |-> [s \in Sector |->
            LET bs == {b \in Held(t) : blocks[b].bs_id = s}
            IN  IF bs = {} THEN "none" ELSE hold[t][CHOOSE b \in bs : TRUE].mode]]

Store == INSTANCE SectorStore WITH store <- Contents, user <- Access, free <- freed

\* cache_get_block looks for a sector and brings it in in many steps, without a
\* lock on the whole cache.  Thread t is about to bring in sector s: its call
\* looks for the sector or for a victim, or it has a block that is not read yet.
BringsIn(t, s) ==
  \/ call[t].pc \in {"probe", "down", "scan", "store", "next"} /\ call[t].sector = s
  \/ \E b \in Held(t) : blocks[b].bs_id = s /\ ~blocks[b].valid

\* No two threads bring in the same sector.
SoleMiss ==
  \A s \in Sector :
    CachedIn(s) = {} => \A t, u \in Thread : BringsIn(t, s) /\ BringsIn(u, s) => t = u

\* Nobody but the thread that deleted it has a block of a deleted sector:
\* cache_get_block and cache_zero_block do not reset the mark.
NoReuse ==
  \A t \in Thread, b \in Block :
    hold[t][b].mode # "none" /\ blocks[b].deleted => hold[t][b].phase = "deleted"

\* The runs of the cache in which neither happens.
UndisturbedSpec == Init /\ [][Next /\ SoleMiss' /\ NoReuse']_vars

\* cache_get_block "reserves a block dedicated to hold this sector" with
\* exclusive or shared access, and writeback loses nothing: the whole cache
\* behaves as SectorStore.
ImplementsStore == Store!StoreSpec
=============================================================================
