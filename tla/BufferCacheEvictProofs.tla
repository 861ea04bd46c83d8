---------------------- MODULE BufferCacheEvictProofs ----------------------
(***************************************************************************)
(* Theorems about eviction in BufferCache: the semaphore num_evict counts  *)
(* exactly the blocks eviction may take, no block in use is evicted, and   *)
(* in a cache with room for everything its clients hold neither sema_down  *)
(* on num_evict ever sleeps.                                               *)
(***************************************************************************)
EXTENDS BufferCacheProofs

\* One block, or one evicting thread, more or less.
LEMMA CountChange ==
  ASSUME NEW S, IsFiniteSet(S), NEW x
  PROVE  /\ x \notin S => Cardinality(S \cup {x}) = Cardinality(S) + 1
         /\ x \in S => Cardinality(S \ {x}) = Cardinality(S) - 1
  BY FS_AddElement, FS_RemoveElement

\* Both sets that the accounting compares are finite.
LEMMA EvictSets ==
  /\ UnusedBlocks \in SUBSET Block /\ Evictors \in SUBSET Thread
  /\ IsFiniteSet(UnusedBlocks) /\ Cardinality(UnusedBlocks) \in Nat
  /\ IsFiniteSet(Evictors) /\ Cardinality(Evictors) \in Nat
<1>1. UnusedBlocks \in SUBSET Block /\ Evictors \in SUBSET Thread
  BY DEF UnusedBlocks, Evictors
<1> QED
  BY <1>1, Finite

\* The block a grant, a wait or a put changes.
LEMMA UnusedAfter ==
  ASSUME TypeOK, NEW b \in Block, NEW r \in CacheBlock, blocks' = [blocks EXCEPT ![b] = r]
  PROVE  LET free == r.num_readers = 0 /\ r.num_writers = 0 /\ r.pending_requests = 0
         IN  /\ Unused(b)' <=> free
             /\ UnusedBlocks' = IF free THEN UnusedBlocks \cup {b} ELSE UnusedBlocks \ {b}
<1>1. \A c \in Block : blocks'[c] = IF c = b THEN r ELSE blocks[c]
  BY BlockUpdate, Zenon
<1> QED
  BY <1>1 DEF UnusedBlocks, Unused

\* A step that changes neither the counters nor who is evicting.
LEMMA SameCount ==
  ASSUME EvictAccounting, num_evict' = num_evict,
         \A c \in Block : Unused(c)' <=> Unused(c),
         \A u \in Thread : call'[u].pc \in {"scan", "store", "next"}
                               <=> call[u].pc \in {"scan", "store", "next"}
  PROVE  EvictAccounting'
<1>1. UnusedBlocks' = UnusedBlocks /\ Evictors' = Evictors
  BY DEF UnusedBlocks, Evictors
<1> QED
  BY <1>1 DEF EvictAccounting

\* obtain_block takes an unused block and its unit of num_evict together.
LEMMA TokenCount ==
  ASSUME IInv, EvictAccounting, NEW t \in Thread, Token(t)
  PROVE  EvictAccounting'
<1> DEFINE b == call[t].i
           x == call[t].exclusive
           r == Counted(blocks[b], x)
<1>1. /\ TypeOK /\ b \in Block /\ x \in BOOLEAN /\ blocks[b] \in CacheBlock
      /\ num_evict \in Nat
  BY DEF IInv, TypeOK, Call
<1>2. Unused(b)
  BY DEF Token, IInv, TokensOK
<1>3. blocks' = [blocks EXCEPT ![b] = r] /\ num_evict' = num_evict - 1 /\ GrantTo(t, b, x)
  BY DEF Token
<1>4. r \in CacheBlock /\ ~(r.num_readers = 0 /\ r.num_writers = 0)
  BY <1>1, GrantedInUse
<1>5. UnusedBlocks' = UnusedBlocks \ {b}
  BY <1>1, <1>3, <1>4, UnusedAfter, Zenon
<1>6. b \in UnusedBlocks
  BY <1>1, <1>2 DEF UnusedBlocks
<1>7. Evictors' = Evictors
  <2>1. call'[t].pc = "client" /\ \A u \in Thread : u # t => call'[u] = call[u]
    BY <1>1, <1>3, GrantUpdate
  <2> QED
    BY <2>1 DEF Evictors, Token, At
<1>8. Cardinality(UnusedBlocks') = Cardinality(UnusedBlocks) - 1
  BY <1>5, <1>6, EvictSets, CountChange
<1> QED
  BY <1>1, <1>3, <1>7, <1>8, EvictSets DEF EvictAccounting

\* An eviction that succeeds gives its block a user and stops scanning.
LEMMA EvictCount ==
  ASSUME IInv, EvictAccounting, NEW t \in Thread, Evict(t)
  PROVE  EvictAccounting'
<1> DEFINE b == call[t].i
           x == call[t].exclusive
           q == Fresh(blocks[b], call[t].sector)
           r == Counted(q, x)
<1>1. /\ TypeOK /\ b \in Block /\ x \in BOOLEAN /\ blocks[b] \in CacheBlock
      /\ call[t].sector \in Sector /\ num_evict \in Nat
  BY DEF IInv, TypeOK, Call
<1>2. /\ Unused(b) /\ blocks' = [blocks EXCEPT ![b] = r] /\ num_evict' = num_evict
      /\ GrantTo(t, b, x)
  BY DEF Evict
<1>3. q \in CacheBlock
  BY <1>1, FreshFields
<1>4. r \in CacheBlock /\ ~(r.num_readers = 0 /\ r.num_writers = 0)
  BY <1>1, <1>3, GrantedInUse
<1>5. UnusedBlocks' = UnusedBlocks \ {b}
  BY <1>1, <1>2, <1>4, UnusedAfter, Zenon
<1>6. b \in UnusedBlocks
  BY <1>1, <1>2 DEF UnusedBlocks
<1>7. Evictors' = Evictors \ {t} /\ t \in Evictors
  <2>1. call'[t].pc = "client" /\ \A u \in Thread : u # t => call'[u] = call[u]
    BY <1>1, <1>2, GrantUpdate
  <2> QED
    BY <2>1 DEF Evictors, Evict, At
<1>8. /\ Cardinality(UnusedBlocks') = Cardinality(UnusedBlocks) - 1
      /\ Cardinality(Evictors') = Cardinality(Evictors) - 1
  BY <1>5, <1>6, <1>7, EvictSets, CountChange
<1> QED
  BY <1>1, <1>2, <1>8, EvictSets DEF EvictAccounting

\* The sema_down of evict moves one unit from num_evict to a scanning thread.
LEMMA EvictDownCount ==
  ASSUME IInv, EvictAccounting, NEW t \in Thread, EvictDown(t)
  PROVE  EvictAccounting'
<1>1. TypeOK /\ num_evict \in Nat /\ call[t] \in Call
  BY DEF IInv, TypeOK
<1>2. UnusedBlocks' = UnusedBlocks
  BY DEF UnusedBlocks, Unused, EvictDown
<1>3. call'[t].pc = "scan" /\ \A u \in Thread : u # t => call'[u] = call[u]
  BY <1>1 DEF EvictDown, TypeOK, Call
<1>4. Evictors' = Evictors \cup {t} /\ t \notin Evictors
  BY <1>3, Zenon DEF Evictors, EvictDown, At
<1>5. Cardinality(Evictors') = Cardinality(Evictors) + 1
  BY <1>4, EvictSets, CountChange
<1> QED
  BY <1>1, <1>2, <1>5, EvictSets DEF EvictAccounting, EvictDown

\* cache_put_block ups num_evict exactly when its block becomes unused.
LEMMA PutCount ==
  ASSUME IInv, EvictAccounting, NEW t \in Thread, NEW b \in Block, Put(t, b)
  PROVE  EvictAccounting'
<1> DEFINE r == Released(blocks[b])
<1>1. TypeOK /\ num_evict \in Nat
  BY DEF IInv, TypeOK
<1>2. b \notin UnusedBlocks
  BY UsersCount DEF UnusedBlocks, Put, MayPut
<1>3. /\ UnusedBlocks' = IF Unused(b)' THEN UnusedBlocks \cup {b} ELSE UnusedBlocks \ {b}
  <2>1. \A c \in Block : c # b => blocks'[c] = blocks[c]
    BY <1>1 DEF Put, TypeOK
  <2> QED
    BY <2>1 DEF UnusedBlocks, Unused
<1>4. Evictors' = Evictors
  <2>1. PICK ws \in Woken(b) :
          call' = [u \in Thread |-> IF u \in ws THEN [call[u] EXCEPT !.pc = "woken"]
                                    ELSE call[u]]
    BY DEF Put
  <2>2. ws \subseteq Waiters(b, TRUE) \cup Waiters(b, FALSE)
    BY <2>1, Zenon DEF Woken, OneWriter
  <2>3. \A u \in Thread : [call[u] EXCEPT !.pc = "woken"].pc = "woken"
    BY <1>1 DEF TypeOK, Call
  <2> QED
    BY <2>1, <2>2, <2>3 DEF Evictors, Waiters
<1>5. num_evict' = IF Unused(b)' THEN num_evict + 1 ELSE num_evict
  BY DEF Put, Evictable
<1>6. CASE Unused(b)'
  <2>1. Cardinality(UnusedBlocks') = Cardinality(UnusedBlocks) + 1
    BY <1>2, <1>3, <1>6, EvictSets, CountChange
  <2> QED
    BY <1>1, <1>4, <1>5, <1>6, <2>1, EvictSets DEF EvictAccounting
<1>7. CASE ~Unused(b)'
  <2>1. UnusedBlocks' = UnusedBlocks
    BY <1>2, <1>3, <1>7
  <2> QED
    BY <1>4, <1>5, <1>7, <2>1 DEF EvictAccounting
<1> QED
  BY <1>6, <1>7

\* Grants and waits on a block in use leave it in use.
LEMMA BusyCount ==
  ASSUME IInv, EvictAccounting, NEW t \in Thread,
         ProbeShare(t) \/ WakeGrant(t) \/ ProbeWait(t)
  PROVE  EvictAccounting'
<1>0. TypeOK /\ "window" \in PC /\ call[t] \in Call
  BY DEF IInv, PC, TypeOK
<1>b. PICK b \in Block : b = call[t].i
  BY <1>0 DEF Call
<1>x. PICK x \in BOOLEAN : x = call[t].exclusive
  BY <1>0 DEF Call
<1>1. blocks[b] \in CacheBlock
  BY <1>0 DEF TypeOK
<1>2. ~Unused(b)
  <2>1. CASE ProbeShare(t)
    BY <1>b, <2>1 DEF ProbeShare
  <2>2. CASE WakeGrant(t)
    <3>1. t \in Pending(b)
      BY <1>b, <2>2 DEF WakeGrant, At, Pending
    <3> QED
      BY <3>1, UsersCount DEF Unused
  <2>3. CASE ProbeWait(t)
    BY <1>1, <1>b, <2>3 DEF ProbeWait, Conflict, Unused, CacheBlock
  <2> QED
    BY <2>1, <2>2, <2>3
<1>3. PICK r \in CacheBlock :
        /\ blocks' = [blocks EXCEPT ![b] = r]
        /\ ~(r.num_readers = 0 /\ r.num_writers = 0 /\ r.pending_requests = 0)
  <2>1. CASE ProbeShare(t)
    BY <1>1, <1>b, <1>x, <2>1, GrantedInUse, Zenon DEF ProbeShare
  <2>2. CASE WakeGrant(t)
    <3>1. t \in Pending(b)
      BY <1>b, <2>2 DEF WakeGrant, At, Pending
    <3>2. blocks[b].pending_requests > 0
      BY <3>1, UsersCount
    <3>3. NotPending(blocks[b]) \in CacheBlock
      BY <1>1, <3>2 DEF CacheBlock, NotPending
    <3> QED
      BY <1>1, <1>b, <1>x, <2>2, <3>3, GrantedInUse, Zenon DEF WakeGrant
  <2>3. CASE ProbeWait(t)
    <3> DEFINE q == [blocks[b] EXCEPT !.pending_requests = @ + 1]
    <3>1. q \in CacheBlock /\ q.pending_requests = blocks[b].pending_requests + 1
      BY <1>1 DEF CacheBlock
    <3>2. blocks[b].pending_requests \in Nat
      BY <1>1 DEF CacheBlock
    <3>3. q.pending_requests # 0
      BY <3>1, <3>2
    <3>4. blocks' = [blocks EXCEPT ![b] = q]
      BY <1>b, <2>3 DEF ProbeWait
    <3> QED
      BY <3>1, <3>3, <3>4, Zenon
  <2> QED
    BY <2>1, <2>2, <2>3
<1>4. \A c \in Block : Unused(c)' <=> Unused(c)
  <2>1. \A c \in Block : blocks'[c] = IF c = b THEN r ELSE blocks[c]
    BY <1>0, <1>3, BlockUpdate, Zenon
  <2> QED
    BY <1>2, <1>3, <2>1 DEF Unused
<1>5. /\ call[t].pc \in {"probe", "woken"} /\ call'[t].pc \in {"client", "window"}
      /\ \A u \in Thread : u # t => call'[u] = call[u]
  <2>1. call[t].pc \in {"probe", "woken"}
    BY DEF ProbeShare, WakeGrant, ProbeWait, At
  <2>2. CASE ProbeShare(t) \/ WakeGrant(t)
    <3>1. GrantTo(t, b, x)
      BY <1>b, <1>x, <2>2 DEF ProbeShare, WakeGrant
    <3>2. call'[t].pc = "client" /\ \A u \in Thread : u # t => call'[u] = call[u]
      BY <1>0, <3>1, GrantUpdate
    <3> QED
      BY <2>1, <3>2
  <2>3. CASE ProbeWait(t)
    <3>1. \A u \in Thread : call'[u] = IF u = t THEN [call[t] EXCEPT !.pc = "window"] ELSE call[u]
      BY <1>0, <2>3, GotoUpdate DEF ProbeWait
    <3>2. [call[t] EXCEPT !.pc = "window"].pc = "window"
      BY <1>0 DEF Call
    <3> QED
      BY <2>1, <3>1, <3>2, Zenon
  <2> QED
    BY <2>2, <2>3
<1>6. num_evict' = num_evict
  BY DEF ProbeShare, WakeGrant, ProbeWait
<1>7. \A u \in Thread : call'[u].pc \in {"scan", "store", "next"}
                           <=> call[u].pc \in {"scan", "store", "next"}
  BY <1>5
<1> QED
  BY <1>4, <1>6, <1>7, SameCount

\* The steps of a call that only move its position.
LEMMA MoveCount ==
  ASSUME IInv, EvictAccounting, NEW t \in Thread,
         \/ ProbeMiss(t) \/ ProbeUnused(t) \/ Sleep(t) \/ WakeWait(t) \/ ScanBusy(t)
         \/ ScanStore(t) \/ ScanNext(t) \/ Flush(t)
         \/ \E s \in Sector, x \in BOOLEAN : Get(t, s, x)
  PROVE  EvictAccounting'
<1>0. call \in [Thread -> Call]
  BY DEF IInv, TypeOK
<1>1. num_evict' = num_evict /\ blocks' = blocks
  BY DEF ProbeMiss, ProbeUnused, Sleep, WakeWait, ScanBusy, ScanStore, ScanNext, Flush, Get
<1>2. \A u \in Thread : u # t => call'[u] = call[u]
  BY <1>0 DEF ProbeMiss, ProbeUnused, Sleep, WakeWait, ScanBusy, ScanStore, ScanNext, Flush,
     Get, Goto
<1>3. call'[t].pc \in {"scan", "store", "next"} <=> call[t].pc \in {"scan", "store", "next"}
  <2>1. CASE ProbeMiss(t) \/ ProbeUnused(t)
    BY <1>0, <2>1 DEF ProbeMiss, ProbeUnused, Goto, At, Call
  <2>2. CASE Sleep(t) \/ WakeWait(t)
    BY <1>0, <2>2 DEF Sleep, WakeWait, Goto, At, Call
  <2>3. CASE ScanBusy(t) \/ ScanStore(t) \/ ScanNext(t)
    BY <1>0, <2>3 DEF ScanBusy, ScanStore, ScanNext, Goto, At, Call
  <2>4. CASE Flush(t)
    BY <1>0, <2>4 DEF Flush, At, Call
  <2>5. ASSUME NEW s \in Sector, NEW x \in BOOLEAN, Get(t, s, x)
        PROVE  call'[t].pc = "probe" /\ call[t].pc = "client"
    BY <1>0, <2>5 DEF Get, At
  <2> QED
    BY <2>1, <2>2, <2>3, <2>4, <2>5
<1>4. \A c \in Block : Unused(c)' <=> Unused(c)
  BY <1>1 DEF Unused
<1>5. \A u \in Thread : call'[u].pc \in {"scan", "store", "next"}
                           <=> call[u].pc \in {"scan", "store", "next"}
  BY <1>2, <1>3
<1> QED
  BY <1>1, <1>4, <1>5, SameCount

\* What a client does with a block it holds changes no counter.
LEMMA DataCount ==
  ASSUME IInv, EvictAccounting, NEW t \in Thread, NEW b \in Block,
         \/ Read(t, b) \/ ZeroBlock(t, b) \/ MarkDirty(t, b) \/ MarkDeleted(t, b)
         \/ PutPanic(t, b) \/ \E v \in Value : Modify(t, b, v)
  PROVE  EvictAccounting'
<1>1. \A c \in Block : Unused(c)' <=> Unused(c)
  BY DataCounters DEF Unused
<1> QED
  BY <1>1, DataCounters, SameCount

\* Neither does cache_flush.
LEMMA FlushCount ==
  ASSUME IInv, EvictAccounting, NEW t \in Thread, FlushBlock(t)
  PROVE  EvictAccounting'
<1>1. \A c \in Block : Unused(c)' <=> Unused(c)
  BY FlushCounters DEF Unused
<1>2. \A u \in Thread : call'[u].pc \in {"scan", "store", "next"}
                           <=> call[u].pc \in {"scan", "store", "next"}
  BY FlushCounters
<1> QED
  BY <1>1, <1>2, FlushCounters, SameCount

\* At boot every block is unused and num_evict is CACHE_LIMIT.
LEMMA InitCount == Init => EvictAccounting
<1> SUFFICES ASSUME Init PROVE EvictAccounting
  OBVIOUS
<1>1. UnusedBlocks = 0 .. CACHE_LIMIT - 1 /\ Evictors = {} /\ num_evict = CACHE_LIMIT
  <2>1. \A b \in Block : Unused(b)
    BY DEF Init, Unused
  <2>2. \A t \in Thread : call[t].pc = "client"
    BY DEF Init
  <2>3. UnusedBlocks = Block
    BY <2>1 DEF UnusedBlocks
  <2>4. Evictors = {}
    BY <2>2 DEF Evictors
  <2>5. num_evict = CACHE_LIMIT
    BY DEF Init
  <2> QED
    BY <2>3, <2>4, <2>5 DEF Block
<1>2. Cardinality(0 .. CACHE_LIMIT - 1) = CACHE_LIMIT
  BY LimitAssumption, FS_Interval
<1>3. Cardinality({}) = 0
  BY FS_EmptySet
<1> QED
  <2>1. CACHE_LIMIT + 0 = CACHE_LIMIT
    BY LimitAssumption
  <2> QED
    BY <1>1, <1>2, <1>3, <2>1 DEF EvictAccounting

\* Every step keeps the accounting.
LEMMA NextCount == IInv /\ EvictAccounting /\ [Next]_vars => EvictAccounting'
<1> SUFFICES ASSUME IInv, EvictAccounting, [Next]_vars
             PROVE  EvictAccounting'
  OBVIOUS
<1>1. CASE UNCHANGED vars
  BY <1>1 DEF vars, EvictAccounting, UnusedBlocks, Unused, Evictors
<1>2. ASSUME NEW t \in Thread, Step(t)
      PROVE  EvictAccounting'
  <2>1. CASE \E s \in Sector, x \in BOOLEAN : Get(t, s, x)
    BY <2>1, MoveCount
  <2>2. CASE InGet(t)
    BY <2>2, MoveCount, BusyCount, TokenCount, EvictDownCount, EvictCount DEF InGet
  <2>3. ASSUME NEW b \in Block, OnBlock(t, b)
        PROVE  EvictAccounting'
    BY <2>3, DataCount, PutCount DEF OnBlock
  <2>4. CASE Flush(t) \/ FlushBlock(t)
    BY <2>4, MoveCount, FlushCount
  <2> QED
    BY <1>2, <2>1, <2>2, <2>3, <2>4 DEF Step
<1> QED
  BY <1>1, <1>2 DEF Next, Halted

\* num_evict plus the threads that passed evict's sema_down is the number of
\* blocks without readers, writers or pending requests, always: a thread that
\* scans the cache for a victim is one that has a victim reserved.
THEOREM EvictionAccounting == Spec => []EvictAccounting
  BY InitCount, NextCount, Invariance, PTL DEF Spec

-----------------------------------------------------------------------------
\* Only evict gives a block another sector.
LEMMA SectorChange ==
  ASSUME IInv, [Next]_vars, NEW b \in Block, blocks'[b].bs_id # blocks[b].bs_id
  PROVE  Unused(b) /\ LockFree(b)
<1>0. TypeOK
  BY DEF IInv
<1>1. blocks \in [Block -> CacheBlock] /\ call \in [Thread -> Call]
  BY <1>0 DEF TypeOK
<1>2. blocks' # blocks
  OBVIOUS
<1>3. PICK t \in Thread : Step(t)
  BY <1>2 DEF Next, Halted, vars
<1>4. CASE InGet(t)
  <2>i. PICK c \in Block : c = call[t].i
    BY <1>1 DEF Call
  <2>x. PICK x \in BOOLEAN : x = call[t].exclusive
    BY <1>1 DEF Call
  <2>1. CASE Evict(t)
    BY <1>1, <2>1, <2>i DEF Evict
  <2>2. CASE Token(t) \/ ProbeShare(t)
    <3>1. blocks' = [blocks EXCEPT ![c] = Counted(blocks[c], x)]
      BY <2>2, <2>i, <2>x, Zenon DEF Token, ProbeShare
    <3>2. Counted(blocks[c], x).bs_id = blocks[c].bs_id
      BY <1>1, CountedFields
    <3> QED
      BY <1>1, <3>1, <3>2
  <2>3. CASE WakeGrant(t)
    <3>1. blocks' = [blocks EXCEPT ![c] = Counted(NotPending(blocks[c]), x)]
      BY <2>3, <2>i, <2>x DEF WakeGrant
    <3>2. t \in Pending(c)
      BY <2>i, <2>3 DEF WakeGrant, At, Pending
    <3>3. blocks[c].pending_requests > 0
      BY <3>2, UsersCount
    <3>4. NotPending(blocks[c]) \in CacheBlock /\ NotPending(blocks[c]).bs_id = blocks[c].bs_id
      BY <1>1, <3>3 DEF CacheBlock, NotPending
    <3>5. Counted(NotPending(blocks[c]), x).bs_id = blocks[c].bs_id
      BY <3>4, CountedFields
    <3> QED
      BY <1>1, <3>1, <3>5
  <2>4. CASE ProbeWait(t)
    BY <1>1, <2>4, <2>i DEF ProbeWait, CacheBlock
  <2> QED
    BY <1>2, <1>4, <2>1, <2>2, <2>3, <2>4 DEF InGet, ProbeMiss, ProbeUnused, Sleep, WakeWait,
       EvictDown, ScanBusy, ScanStore, ScanNext
<1>5. ASSUME NEW c \in Block, OnBlock(t, c)
      PROVE  blocks'[b].bs_id = blocks[b].bs_id
  <2>1. CASE Put(t, c)
    BY <1>1, <2>1 DEF Put, Released, CacheBlock
  <2>2. CASE PutPanic(t, c)
    BY <2>2 DEF PutPanic
  <2>3. CASE Read(t, c)
    BY <1>1, <2>3 DEF Read, CacheBlock
  <2>4. CASE ZeroBlock(t, c)
    BY <1>1, <2>4 DEF ZeroBlock, CacheBlock
  <2>5. CASE MarkDirty(t, c) \/ MarkDeleted(t, c)
    BY <1>1, <2>5 DEF MarkDirty, MarkDeleted, CacheBlock
  <2>6. ASSUME NEW v \in Value, Modify(t, c, v)
        PROVE  blocks'[b].bs_id = blocks[b].bs_id
    BY <1>1, <2>6 DEF Modify, CacheBlock
  <2> QED
    BY <1>5, <2>1, <2>2, <2>3, <2>4, <2>5, <2>6 DEF OnBlock
<1>6. CASE FlushBlock(t)
  <2>i. PICK c \in Block : c = call[t].i
    BY <1>1 DEF Call
  <2>1. blocks'[b].bs_id = blocks[b].bs_id
    BY <1>1, <1>6, <2>i DEF FlushBlock, CacheBlock
  <2> QED
    BY <2>1
<1> QED
  BY <1>2, <1>3, <1>4, <1>5, <1>6 DEF Step, Flush, Get

\* No step gives a block another sector while a thread holds it or waits for
\* it ("a block will never be evicted when it's reading/writing").
THEOREM NoEvictionInUse == Spec => InUseNotEvicted
<1>1. ASSUME IInv, [Next]_vars, NEW b \in Block, InUse(b)
      PROVE  blocks'[b].bs_id = blocks[b].bs_id
  <2>1. SUFFICES ASSUME Unused(b), LockFree(b) PROVE FALSE
    BY <1>1, SectorChange
  <2>2. PICK t \in Thread :
          \/ hold[t][b].mode # "none"
          \/ call[t].pc \in {"token", "window", "asleep", "woken"} /\ call[t].i = b
    BY <1>1 DEF InUse
  <2>3. hold[t][b].mode = "none"
    BY <1>1, <2>1, UsersCount
  <2>4. t \notin Pending(b)
    BY <1>1, <2>1, UsersCount DEF Unused
  <2> QED
    BY <2>1, <2>2, <2>3, <2>4 DEF Pending, LockFree, At
<1>2. IInv /\ [Next]_vars =>
        [\A b \in Block : InUse(b) => blocks'[b].bs_id = blocks[b].bs_id]_vars
  BY <1>1
<1> QED
  BY <1>2, Invariance, PTL DEF Spec, InUseNotEvicted

-----------------------------------------------------------------------------
\* The semaphore never runs out where the cache has room.

\* A finite set of at most m elements can be numbered with 1 .. m.
LEMMA Numbering ==
  ASSUME NEW S, IsFiniteSet(S), NEW m \in Nat, Cardinality(S) <= m
  PROVE  \E h \in [S -> 1..m] : \A x, y \in S : h[x] = h[y] => x = y
<1>1. PICK n \in Nat : n = Cardinality(S)
  BY FS_CardinalityType
<1>2. PICK f \in Surjection(1..n, S) : TRUE
  BY <1>1, FS_CardinalityType DEF ExistsBijection, Bijection
<1>3. f \in [1..n -> S] /\ \A x \in S : \E k \in 1..n : f[k] = x
  BY <1>2 DEF Surjection
<1> DEFINE h == [x \in S |-> CHOOSE k \in 1..n : f[k] = x]
<1>4. \A x \in S : h[x] \in 1..n /\ f[h[x]] = x
  BY <1>3
<1>5. \A k \in 1..n : k \in 1..m
  BY <1>1
<1>6. h \in [S -> 1..m]
  BY <1>4, <1>5
<1>7. \A x, y \in S : h[x] = h[y] => x = y
  BY <1>4
<1> QED
  BY <1>6, <1>7, Zenon

\* At most m elements for each of the members of a finite set.
LEMMA FamilyBound ==
  ASSUME NEW T, IsFiniteSet(T), NEW X, NEW F \in [T -> SUBSET X], NEW m \in Nat,
         \A u \in T : IsFiniteSet(F[u]) /\ Cardinality(F[u]) <= m,
         NEW P, P = {p \in T \X X : p[2] \in F[p[1]]}
  PROVE  IsFiniteSet(P) /\ Cardinality(P) <= Cardinality(T) * m
<1> DEFINE Num(u) == {h \in [F[u] -> 1..m] : \A x, y \in F[u] : h[x] = h[y] => x = y}
<1>1. PICK H : \A u \in T : /\ H[u] \in [F[u] -> 1..m]
                            /\ \A x, y \in F[u] : H[u][x] = H[u][y] => x = y
  <2>1. \A u \in T : (CHOOSE h \in Num(u) : TRUE) \in Num(u)
    BY Numbering
  <2>2. WITNESS [u \in T |-> CHOOSE h \in Num(u) : TRUE]
  <2> QED
    BY <2>1
<1> DEFINE g == [p \in P |-> <<p[1], H[p[1]][p[2]]>>]
<1>2. \A p \in P : p[1] \in T /\ p[2] \in F[p[1]] /\ p = <<p[1], p[2]>>
  OBVIOUS
<1>3. ASSUME NEW p \in P, NEW q \in P, g[p] = g[q]
      PROVE  p = q
  <2>1. p[1] = q[1] /\ H[p[1]][p[2]] = H[q[1]][q[2]]
    BY <1>3
  <2>2. p[2] = q[2]
    <3>1. PICK u \in T : u = p[1]
      BY <1>2
    <3>2. p[2] \in F[u] /\ q[2] \in F[u] /\ H[u][p[2]] = H[u][q[2]]
      BY <1>2, <2>1, <3>1
    <3> QED
      BY <1>1, <3>2
  <2> QED
    BY <1>2, <2>1, <2>2, Zenon
<1>4. g \in [P -> T \X (1..m)]
  BY <1>1, <1>2
<1>5. g \in Injection(P, T \X (1..m))
  <2>1. \A p, q \in P : g[p] = g[q] => p = q
    BY <1>3
  <2> HIDE DEF g
  <2> QED
    BY <1>4, <2>1 DEF Injection, IsInjective
<1>6. IsFiniteSet(1..m) /\ Cardinality(1..m) = m
  BY FS_Interval
<1>7. /\ IsFiniteSet(T \X (1..m))
      /\ Cardinality(T \X (1..m)) = Cardinality(T) * m
  BY <1>6, FS_Product
<1> QED
  BY <1>5, <1>7, FS_Injection

-----------------------------------------------------------------------------
\* A thread in a call into the cache has room for one more block.
Calling(t) == call[t].pc \notin {"client", "flush"}
Room == \A t \in Thread : /\ Cardinality(Held(t)) <= MaxHeld
                          /\ Calling(t) => Cardinality(Held(t)) < MaxHeld

\* The blocks a thread holds are finitely many.
LEMMA HeldFinite == ASSUME NEW t \in Thread
                    PROVE  /\ Held(t) \in SUBSET Block /\ IsFiniteSet(Held(t))
                           /\ Cardinality(Held(t)) \in Nat
<1>1. Held(t) \in SUBSET Block
  BY DEF Held
<1> QED
  BY <1>1, Finite

\* A step that grants and takes back nothing, and starts no call.
LEMMA RoomKept ==
  ASSUME Room, \A u \in Thread, c \in Block : hold'[u][c].mode = hold[u][c].mode,
         \A u \in Thread : Calling(u)' => Calling(u)
  PROVE  Room'
<1>1. \A u \in Thread : Held(u)' = Held(u)
  BY DEF Held
<1> QED
  BY <1>1 DEF Room

\* cache_get_block is called only by a thread that may hold one more block.
LEMMA GetRoom ==
  ASSUME IInv, Room, NEW t \in Thread, NEW s \in Sector, NEW x \in BOOLEAN, Get(t, s, x)
  PROVE  Room'
<1>1. \A u \in Thread : Held(u)' = Held(u)
  BY DEF Get, Held
<1>2. \A u \in Thread : u # t => call'[u] = call[u]
  BY DEF Get, IInv, TypeOK
<1>3. Cardinality(Held(t)) < MaxHeld
  BY DEF Get
<1> QED
  BY <1>1, <1>2, <1>3 DEF Room, Calling

\* Its return gives the caller that block.
LEMMA GrantRoom ==
  ASSUME IInv, Room, NEW t \in Thread, Token(t) \/ ProbeShare(t) \/ WakeGrant(t) \/ Evict(t)
  PROVE  Room'
<1>0. TypeOK /\ call \in [Thread -> Call]
  BY DEF IInv, TypeOK
<1>b. PICK b \in Block, x \in BOOLEAN : b = call[t].i /\ x = call[t].exclusive
  BY <1>0 DEF Call
<1>1. GrantTo(t, b, x) /\ Calling(t)
  BY <1>b, Zenon DEF Token, ProbeShare, WakeGrant, Evict, Calling, At
<1>2. /\ hold'[t][b].mode # "none"
      /\ \A u \in Thread, c \in Block : u # t \/ c # b => hold'[u][c] = hold[u][c]
      /\ call'[t].pc = "client" /\ \A u \in Thread : u # t => call'[u] = call[u]
  BY <1>0, <1>1, GrantUpdate, Zenon
<1>3. Held(t)' = Held(t) \cup {b} /\ \A u \in Thread : u # t => Held(u)' = Held(u)
  BY <1>2, Zenon DEF Held
<1>4. Cardinality(Held(t)) < MaxHeld
  BY <1>1 DEF Room
<1>5. Cardinality(Held(t)') <= MaxHeld
  <2>0. PICK S : S = Held(t)
    BY Zenon
  <2>1. PICK n \in Nat : n = Cardinality(S) /\ IsFiniteSet(S)
    BY <2>0, HeldFinite, FS_CardinalityType
  <2>2. Cardinality(S \cup {b}) \in {n, n + 1}
    BY <2>1, FS_AddElement, Zenon
  <2> QED
    BY <1>3, <1>4, <2>0, <2>1, <2>2, LimitAssumption
<1>6. ~Calling(t)' /\ \A u \in Thread : u # t => (Calling(u)' <=> Calling(u))
  BY <1>2 DEF Calling
<1> QED
  BY <1>3, <1>5, <1>6, Zenon DEF Room

\* cache_put_block takes it back; the waiters it wakes stay in their calls.
LEMMA PutRoom ==
  ASSUME IInv, Room, NEW t \in Thread, NEW b \in Block, Put(t, b)
  PROVE  Room'
<1>0. TypeOK /\ call \in [Thread -> Call] /\ NoGrant \in Grant /\ NoGrant.mode = "none"
  BY DEF IInv, TypeOK, NoGrant, Grant, Mode, Phase
<1>1. \A u \in Thread, c \in Block : hold'[u][c] = IF u = t /\ c = b THEN NoGrant ELSE hold[u][c]
  BY <1>0, HoldUpdate, Zenon DEF Put
<1>2. Held(t)' = Held(t) \ {b} /\ \A u \in Thread : u # t => Held(u)' = Held(u)
  BY <1>0, <1>1 DEF Held
<1>3. Cardinality(Held(t)') <= Cardinality(Held(t))
  <2>1. PICK S : S = Held(t)
    BY Zenon
  <2>2. IsFiniteSet(S) /\ S \ {b} \in SUBSET S
    BY <2>1, HeldFinite
  <2>3. Cardinality(S \ {b}) <= Cardinality(S)
    BY <2>2, FS_Subset
  <2> QED
    BY <1>2, <2>1, <2>3
<1>4. PICK ws \in Woken(b) :
        call' = [u \in Thread |-> IF u \in ws THEN [call[u] EXCEPT !.pc = "woken"] ELSE call[u]]
  BY DEF Put
<1>5. ws \subseteq Waiters(b, TRUE) \cup Waiters(b, FALSE)
  BY <1>4, Zenon DEF Woken, OneWriter
<1>6. \A u \in Thread : Calling(u)' => Calling(u)
  BY <1>4, <1>5 DEF Calling, Waiters
<1>7. Held(t)' \subseteq Held(t)
  BY <1>2
<1>8. Cardinality(Held(t)') \in Nat
  BY <1>7, HeldFinite, FS_Subset, FS_CardinalityType
<1>9. /\ Cardinality(Held(t)') <= MaxHeld
      /\ Calling(t)' => Cardinality(Held(t)') < MaxHeld
  BY <1>3, <1>6, <1>8, HeldFinite, LimitAssumption DEF Room
<1> QED
  BY <1>2, <1>6, <1>9, Zenon DEF Room

\* The steps of a call that grant nothing, and those of cache_flush.
LEMMA MoveRoom ==
  ASSUME IInv, Room, NEW t \in Thread,
         \/ ProbeMiss(t) \/ ProbeUnused(t) \/ ProbeWait(t) \/ Sleep(t) \/ WakeWait(t)
         \/ EvictDown(t) \/ ScanBusy(t) \/ ScanStore(t) \/ ScanNext(t)
         \/ Flush(t) \/ FlushBlock(t)
  PROVE  Room'
<1>0. call \in [Thread -> Call]
  BY DEF IInv, TypeOK
<1>1. hold' = hold
  BY DEF ProbeMiss, ProbeUnused, ProbeWait, Sleep, WakeWait, EvictDown, ScanBusy, ScanStore,
     ScanNext, Flush, FlushBlock
<1>2. \A u \in Thread : u # t => call'[u] = call[u]
  BY <1>0 DEF ProbeMiss, ProbeUnused, ProbeWait, Sleep, WakeWait, EvictDown, ScanBusy, ScanStore,
     ScanNext, Flush, FlushBlock, Goto
<1>3. Calling(t)' => Calling(t)
  <2>1. CASE Flush(t) \/ FlushBlock(t)
    BY <1>0, <2>1 DEF Flush, FlushBlock, Goto, At, Call, Calling
  <2>2. CASE ~(Flush(t) \/ FlushBlock(t))
    BY <2>2 DEF ProbeMiss, ProbeUnused, ProbeWait, Sleep, WakeWait, EvictDown, ScanBusy, ScanStore,
       ScanNext, At, Calling
  <2> QED
    BY <2>1, <2>2
<1>4. \A u \in Thread : Calling(u)' => Calling(u)
  BY <1>2, <1>3, Zenon DEF Calling
<1> QED
  BY <1>1, <1>4, RoomKept

\* A client keeps its access to the blocks it uses.
LEMMA UseRoom ==
  ASSUME IInv, Room, NEW t \in Thread, NEW b \in Block,
         \/ Read(t, b) \/ ZeroBlock(t, b) \/ MarkDirty(t, b) \/ MarkDeleted(t, b)
         \/ PutPanic(t, b) \/ \E v \in Value : Modify(t, b, v)
  PROVE  Room'
<1>0. TypeOK /\ hold[t][b] \in Grant /\ hold[t][b].mode \in Mode
  BY DEF IInv, TypeOK, Grant
<1>1. \A u \in Thread, c \in Block : hold'[u][c].mode = hold[u][c].mode
  <2>1. CASE PutPanic(t, b)
    BY <2>1 DEF PutPanic
  <2>2. ASSUME NEW p \in Phase, Reaches(t, b, p)
        PROVE  \A u \in Thread, c \in Block : hold'[u][c].mode = hold[u][c].mode
    <3>1. PICK g \in Grant : g = [mode |-> hold[t][b].mode, phase |-> p]
      BY <1>0, Zenon DEF Grant
    <3>2. \A u \in Thread, c \in Block : hold'[u][c] = IF u = t /\ c = b THEN g ELSE hold[u][c]
      BY <1>0, <2>2, <3>1, HoldUpdate, Zenon DEF Reaches
    <3>3. g.mode = hold[t][b].mode
      BY <3>1
    <3> QED
      BY <3>2, <3>3, Zenon
  <2> QED
    BY <2>1, <2>2 DEF Read, ZeroBlock, MarkDirty, MarkDeleted, Modify, Phase
<1>2. call' = call
  BY DataCounters, Zenon
<1> QED
  BY <1>1, <1>2, RoomKept, Zenon DEF Calling

\* Room is inductive (given IInv).
LEMMA NextRoom == IInv /\ Room /\ [Next]_vars => Room'
<1> SUFFICES ASSUME IInv, Room, [Next]_vars
             PROVE  Room'
  OBVIOUS
<1>1. CASE UNCHANGED vars
  BY <1>1 DEF vars, Room, Held, Calling
<1>2. ASSUME NEW t \in Thread, Step(t)
      PROVE  Room'
  <2>1. ASSUME NEW s \in Sector, NEW x \in BOOLEAN, Get(t, s, x)
        PROVE  Room'
    BY <2>1, GetRoom
  <2>2. CASE InGet(t)
    BY <2>2, MoveRoom, GrantRoom DEF InGet
  <2>3. ASSUME NEW b \in Block, OnBlock(t, b)
        PROVE  Room'
    BY <2>3, UseRoom, PutRoom DEF OnBlock
  <2>4. CASE Flush(t) \/ FlushBlock(t)
    BY <2>4, MoveRoom
  <2> QED
    BY <1>2, <2>1, <2>2, <2>3, <2>4 DEF Step
<1> QED
  BY <1>1, <1>2 DEF Next, Halted

\* At first nobody holds anything.
LEMMA InitRoom == Init => Room
<1> SUFFICES ASSUME Init, NEW t \in Thread
             PROVE  Cardinality(Held(t)) <= MaxHeld /\ ~Calling(t)
  BY DEF Room
<1>1. Held(t) = {} /\ ~Calling(t)
  BY DEF Init, Held, NoGrant, Calling
<1> QED
  BY <1>1, FS_EmptySet, LimitAssumption

\* The blocks in use and the calls that have no block yet are all different
\* claims of threads, at most MaxHeld each.
LEMMA ClaimsFit ==
  ASSUME IInv, Room, NEW t \in Thread, call[t].pc \in {"token", "down"}
  PROVE  Cardinality(Block \ UnusedBlocks) + Cardinality(Evictors) + 1
           <= Cardinality(Thread) * MaxHeld
<1>0. TypeOK /\ call \in [Thread -> Call]
  BY DEF IInv, TypeOK
<1> DEFINE Claims == [u \in Thread |-> Held(u) \cup (IF Calling(u) THEN {-1} ELSE {})]
           X == Block \cup {-1}
           All == {p \in Thread \X X : p[2] \in Claims[p[1]]}
           Waiting == {<<u, -1>> : u \in Evictors \cup {t}}
           Used == Block \ UnusedBlocks
           Claim(p, b) == p[2] = b \/ (p[2] = -1 /\ p[1] \in Pending(b))
<1>1. Claims \in [Thread -> SUBSET X]
  BY HeldFinite
<1>2. \A u \in Thread : IsFiniteSet(Claims[u]) /\ Cardinality(Claims[u]) <= MaxHeld
  <2>1. SUFFICES ASSUME NEW u \in Thread
                 PROVE  IsFiniteSet(Claims[u]) /\ Cardinality(Claims[u]) <= MaxHeld
    OBVIOUS
  <2>s. PICK S : S = Held(u)
    BY Zenon
  <2>2. PICK n \in Nat : S = Held(u) /\ n = Cardinality(S) /\ IsFiniteSet(S)
    BY <2>s, HeldFinite, FS_CardinalityType
  <2>3. CASE Calling(u)
    <3>1. Claims[u] = S \cup {-1} /\ n < MaxHeld
      BY <2>2, <2>3 DEF Room
    <3>2. IsFiniteSet(S \cup {-1}) /\ Cardinality(S \cup {-1}) \in {n, n + 1}
      BY <2>2, FS_AddElement
    <3>3. n + 1 <= MaxHeld
      BY <3>1, LimitAssumption
    <3> HIDE DEF Claims
    <3> QED
      BY <3>1, <3>2, <3>3, LimitAssumption
  <2>4. CASE ~Calling(u)
    <3>1. Claims[u] = S
      BY <2>2, <2>4
    <3> QED
      BY <2>2, <3>1, Zenon DEF Room
  <2> QED
    BY <2>3, <2>4
<1>3. IsFiniteSet(All) /\ Cardinality(All) <= Cardinality(Thread) * MaxHeld
  BY <1>1, <1>2, FamilyBound, ThreadAssumption, LimitAssumption, Zenon
<1>4. Waiting \subseteq All
  BY DEF Evictors, Calling
<1>5. Cardinality(Waiting) = Cardinality(Evictors) + 1 /\ IsFiniteSet(Waiting)
  <2>1. t \notin Evictors
    BY DEF Evictors
  <2>2. Cardinality(Evictors \cup {t}) = Cardinality(Evictors) + 1 /\ IsFiniteSet(Evictors \cup {t})
    BY <2>1, EvictSets, FS_AddElement
  <2> DEFINE f == [u \in Evictors \cup {t} |-> <<u, -1>>]
  <2>3. f \in Bijection(Evictors \cup {t}, Waiting)
    BY Zenon DEF Bijection, Injection, Surjection, IsInjective
  <2> QED
    BY <2>2, <2>3, FS_Bijection DEF ExistsBijection
<1>6. \A b \in Used : \E p \in All \ Waiting : Claim(p, b)
  <2>1. SUFFICES ASSUME NEW b \in Used PROVE \E p \in All \ Waiting : Claim(p, b)
    OBVIOUS
  <2>2. \/ \E u \in Thread : hold[u][b].mode # "none"
        \/ \E u \in Thread : u \in Pending(b)
    <3>1. /\ blocks[b].num_readers = Cardinality(Readers(b))
          /\ blocks[b].num_writers = Cardinality(Writers(b))
          /\ blocks[b].pending_requests = Cardinality(Pending(b))
      BY DEF IInv, CountsOK
    <3>2. Readers(b) # {} \/ Writers(b) # {} \/ Pending(b) # {}
      BY <3>1, FS_EmptySet DEF UnusedBlocks, Unused
    <3> QED
      BY <3>2 DEF Readers, Writers, Pending
  <2>3. b \in Block /\ b # -1
    <3>1. b \in Block
      OBVIOUS
    <3> QED
      BY <3>1, LimitAssumption DEF Block
  <2>4. ASSUME NEW u \in Thread, hold[u][b].mode # "none"
        PROVE  \E p \in All \ Waiting : Claim(p, b)
    <3>1. b \in Claims[u] /\ <<u, b>> \in All
      BY <2>3, <2>4 DEF Held
    <3>2. <<u, b>> \notin Waiting
      BY <2>3
    <3> QED
      BY <3>1, <3>2, Zenon
  <2>5. ASSUME NEW u \in Thread, u \in Pending(b)
        PROVE  \E p \in All \ Waiting : Claim(p, b)
    <3>1. Calling(u) /\ u \notin Evictors \cup {t}
      BY <2>5 DEF Pending, Calling, Evictors
    <3>2. <<u, -1>> \in All /\ <<u, -1>> \notin Waiting
      BY <3>1
    <3>3. Claim(<<u, -1>>, b)
      BY <2>5
    <3> HIDE DEF Claim, All, Waiting
    <3> QED
      BY <3>2, <3>3
  <2> QED
    BY <2>2, <2>4, <2>5, Zenon
<1>7. \A b, c \in Used, p \in All : Claim(p, b) /\ Claim(p, c) => b = c
  <2>1. SUFFICES ASSUME NEW b \in Block, NEW c \in Block, NEW p, Claim(p, b), Claim(p, c)
                 PROVE  b = c
    OBVIOUS
  <2>2. b # -1 /\ c # -1
    BY LimitAssumption DEF Block
  <2>3. CASE p[2] = -1
    BY <2>1, <2>2, <2>3 DEF Pending
  <2>4. CASE p[2] # -1
    BY <2>1, <2>4
  <2> QED
    BY <2>3, <2>4
<1>8. Cardinality(Used) <= Cardinality(All \ Waiting) /\ IsFiniteSet(All \ Waiting)
  <2> DEFINE f == [b \in Used |-> CHOOSE p \in All \ Waiting : Claim(p, b)]
  <2> HIDE DEF Claim, All, Waiting, Used
  <2>1. \A b \in Used : f[b] \in All \ Waiting /\ Claim(f[b], b)
    BY <1>6
  <2>2. f \in Injection(Used, All \ Waiting)
    BY <1>7, <2>1 DEF Injection, IsInjective
  <2>3. IsFiniteSet(All \ Waiting)
    BY <1>3, FS_Difference, Zenon
  <2> QED
    BY <2>2, <2>3, FS_Injection
<1>9. Cardinality(All \ Waiting) = Cardinality(All) - Cardinality(Waiting)
  <2> HIDE DEF All, Waiting
  <2>1. All \cap Waiting = Waiting
    BY <1>4
  <2> QED
    BY <1>3, <2>1, FS_Difference
<1>10. /\ Cardinality(Thread) * MaxHeld \in Int /\ Cardinality(All) \in Nat
       /\ Cardinality(Used) \in Nat /\ Cardinality(Evictors) \in Nat
  <2>1. Used \in SUBSET Block
    OBVIOUS
  <2> QED
    BY <1>3, <2>1, Finite, EvictSets, ThreadAssumption, LimitAssumption, FS_CardinalityType
<1> QED
  <2> HIDE DEF All, Waiting
  <2> QED
    BY <1>3, <1>5, <1>8, <1>9, <1>10

\* With room for everything its clients can hold at once, neither sema_down on
\* num_evict ever puts a thread to sleep, though obtain_block's would do so with
\* a block lock held.
THEOREM SemaphoreNeverWaits == Spec => []EvictNeverWaits
<1>1. ASSUME IInv, Room, EvictAccounting, Cardinality(Thread) * MaxHeld <= CACHE_LIMIT,
             NEW t \in Thread, call[t].pc \in {"token", "down"}
      PROVE  num_evict > 0
  <2>1. Cardinality(Block \ UnusedBlocks) + Cardinality(Evictors) + 1
          <= Cardinality(Thread) * MaxHeld
    BY <1>1, ClaimsFit
  <2>2. Cardinality(Block \ UnusedBlocks) = CACHE_LIMIT - Cardinality(UnusedBlocks)
    <3>1. IsFiniteSet(Block) /\ Cardinality(Block) = CACHE_LIMIT
      BY LimitAssumption, FS_Interval DEF Block
    <3>2. Block \cap UnusedBlocks = UnusedBlocks
      BY EvictSets
    <3> QED
      BY <3>1, <3>2, FS_Difference
  <2>3. num_evict \in Nat /\ num_evict + Cardinality(Evictors) = Cardinality(UnusedBlocks)
    BY <1>1 DEF IInv, TypeOK, EvictAccounting
  <2>4. Cardinality(Thread) * MaxHeld \in Int
    BY ThreadAssumption, LimitAssumption, FS_CardinalityType
  <2> QED
    BY <1>1, <2>1, <2>2, <2>3, <2>4, EvictSets, LimitAssumption
<1>2. IInv /\ Room /\ EvictAccounting => EvictNeverWaits
  BY <1>1 DEF EvictNeverWaits
<1> QED
  BY <1>2, InitRoom, NextRoom, Invariance, EvictionAccounting, PTL DEF Spec
=============================================================================
