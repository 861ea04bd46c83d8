---------------------- MODULE BufferCacheStoreProofs ----------------------
(***************************************************************************)
(* Theorems about what the buffer cache promises its clients: no thread    *)
(* that waits for a block is forgotten, and the cache, its evictions and   *)
(* its write-backs included, implements SectorStore.                       *)
(***************************************************************************)
EXTENDS BufferCacheDataProofs

-----------------------------------------------------------------------------
\* No waiter is forgotten.

\* NoLostWakeup with the waiters of a block spelled out: thread u is on the
\* list of cond_write (x = TRUE) or cond_read of block b.
Waits(u, b, x) == /\ call[u].pc \in {"window", "asleep"}
                  /\ call[u].i = b /\ call[u].exclusive = x
Coming(u, b) == At(u, "woken") /\ call[u].i = b /\ call[u].exclusive
Busy(b) == blocks[b].num_readers > 0 \/ blocks[b].num_writers > 0
Served == \A b \in Block, u \in Thread :
            /\ Waits(u, b, TRUE) => Busy(b) \/ \E w \in Thread : Coming(w, b)
            /\ Waits(u, b, FALSE) => blocks[b].num_writers > 0

\* Served says of each thread what NoLostWakeup says of the sets of waiters.
LEMMA ServedIsNoLostWakeup ==
  ASSUME TypeOK PROVE Served <=> NoLostWakeup
<1>1. \A b \in Block : /\ Waiters(b, TRUE) # {} <=> \E u \in Thread : Waits(u, b, TRUE)
                       /\ Waiters(b, FALSE) # {} <=> \E u \in Thread : Waits(u, b, FALSE)
  BY Zenon DEF Waiters, Waits
<1>2. \A b \in Block : Busy(b) <=> blocks[b].num_readers + blocks[b].num_writers > 0
  BY DEF TypeOK, CacheBlock, Busy
<1> QED
  BY <1>1, <1>2, Zenon DEF Served, NoLostWakeup, Coming

\* A step of a thread that is in cond_wait neither before it nor after it, and
\* that takes no user away from a block somebody waits for.
LEMMA QueuesKept ==
  ASSUME Served, NEW t \in Thread, ~InWait(call[t]), ~InWait(call'[t]),
         \A u \in Thread : u # t => call'[u] = call[u],
         \A b \in Block : \/ /\ Busy(b) => Busy(b)'
                             /\ blocks[b].num_writers > 0 => blocks'[b].num_writers > 0
                          \/ Pending(b) = {}
  PROVE  Served'
<1>1. ASSUME NEW u \in Thread, NEW b \in Block, NEW x \in BOOLEAN, Waits(u, b, x)'
      PROVE  u # t /\ call'[u] = call[u] /\ Waits(u, b, x) /\ Pending(b) # {}
  <2>1. u # t /\ call'[u] = call[u]
    BY <1>1 DEF Waits, InWait
  <2> QED
    BY <1>1, <2>1 DEF Waits, Pending
<1>2. \A w \in Thread, b \in Block : Coming(w, b) => Coming(w, b)'
  BY DEF Coming, At, InWait
<1> QED
  BY <1>1, <1>2, Zenon DEF Served

\* The steps that only move a caller that is not in cond_wait.
LEMMA MoveServed ==
  ASSUME IInv, Served, NEW t \in Thread,
         \/ ProbeMiss(t) \/ ProbeUnused(t) \/ EvictDown(t) \/ ScanBusy(t) \/ ScanStore(t)
         \/ ScanNext(t) \/ Flush(t) \/ \E s \in Sector, x \in BOOLEAN : Get(t, s, x)
  PROVE  Served'
<1>0. call \in [Thread -> Call]
  BY DEF IInv, TypeOK
<1>1. blocks' = blocks /\ \A u \in Thread : u # t => call'[u] = call[u]
  BY <1>0 DEF ProbeMiss, ProbeUnused, EvictDown, ScanBusy, ScanStore, ScanNext, Flush, Get, Goto
<1>2. call[t].pc \in {"client", "probe", "down", "scan", "store", "next"}
  BY DEF ProbeMiss, ProbeUnused, EvictDown, ScanBusy, ScanStore, ScanNext, Flush, Get, At
<1>3. call'[t].pc \in {"client", "probe", "token", "down", "scan", "store", "next", "flush"}
  <2>1. CASE ProbeMiss(t) \/ ProbeUnused(t)
    BY <1>0, <2>1 DEF ProbeMiss, ProbeUnused, Goto, At, Call
  <2>2. CASE ScanBusy(t) \/ ScanStore(t) \/ ScanNext(t)
    BY <1>0, <2>2 DEF ScanBusy, ScanStore, ScanNext, Goto, Call
  <2>3. CASE EvictDown(t) \/ Flush(t)
    BY <1>0, <2>3 DEF EvictDown, Flush, Call
  <2>4. ASSUME NEW s \in Sector, NEW x \in BOOLEAN, Get(t, s, x)
        PROVE  call'[t].pc = "probe"
    BY <1>0, <2>4 DEF Get
  <2> QED
    BY <2>1, <2>2, <2>3, <2>4
<1>4. ~InWait(call[t]) /\ ~InWait(call'[t])
  BY <1>2, <1>3 DEF InWait
<1>5. \A b \in Block : (Busy(b) <=> Busy(b)') /\ blocks'[b].num_writers = blocks[b].num_writers
  BY <1>1 DEF Busy
<1> QED
  BY <1>1, <1>4, <1>5, QueuesKept

\* The second half of cond_wait: the thread was on the list before it slept.
LEMMA SleepServed ==
  ASSUME IInv, Served, NEW t \in Thread, Sleep(t)
  PROVE  Served'
<1>0. call \in [Thread -> Call]
  BY DEF IInv, TypeOK
<1>1. /\ call[t].pc = "window" /\ call'[t].pc = "asleep"
      /\ call'[t].i = call[t].i /\ call'[t].exclusive = call[t].exclusive
      /\ blocks' = blocks /\ \A u \in Thread : u # t => call'[u] = call[u]
  BY <1>0 DEF Sleep, Goto, At, Call
<1>2. \A u \in Thread, b \in Block, x \in BOOLEAN : Waits(u, b, x)' => Waits(u, b, x)
  BY <1>1 DEF Waits
<1>3. \A u \in Thread, b \in Block : Coming(u, b) => Coming(u, b)'
  BY <1>1 DEF Coming, At
<1>4. \A b \in Block : Busy(b)' <=> Busy(b)
  BY <1>1 DEF Busy
<1> QED
  BY <1>1, <1>2, <1>3, <1>4, Zenon DEF Served

\* A thread that goes to wait, or back to it, found the block in use.
LEMMA WaitServed ==
  ASSUME IInv, Served, NEW t \in Thread, ProbeWait(t) \/ WakeWait(t)
  PROVE  Served'
<1>0. TypeOK /\ call \in [Thread -> Call] /\ blocks \in [Block -> CacheBlock]
  BY DEF IInv, TypeOK
<1>b. PICK b \in Block, x \in BOOLEAN : b = call[t].i /\ x = call[t].exclusive
  BY <1>0 DEF Call
<1>1. /\ call[t].pc \in {"probe", "woken"} /\ call'[t].pc = "window"
      /\ call'[t].i = b /\ call'[t].exclusive = x
      /\ \A u \in Thread : u # t => call'[u] = call[u]
  BY <1>0, <1>b DEF ProbeWait, WakeWait, Goto, At, Call
<1>2. \A c \in Block : /\ blocks'[c].num_readers = blocks[c].num_readers
                       /\ blocks'[c].num_writers = blocks[c].num_writers
  <2>1. CASE ProbeWait(t)
    BY <1>0, <1>b, <2>1 DEF ProbeWait, CacheBlock
  <2>2. CASE WakeWait(t)
    BY <2>2 DEF WakeWait
  <2> QED
    BY <2>1, <2>2
<1>3. Conflict(b, x)
  BY <1>b DEF ProbeWait, WakeWait
<1>4. \A c \in Block : Busy(c)' <=> Busy(c)
  BY <1>2 DEF Busy
<1>5. Busy(b)' /\ (~x => blocks'[b].num_writers > 0)
  BY <1>2, <1>3, <1>4 DEF Conflict, Busy
<1>6. ASSUME NEW u \in Thread, NEW c \in Block, NEW y \in BOOLEAN, Waits(u, c, y)'
      PROVE  Waits(u, c, y) \/ (c = b /\ y = x)
  BY <1>1, <1>6 DEF Waits
<1>7. \A u \in Thread, c \in Block : c # b /\ Coming(u, c) => Coming(u, c)'
  BY <1>1, <1>b DEF Coming, At
<1>8. ASSUME NEW u \in Thread, NEW c \in Block, Waits(u, c, TRUE)'
      PROVE  Busy(c)' \/ \E w \in Thread : Coming(w, c)'
  <2>1. CASE c = b
    BY <1>5, <2>1
  <2>2. CASE c # b
    BY <1>4, <1>6, <1>7, <1>8, <2>2, Zenon DEF Served
  <2> QED
    BY <2>1, <2>2
<1>9. ASSUME NEW u \in Thread, NEW c \in Block, Waits(u, c, FALSE)'
      PROVE  blocks'[c].num_writers > 0
  <2>1. CASE Waits(u, c, FALSE)
    BY <1>2, <2>1, Zenon DEF Served
  <2>2. CASE c = b /\ x = FALSE
    BY <1>5, <2>2
  <2> QED
    BY <1>6, <1>9, <2>1, <2>2, Zenon
<1> QED
  BY <1>8, <1>9, Zenon DEF Served

\* A grant to a thread that did not wait: the block only gets users, or it is
\* the victim of an eviction, which nobody waits for.
LEMMA GrantServed ==
  ASSUME IInv, Served, NEW t \in Thread, Token(t) \/ ProbeShare(t) \/ Evict(t)
  PROVE  Served'
<1>0. TypeOK /\ call \in [Thread -> Call] /\ blocks \in [Block -> CacheBlock]
  BY DEF IInv, TypeOK
<1>b. PICK b \in Block, x \in BOOLEAN : b = call[t].i /\ x = call[t].exclusive
  BY <1>0 DEF Call
<1>1. GrantTo(t, b, x) /\ ~InWait(call[t])
  BY <1>b, Zenon DEF Token, ProbeShare, Evict, At, InWait
<1>2. /\ call'[t].pc = "client" /\ \A u \in Thread : u # t => call'[u] = call[u]
  BY <1>0, <1>1, GrantUpdate
<1>3. \A c \in Block : c # b => blocks'[c] = blocks[c]
  BY <1>0, <1>b DEF Token, ProbeShare, Evict
<1>4. CASE Token(t) \/ ProbeShare(t)
  <2>1. PICK r : r = Counted(blocks[b], x)
    OBVIOUS
  <2>2. blocks'[b] = r
    BY <1>0, <1>4, <1>b, <2>1 DEF Token, ProbeShare
  <2>3. blocks[b].num_readers \in Nat /\ blocks[b].num_writers \in Nat
    BY <1>0 DEF CacheBlock
  <2>4. /\ r.num_writers = IF x THEN blocks[b].num_writers + 1 ELSE blocks[b].num_writers
        /\ r.num_readers = IF x THEN blocks[b].num_readers ELSE blocks[b].num_readers + 1
    BY <1>0, <2>1, CountedFields
  <2>5. Busy(b)' /\ (blocks[b].num_writers > 0 => blocks'[b].num_writers > 0)
    BY <2>2, <2>3, <2>4 DEF Busy
  <2>6. \A c \in Block : /\ Busy(c) => Busy(c)'
                         /\ blocks[c].num_writers > 0 => blocks'[c].num_writers > 0
    BY <1>3, <2>5 DEF Busy
  <2> QED
    BY <1>1, <1>2, <2>6, QueuesKept, Zenon DEF InWait
<1>5. CASE Evict(t)
  <2>1. Unused(b)
    BY <1>5, <1>b DEF Evict
  <2>2. Pending(b) = {}
    BY <2>1, UsersCount DEF Unused, Pending
  <2>3. \A c \in Block : c # b => /\ Busy(c) => Busy(c)'
                                  /\ blocks[c].num_writers > 0 => blocks'[c].num_writers > 0
    BY <1>3 DEF Busy
  <2> QED
    BY <1>1, <1>2, <2>2, <2>3, QueuesKept DEF InWait
<1> QED
  BY <1>4, <1>5

\* A waiter that is granted its block uses it; no reader waits for it then.
LEMMA WakeGrantServed ==
  ASSUME IInv, Served, NEW t \in Thread, WakeGrant(t)
  PROVE  Served'
<1>0. TypeOK /\ call \in [Thread -> Call] /\ blocks \in [Block -> CacheBlock]
  BY DEF IInv, TypeOK
<1>b. PICK b \in Block, x \in BOOLEAN : b = call[t].i /\ x = call[t].exclusive
  BY <1>0 DEF Call
<1>1. /\ GrantTo(t, b, x) /\ call[t].pc = "woken" /\ call[t].i = b /\ ~Conflict(b, x)
      /\ blocks' = [blocks EXCEPT ![b] = Counted(NotPending(blocks[b]), x)]
  BY <1>b DEF WakeGrant, At
<1>2. /\ call'[t].pc = "client" /\ \A u \in Thread : u # t => call'[u] = call[u]
  BY <1>0, <1>1, GrantUpdate
<1>3. \A c \in Block : c # b => blocks'[c] = blocks[c]
  BY <1>0, <1>1
<1>4. Busy(b)'
  <2>1. t \in Pending(b)
    BY <1>1 DEF Pending
  <2>2. blocks[b].pending_requests > 0
    BY <2>1, UsersCount
  <2>3. NotPending(blocks[b]) \in CacheBlock
    BY <1>0, <2>2 DEF CacheBlock, NotPending
  <2>4. PICK r \in CacheBlock : /\ r = Counted(NotPending(blocks[b]), x)
                                /\ ~(r.num_readers = 0 /\ r.num_writers = 0)
    BY <2>3, GrantedInUse
  <2>5. blocks'[b] = r /\ r.num_readers \in Nat /\ r.num_writers \in Nat
    BY <1>0, <1>1, <2>4 DEF CacheBlock
  <2> QED
    BY <2>4, <2>5 DEF Busy
<1>5. \A u \in Thread : ~Waits(u, b, FALSE)
  <2>1. ~(blocks[b].num_writers > 0)
    BY <1>1 DEF Conflict
  <2> QED
    BY <2>1, Zenon DEF Served
<1>6. \A u \in Thread, c \in Block, y \in BOOLEAN : Waits(u, c, y)' => Waits(u, c, y)
  BY <1>2 DEF Waits
<1>7. \A u \in Thread, c \in Block : c # b /\ Coming(u, c) => Coming(u, c)'
  BY <1>1, <1>2 DEF Coming, At
<1>8. \A c \in Block : c # b => /\ Busy(c) => Busy(c)'
                                /\ blocks'[c].num_writers = blocks[c].num_writers
  BY <1>3 DEF Busy
<1> QED
  BY <1>4, <1>5, <1>6, <1>7, <1>8, Zenon DEF Served

\* cache_put_block wakes every reader and one writer after a writer, and one
\* writer after the last reader.
LEMMA PutServed ==
  ASSUME IInv, Served, NEW t \in Thread, NEW b \in Block, Put(t, b)
  PROVE  Served'
<1>0. TypeOK /\ call \in [Thread -> Call] /\ blocks \in [Block -> CacheBlock]
  BY DEF IInv, TypeOK
<1>1. blocks' = [blocks EXCEPT ![b] = Released(blocks[b])]
  BY DEF Put
<1>2. \A c \in Block : c # b => blocks'[c] = blocks[c]
  BY <1>0, <1>1
<1>3. PICK ws \in Woken(b) :
        call' = [u \in Thread |-> IF u \in ws THEN [call[u] EXCEPT !.pc = "woken"] ELSE call[u]]
  BY DEF Put
<1>4. ws \subseteq Waiters(b, TRUE) \cup Waiters(b, FALSE)
  BY <1>3, Zenon DEF Woken, OneWriter
<1>5. \A u \in Thread : /\ call'[u].i = call[u].i /\ call'[u].exclusive = call[u].exclusive
                        /\ call'[u].pc = IF u \in ws THEN "woken" ELSE call[u].pc
  BY <1>0, <1>3 DEF Call
<1>6. \A u \in Thread, c \in Block, y \in BOOLEAN :
         Waits(u, c, y)' => Waits(u, c, y) /\ u \notin ws
  BY <1>5 DEF Waits
<1>7. \A u \in Thread, c \in Block : Coming(u, c) => Coming(u, c)'
  BY <1>5 DEF Coming, At
<1>8. \A c \in Block : c # b => /\ Busy(c) => Busy(c)'
                                /\ blocks'[c].num_writers = blocks[c].num_writers
  BY <1>2 DEF Busy
<1>9. blocks[b].num_readers \in Nat /\ blocks[b].num_writers \in Nat
  BY <1>0 DEF CacheBlock
<1>10. ASSUME NEW u \in Thread, Waits(u, b, TRUE)'
       PROVE  Busy(b)' \/ \E w \in Thread : Coming(w, b)'
  <2>1. CASE ws \in OneWriter(b) \/ \E vs \in OneWriter(b) : ws = Waiters(b, FALSE) \cup vs
    <3>1. Waiters(b, TRUE) # {}
      BY <1>6, <1>10, Zenon DEF Waits, Waiters
    <3>2. PICK w \in Waiters(b, TRUE) : w \in ws
      BY <2>1, <3>1, Zenon DEF OneWriter
    <3>3. w \in Thread /\ Coming(w, b)'
      BY <1>5, <3>2 DEF Waiters, Coming, At
    <3> QED
      BY <3>3
  <2>2. CASE ~(blocks[b].num_writers > 0) /\ blocks[b].num_readers # 1
    <3>1. hold[t][b].mode = "shared" \/ hold[t][b].mode = "exclusive"
      <4>1. hold[t][b] \in Grant /\ hold[t][b].mode # "none"
        BY <1>0, Zenon DEF TypeOK, Put, MayPut
      <4> QED
        BY <4>1 DEF Grant, Mode
    <3>2. blocks[b].num_readers > 0
      BY <2>2, <3>1, UsersCount
    <3>3. blocks'[b].num_readers = blocks[b].num_readers - 1
      BY <1>0, <1>1, <2>2 DEF Released, CacheBlock
    <3> QED
      BY <1>9, <2>2, <3>2, <3>3 DEF Busy
  <2> QED
    BY <1>3, <2>1, <2>2, Zenon DEF Woken
<1>11. ASSUME NEW u \in Thread, Waits(u, b, FALSE)'
       PROVE  FALSE
  <2>1. Waits(u, b, FALSE) /\ u \notin ws
    BY <1>6, <1>11, Zenon
  <2>2. blocks[b].num_writers > 0
    BY <2>1, Zenon DEF Served
  <2>3. PICK vs \in OneWriter(b) : ws = Waiters(b, FALSE) \cup vs
    BY <1>3, <2>2, Zenon DEF Woken
  <2> QED
    BY <2>1, <2>3 DEF Waits, Waiters
<1> QED
  BY <1>6, <1>7, <1>8, <1>10, <1>11, Zenon DEF Served

\* The accesses to a block's data and cache_flush leave the counters alone.
LEMMA DataServed ==
  ASSUME IInv, Served, NEW t \in Thread, NEW b \in Block,
         \/ Read(t, b) \/ ZeroBlock(t, b) \/ MarkDirty(t, b) \/ MarkDeleted(t, b)
         \/ PutPanic(t, b) \/ \E v \in Value : Modify(t, b, v)
  PROVE  Served'
<1>1. \A c \in Block : /\ Busy(c)' <=> Busy(c)
                       /\ blocks'[c].num_writers = blocks[c].num_writers
  BY DataCounters DEF Busy
<1>2. call' = call
  BY DataCounters
<1> QED
  BY <1>1, <1>2, Zenon DEF Served, Waits, Coming, At

\* cache_flush wakes nobody and leaves the counters alone.
LEMMA FlushServed ==
  ASSUME IInv, Served, NEW t \in Thread, FlushBlock(t)
  PROVE  Served'
<1>1. \A c \in Block : /\ Busy(c)' <=> Busy(c)
                       /\ blocks'[c].num_writers = blocks[c].num_writers
  BY FlushCounters DEF Busy
<1>2. ~InWait(call[t]) /\ ~InWait(call'[t])
  BY FlushCounters DEF InWait
<1> QED
  BY <1>1, <1>2, FlushCounters, QueuesKept

\* No step of the cache leaves a waiter unserved.
LEMMA NextServed == IInv /\ Served /\ [Next]_vars => Served'
<1> SUFFICES ASSUME IInv, Served, [Next]_vars
             PROVE  Served'
  OBVIOUS
<1>1. CASE UNCHANGED vars
  BY <1>1, Zenon DEF vars, Served, Waits, Coming, At, Busy
<1>2. ASSUME NEW t \in Thread, Step(t)
      PROVE  Served'
  <2>1. CASE \E s \in Sector, x \in BOOLEAN : Get(t, s, x)
    BY <2>1, MoveServed
  <2>2. CASE InGet(t)
    BY <2>2, MoveServed, SleepServed, WaitServed, GrantServed, WakeGrantServed DEF InGet
  <2>3. ASSUME NEW b \in Block, OnBlock(t, b)
        PROVE  Served'
    BY <2>3, DataServed, PutServed DEF OnBlock
  <2>4. CASE Flush(t) \/ FlushBlock(t)
    BY <2>4, MoveServed, FlushServed
  <2> QED
    BY <1>2, <2>1, <2>2, <2>3, <2>4 DEF Step
<1> QED
  BY <1>1, <1>2 DEF Next, Halted

\* While a writer waits the block is in use or a signalled writer is on its way,
\* and while a reader waits a writer has the block: whatever interleaving of
\* waits and signals, no thread in cond_wait of cache_get_block is forgotten.
THEOREM WaitersServed == Spec => []NoLostWakeup
<1>1. Init => Served
  BY DEF Init, Served, Waits
<1>2. IInv /\ Served => NoLostWakeup
  BY ServedIsNoLostWakeup DEF IInv
<1> QED
  BY <1>1, <1>2, NextServed, Invariance, PTL DEF Spec

-----------------------------------------------------------------------------
\* The cache as a store of sectors.

\* What a client sees of the sectors.
ContentsAre ==
  /\ Contents \in [Sector -> Value]
  /\ \A s \in Sector, b \in Block : Hit(b, s) => Contents[s] = blocks[b].data
  /\ \A s \in Sector : (\A b \in Block : ~Hit(b, s)) => Contents[s] = disk[s]
\* ... and who has access to them.
AccessAre ==
  /\ Access \in [Thread -> [Sector -> Mode]]
  /\ \A t \in Thread, b \in Block :
       hold[t][b].mode # "none" => Access[t][blocks[b].bs_id] = hold[t][b].mode
  /\ \A t \in Thread, s \in Sector :
       (\A b \in Block : hold[t][b].mode # "none" => blocks[b].bs_id # s) => Access[t][s] = "none"

\* With one copy of each sector Contents does not depend on CHOOSE.
LEMMA ContentsView == TypeOK /\ OneCopy => ContentsAre
<1> SUFFICES ASSUME TypeOK, OneCopy
             PROVE  ContentsAre
  OBVIOUS
<1>1. ASSUME NEW s \in Sector, NEW b \in Block, Hit(b, s)
      PROVE  Contents[s] = blocks[b].data
  <2>1. CachedIn(s) = {b}
    BY <1>1 DEF CachedIn, Hit, OneCopy
  <2>2. (CHOOSE c \in {b} : TRUE) = b
    OBVIOUS
  <2> QED
    BY <2>1, <2>2 DEF Contents
<1>2. ASSUME NEW s \in Sector, \A b \in Block : ~Hit(b, s)
      PROVE  Contents[s] = disk[s]
  <2>1. CachedIn(s) = {}
    BY <1>2 DEF CachedIn
  <2> QED
    BY <2>1 DEF Contents
<1>3. \A s \in Sector : Contents[s] \in Value
  BY <1>1, <1>2 DEF TypeOK, CacheBlock
<1>4. Contents \in [Sector -> Value]
  <2>1. Contents = [s \in Sector |-> Contents[s]]
    BY DEF Contents
  <2> QED
    BY <1>3, <2>1
<1> QED
  BY <1>1, <1>2, <1>4 DEF ContentsAre

\* With one block of each sector in use, Access does not either.
LEMMA AccessView == TypeOK /\ SameBlock => AccessAre
<1> SUFFICES ASSUME TypeOK, SameBlock
             PROVE  AccessAre
  OBVIOUS
<1> DEFINE Of(t, s) == {b \in Held(t) : blocks[b].bs_id = s}
           In(t, s) == IF Of(t, s) = {} THEN "none"
                       ELSE hold[t][CHOOSE b \in Of(t, s) : TRUE].mode
<1>0. Access = [t \in Thread |-> [s \in Sector |-> In(t, s)]]
  BY DEF Access
<1>a. \A t \in Thread, s \in Sector : Access[t][s] = In(t, s)
  <2> HIDE DEF In
  <2> QED
    BY <1>0
<1>1. ASSUME NEW t \in Thread, NEW b \in Block, hold[t][b].mode # "none"
      PROVE  Access[t][blocks[b].bs_id] = hold[t][b].mode
  <2>1. Of(t, blocks[b].bs_id) = {b} /\ blocks[b].bs_id \in Sector
    BY <1>1 DEF Held, SameBlock, TypeOK, CacheBlock
  <2>2. (CHOOSE c \in {b} : TRUE) = b
    OBVIOUS
  <2> HIDE DEF Of
  <2> QED
    BY <1>a, <2>1, <2>2
<1>2. ASSUME NEW t \in Thread, NEW s \in Sector,
             \A b \in Block : hold[t][b].mode # "none" => blocks[b].bs_id # s
      PROVE  Access[t][s] = "none"
  <2>1. Of(t, s) = {}
    BY <1>2 DEF Held
  <2> HIDE DEF Of
  <2> QED
    BY <1>a, <2>1
<1>3. \A t \in Thread, s \in Sector : Access[t][s] \in Mode
  <2>1. \A t \in Thread, b \in Block : hold[t][b].mode \in Mode
    BY DEF TypeOK, Grant
  <2>2. "none" \in Mode
    BY DEF Mode
  <2>3. SUFFICES ASSUME NEW t \in Thread, NEW s \in Sector
                 PROVE  Access[t][s] \in Mode
    OBVIOUS
  <2>4. CASE \A b \in Block : hold[t][b].mode # "none" => blocks[b].bs_id # s
    BY <1>2, <2>2, <2>4
  <2>5. ASSUME NEW b \in Block, hold[t][b].mode # "none", blocks[b].bs_id = s
        PROVE  Access[t][s] \in Mode
    BY <1>1, <2>1, <2>5
  <2> QED
    BY <2>4, <2>5
<1>4. Access \in [Thread -> [Sector -> Mode]]
  <2> HIDE DEF In
  <2> QED
    BY <1>0, <1>a, <1>3
<1> QED
  BY <1>1, <1>2, <1>4 DEF AccessAre

\* What a client sees in a state.
LEMMA View == TypeOK /\ DataInv => ContentsAre /\ AccessAre
  BY ContentsView, AccessView DEF DataInv
\* The same after a step.
LEMMA ViewNext == TypeOK' /\ DataInv' => ContentsAre' /\ AccessAre'
  BY View, PTL

\* The contents of a sector change only with its block or on the disk.
LEMMA ContentsAt ==
  ASSUME ContentsAre, ContentsAre', NEW s \in Sector,
         \A c \in Block : Hit(c, s)' <=> Hit(c, s),
         \A c \in Block : Hit(c, s) => blocks'[c].data = blocks[c].data,
         (\A c \in Block : ~Hit(c, s)) => disk'[s] = disk[s]
  PROVE  Contents'[s] = Contents[s]
<1>1. CASE \A c \in Block : ~Hit(c, s)
  BY <1>1 DEF ContentsAre
<1>2. ASSUME NEW c \in Block, Hit(c, s)
      PROVE  Contents'[s] = Contents[s]
  <2>1. Contents[s] = blocks[c].data
    BY <1>2 DEF ContentsAre
  <2>2. Hit(c, s)'
    BY <1>2
  <2>3. Contents'[s] = blocks'[c].data
    BY <2>2 DEF ContentsAre
  <2> QED
    BY <1>2, <2>1, <2>3
<1> QED
  BY <1>1, <1>2

\* A thread's access to a sector changes only with its access to the block.
LEMMA AccessAt ==
  ASSUME AccessAre, AccessAre', NEW t \in Thread, NEW s \in Sector,
         \A c \in Block : hold'[t][c].mode # "none" /\ blocks'[c].bs_id = s <=>
                          hold[t][c].mode # "none" /\ blocks[c].bs_id = s,
         \A c \in Block : hold[t][c].mode # "none" /\ blocks[c].bs_id = s =>
                          hold'[t][c].mode = hold[t][c].mode
  PROVE  Access'[t][s] = Access[t][s]
<1>1. CASE \A c \in Block : hold[t][c].mode # "none" => blocks[c].bs_id # s
  <2>1. Access[t][s] = "none"
    BY <1>1 DEF AccessAre
  <2>2. \A c \in Block : hold'[t][c].mode # "none" => blocks'[c].bs_id # s
    BY <1>1
  <2>3. Access'[t][s] = "none"
    BY <2>2 DEF AccessAre
  <2> QED
    BY <2>1, <2>3
<1>2. ASSUME NEW c \in Block, hold[t][c].mode # "none", blocks[c].bs_id = s
      PROVE  Access'[t][s] = Access[t][s]
  <2>1. Access[t][s] = hold[t][c].mode
    BY <1>2 DEF AccessAre
  <2>2. hold'[t][c].mode # "none" /\ blocks'[c].bs_id = s
    BY <1>2
  <2>3. Access'[t][s] = hold'[t][c].mode
    BY <2>2 DEF AccessAre
  <2> QED
    BY <1>2, <2>1, <2>3
<1> QED
  BY <1>1, <1>2

\* Functions that agree everywhere.
LEMMA SameStore ==
  ASSUME NEW S, NEW V, NEW f \in [S -> V], NEW g \in [S -> V], \A s \in S : g[s] = f[s]
  PROVE  g = f
  OBVIOUS

\* ... and of two that agree everywhere but at one point.
LEMMA SameAccess ==
  ASSUME NEW T, NEW S, NEW V, NEW f \in [T -> [S -> V]], NEW g \in [T -> [S -> V]],
         NEW t \in T, NEW s \in S, NEW v \in V, g[t][s] = v,
         \A u \in T, r \in S : u # t \/ r # s => g[u][r] = f[u][r]
  PROVE  g = [f EXCEPT ![t][s] = v]
<1>1. g[t] = [f[t] EXCEPT ![s] = v]
  <2>1. g[t] \in [S -> V] /\ f[t] \in [S -> V]
    OBVIOUS
  <2> QED
    BY <2>1
<1>2. \A u \in T : u # t => g[u] = f[u]
  <2>1. \A u \in T : g[u] \in [S -> V] /\ f[u] \in [S -> V]
    OBVIOUS
  <2> QED
    BY <2>1, SameStore
<1> QED
  BY <1>1, <1>2

\* Steps no client sees.
LEMMA UnseenStep ==
  ASSUME TypeOK, TypeOK', DataInv, DataInv', freed' = freed, disk' = disk,
         \A c \in Block : Kept(c), \A u \in Thread, c \in Block : hold'[u][c].mode = hold[u][c].mode
  PROVE  Store!StoreNext
<1>1. ContentsAre /\ AccessAre /\ ContentsAre' /\ AccessAre'
  BY View, ViewNext
<1>2. Contents' = Contents
  <2>1. \A s \in Sector : Contents'[s] = Contents[s]
    BY <1>1, ContentsAt DEF Hit, Kept
  <2> QED
    BY <1>1, <2>1, SameStore DEF ContentsAre
<1>3. Access' = Access
  <2>1. \A t \in Thread, s \in Sector : Access'[t][s] = Access[t][s]
    BY <1>1, AccessAt DEF Kept
  <2>2. Access \in [Thread -> [Sector -> Mode]] /\ Access' \in [Thread -> [Sector -> Mode]]
    BY <1>1 DEF AccessAre
  <2> QED
    BY <2>1, <2>2
<1>4. Contents' \in [Sector -> Value]
  BY <1>1 DEF ContentsAre
<1> QED
  BY <1>2, <1>3, <1>4 DEF Store!StoreNext, Store!Keeps

\* What cache_flush writes it does not change.
LEMMA FlushSeen ==
  ASSUME TypeOK, TypeOK', DataInv, DataInv', NEW t \in Thread, FlushBlock(t)
  PROVE  Store!StoreNext
<1>b. PICK b \in Block : b = call[t].i
  BY DEF TypeOK, Call
<1>0. blocks[b] \in CacheBlock /\ blocks \in [Block -> CacheBlock]
  BY DEF TypeOK
<1>1. ContentsAre /\ AccessAre /\ ContentsAre' /\ AccessAre'
  BY View, ViewNext
<1>2. /\ disk' = WrittenDisk(b) /\ hold' = hold /\ freed' = freed
      /\ blocks' = IF NeedsWrite(b) THEN [blocks EXCEPT ![b].dirty = FALSE] ELSE blocks
  BY <1>b DEF FlushBlock
<1>3. \A c \in Block : /\ blocks'[c].bs_id = blocks[c].bs_id /\ blocks'[c].data = blocks[c].data
                       /\ (blocks'[c].valid <=> blocks[c].valid)
  BY <1>0, <1>2 DEF CacheBlock
<1>4. Contents' = Contents
  <2>1. ASSUME NEW s \in Sector
        PROVE  Contents'[s] = Contents[s]
    <3>1. (\A c \in Block : ~Hit(c, s)) => disk'[s] = disk[s]
      BY <1>2, WritebackDisk DEF Hit
    <3> QED
      BY <1>1, <1>3, <3>1, ContentsAt DEF Hit
  <2> QED
    BY <1>1, <2>1, SameStore DEF ContentsAre
<1>5. Access' = Access
  <2>1. \A u \in Thread, s \in Sector : Access'[u][s] = Access[u][s]
    BY <1>1, <1>2, <1>3, AccessAt
  <2>2. Access \in [Thread -> [Sector -> Mode]] /\ Access' \in [Thread -> [Sector -> Mode]]
    BY <1>1, Zenon DEF AccessAre
  <2> QED
    BY <2>1, <2>2
<1>6. Contents' \in [Sector -> Value]
  BY <1>1 DEF ContentsAre
<1> QED
  BY <1>2, <1>4, <1>5, <1>6 DEF Store!StoreNext, Store!Keeps

\* What a grant changes for the clients: the caller has the sector now, in a
\* mode that goes with those of the others.
LEMMA AcquireSeen ==
  ASSUME TypeOK, TypeOK', DataInv, DataInv', Exclusion', NEW t \in Thread, NEW b \in Block,
         NEW s \in Sector, hold'[t][b].mode # "none", blocks'[b].bs_id = s,
         hold[t][b].mode = "none",
         \A u \in Thread, c \in Block : u # t \/ c # b => hold'[u][c] = hold[u][c],
         \A u \in Thread, c \in Block :
           hold[u][c].mode # "none" => blocks'[c].bs_id = blocks[c].bs_id,
         \A c \in Block : hold[t][c].mode # "none" => blocks[c].bs_id # s,
         freed' = freed,
         \A r \in Sector \ freed : Contents'[r] = Contents[r]
  PROVE  Store!StoreNext
<1>1. ContentsAre /\ AccessAre /\ ContentsAre' /\ AccessAre'
  BY View, ViewNext
<1>m. PICK m \in Mode : m = hold'[t][b].mode
  BY Zenon DEF TypeOK, Grant
<1>2. m \in {"shared", "exclusive"}
  BY <1>m, Zenon DEF Mode
<1>3. Access[t][s] = "none"
  BY <1>1, Zenon DEF AccessAre
<1>4. Access'[t][s] = m
  BY <1>1, <1>m, Zenon DEF AccessAre
<1>5. \A u \in Thread, r \in Sector : u # t \/ r # s => Access'[u][r] = Access[u][r]
  <2>1. SUFFICES ASSUME NEW u \in Thread, NEW r \in Sector, u # t \/ r # s
                 PROVE  Access'[u][r] = Access[u][r]
    OBVIOUS
  <2>2. \A c \in Block : hold'[u][c].mode # "none" /\ blocks'[c].bs_id = r <=>
                         hold[u][c].mode # "none" /\ blocks[c].bs_id = r
    BY <2>1
  <2>3. \A c \in Block : hold[u][c].mode # "none" /\ blocks[c].bs_id = r =>
                         hold'[u][c].mode = hold[u][c].mode
    OBVIOUS
  <2> QED
    BY <1>1, <2>2, <2>3, AccessAt, Zenon
<1>6. Access' = [Access EXCEPT ![t][s] = m]
  BY <1>1, <1>4, <1>5, SameAccess DEF AccessAre
<1>7. \A u \in Thread \ {t} :
        IF m = "exclusive" THEN Access[u][s] = "none" ELSE Access[u][s] # "exclusive"
  <2>1. SUFFICES ASSUME NEW u \in Thread, u # t
                 PROVE  IF m = "exclusive" THEN Access'[u][s] = "none"
                        ELSE Access'[u][s] # "exclusive"
    BY <1>5
  <2>2. CASE hold'[u][b].mode = "none"
    <3>1. \A c \in Block : hold'[u][c].mode # "none" => blocks'[c].bs_id # s
      BY <2>2 DEF DataInv, SameBlock
    <3>2. Access'[u][s] = "none"
      BY <1>1, <3>1, Zenon DEF AccessAre
    <3> QED
      BY <3>2
  <2>3. CASE hold'[u][b].mode # "none"
    <3>1. Access'[u][s] = hold'[u][b].mode
      BY <1>1, <2>3, Zenon DEF AccessAre
    <3>2. m # "exclusive" /\ hold'[u][b].mode # "exclusive"
      BY <1>m, <2>1, <2>3 DEF Exclusion
    <3> QED
      BY <3>1, <3>2
  <2> QED
    BY <2>2, <2>3
<1>8. Contents' \in [Sector -> Value]
  BY <1>1 DEF ContentsAre
<1>9. Store!Acquire(t, s, m) /\ Store!Keeps
  BY <1>3, <1>6, <1>7, <1>8 DEF Store!Acquire, Store!Compatible, Store!Keeps
<1> QED
  BY <1>2, <1>9, Zenon DEF Store!StoreNext

\* The grants of loaded blocks.
LEMMA GrantSeen ==
  ASSUME IInv, SInv, TypeOK', DataInv', Exclusion', NEW t \in Thread,
         Token(t) \/ ProbeShare(t) \/ WakeGrant(t)
  PROVE  Store!StoreNext
<1>0. TypeOK /\ DataInv
  BY DEF IInv, SInv
<1>b. PICK b \in Block, s \in Sector, x \in BOOLEAN :
        b = call[t].i /\ s = call[t].sector /\ x = call[t].exclusive
  BY <1>0 DEF TypeOK, Call
<1>1. /\ \A c \in Block : Kept(c)
      /\ GrantTo(t, b, x) /\ disk' = disk /\ freed' = freed
      /\ blocks[b].valid /\ blocks[b].bs_id = s
      /\ \A c \in Block : hold[t][c].mode # "none" => blocks[c].bs_id # s
  <2> DEFINE granted == Token(t) \/ ProbeShare(t) \/ WakeGrant(t)
  <2>1. granted
    OBVIOUS
  <2> HIDE DEF granted
  <2>2. granted => Token(t) \/ ProbeShare(t) \/ WakeGrant(t)
    BY DEF granted
  <2> QED
    BY <1>b, GrantView, <2>1, <2>2
<1>2. /\ hold'[t][b].mode # "none"
      /\ \A u \in Thread, c \in Block : u # t \/ c # b => hold'[u][c] = hold[u][c]
  <2>1. /\ hold'[t][b].mode = (IF x THEN "exclusive" ELSE "shared")
        /\ \A u \in Thread, c \in Block : u # t \/ c # b => hold'[u][c] = hold[u][c]
    BY <1>0, <1>1, GrantUpdate
  <2> QED
    BY <2>1, Zenon
<1>3. ContentsAre /\ ContentsAre'
  BY <1>0, View, ViewNext
<1>4. \A r \in Sector : Contents'[r] = Contents[r]
  BY <1>1, <1>3, ContentsAt DEF Hit, Kept
<1>5. hold[t][b].mode = "none" /\ \A c \in Block : blocks'[c].bs_id = blocks[c].bs_id
  BY <1>1 DEF Kept
<1> QED
  BY <1>0, <1>1, <1>2, <1>4, <1>5, AcquireSeen

\* An eviction: what the victim had is on the disk, unless it was deleted.
LEMMA EvictSeen ==
  ASSUME IInv, SInv, TypeOK', DataInv', Exclusion', NEW t \in Thread, Evict(t)
  PROVE  Store!StoreNext
<1>0. TypeOK /\ DataInv
  BY DEF IInv, SInv
<1>b. PICK b \in Block, s \in Sector : b = call[t].i /\ s = call[t].sector
  BY <1>0 DEF TypeOK, Call
<1>1. /\ \A c \in Block : ~Hit(c, s)
      /\ \A u \in Thread : hold[u][b].mode = "none"
  BY <1>b, EvictView
<1>2. /\ blocks'[b].bs_id = s /\ ~blocks'[b].valid
      /\ \A c \in Block : c # b => blocks'[c] = blocks[c]
  BY <1>b, EvictView
<1>3. /\ hold'[t][b].mode # "none"
      /\ \A u \in Thread, c \in Block : u # t \/ c # b => hold'[u][c] = hold[u][c]
  BY <1>b, EvictView
<1>4. /\ \A c \in Block : hold[t][c].mode # "none" => blocks[c].bs_id # s
      /\ disk' = WrittenDisk(b) /\ freed' = freed
  BY <1>b, EvictView
<1>5. ContentsAre /\ ContentsAre'
  BY <1>0, View, ViewNext
<1>6. ASSUME NEW r \in Sector \ freed
      PROVE  Contents'[r] = Contents[r]
  <2>1. CASE Hit(b, r)
    <3>0. blocks[b].valid /\ blocks[b].bs_id = r /\ r # s
      BY <1>1, <2>1 DEF Hit
    <3>1. \A c \in Block : ~Hit(c, r)'
      <4>1. \A c \in Block : c # b => ~(blocks[c].valid /\ blocks[c].bs_id = r)
        BY <1>0, <3>0 DEF DataInv, OneCopy
      <4> QED
        BY <1>2, <4>1 DEF Hit
    <3>2. Contents'[r] = disk'[r] /\ Contents[r] = blocks[b].data
      BY <1>5, <2>1, <3>1 DEF ContentsAre
    <3>3. ~blocks[b].deleted
      BY <1>0, <3>0 DEF DataInv, Deleted
    <3>4. CASE NeedsWrite(b)
      BY <1>0, <1>4, <3>0, <3>2, <3>4, WritebackDisk, Zenon
    <3>5. CASE ~NeedsWrite(b)
      <4>1. ~blocks[b].dirty /\ disk' = disk
        BY <1>0, <1>4, <3>0, <3>3, <3>5, WritebackDisk DEF NeedsWrite
      <4>2. blocks[b].data = disk[r]
        BY <1>0, <1>1, <3>0, <4>1, Zenon DEF DataInv, Clean
      <4> QED
        BY <3>2, <4>1, <4>2
    <3> QED
      BY <3>4, <3>5
  <2>2. CASE ~Hit(b, r)
    <3>1. \A c \in Block : Hit(c, r)' <=> Hit(c, r)
      BY <1>2, <2>2 DEF Hit
    <3>2. \A c \in Block : Hit(c, r) => blocks'[c].data = blocks[c].data
      BY <1>2, <2>2
    <3>3. disk'[r] = disk[r]
      BY <1>0, <1>4, <2>2, WritebackDisk DEF Hit
    <3> QED
      BY <1>5, <3>1, <3>2, <3>3, ContentsAt, Zenon
  <2> QED
    BY <2>1, <2>2
<1>7. \A u \in Thread, c \in Block : hold[u][c].mode # "none" => blocks'[c].bs_id = blocks[c].bs_id
  BY <1>1, <1>2, Zenon
<1> QED
  <2>1. hold[t][b].mode = "none" /\ blocks'[b].bs_id = s
    BY <1>1, <1>2
  <2> QED
    BY <1>0, <1>3, <1>4, <1>6, <1>7, <2>1, AcquireSeen, Zenon

\* cache_put_block.
LEMMA ReleaseSeen ==
  ASSUME IInv, SInv, TypeOK', DataInv', NEW t \in Thread, NEW b \in Block, Put(t, b)
  PROVE  Store!StoreNext
<1>0. TypeOK /\ DataInv
  BY DEF IInv, SInv
<1>1. /\ blocks' = [blocks EXCEPT ![b] = Released(@)] /\ hold' = [hold EXCEPT ![t][b] = NoGrant]
      /\ hold[t][b].mode # "none" /\ disk' = disk /\ freed' = freed
  BY DEF Put, MayPut
<1>2. \A c \in Block : Kept(c)
  BY <1>0, <1>1, CountersKeep, Zenon
<1>3. NoGrant \in Grant /\ NoGrant.mode = "none"
  BY DEF NoGrant, Grant, Mode, Phase
<1>4. \A u \in Thread, c \in Block : hold'[u][c] = IF u = t /\ c = b THEN NoGrant ELSE hold[u][c]
  BY <1>0, <1>1, <1>3, HoldUpdate, Zenon
<1>5. hold'[t][b].mode = "none" /\ \A u \in Thread, c \in Block : u # t \/ c # b => hold'[u][c] = hold[u][c]
  BY <1>3, <1>4
<1>6. ContentsAre /\ AccessAre /\ ContentsAre' /\ AccessAre'
  BY <1>0, View, ViewNext
<1>7. \A r \in Sector : Contents'[r] = Contents[r]
  BY <1>1, <1>2, <1>6, ContentsAt DEF Hit, Kept
<1>s. PICK s \in Sector : s = blocks[b].bs_id
  BY <1>0 DEF TypeOK, CacheBlock
<1>8. Access[t][s] # "none"
  BY <1>1, <1>6, <1>s DEF AccessAre
<1>9. Access'[t][s] = "none"
  <2>1. \A c \in Block : hold'[t][c].mode # "none" => blocks'[c].bs_id # s
    BY <1>0, <1>1, <1>2, <1>5, <1>s DEF DataInv, SameBlock, Kept
  <2> QED
    BY <1>6, <2>1, Zenon DEF AccessAre
<1>10. \A u \in Thread, r \in Sector : u # t \/ r # s => Access'[u][r] = Access[u][r]
  <2>1. SUFFICES ASSUME NEW u \in Thread, NEW r \in Sector, u # t \/ r # s
                 PROVE  Access'[u][r] = Access[u][r]
    OBVIOUS
  <2>2. \A c \in Block : blocks'[c].bs_id = blocks[c].bs_id
    BY <1>2 DEF Kept
  <2>3. \A c \in Block : hold'[u][c].mode # "none" /\ blocks'[c].bs_id = r <=>
                         hold[u][c].mode # "none" /\ blocks[c].bs_id = r
    BY <1>s, <1>5, <2>1, <2>2
  <2>4. \A c \in Block : hold[u][c].mode # "none" /\ blocks[c].bs_id = r =>
                         hold'[u][c].mode = hold[u][c].mode
    BY <1>s, <1>5, <2>1
  <2> QED
    BY <1>6, <2>3, <2>4, AccessAt, Zenon
<1>11. Access' = [Access EXCEPT ![t][s] = "none"]
  <2>1. /\ Access \in [Thread -> [Sector -> Mode]] /\ Access' \in [Thread -> [Sector -> Mode]]
        /\ "none" \in Mode
    BY <1>6, Zenon DEF AccessAre, Mode
  <2> QED
    BY <1>9, <1>10, <2>1, SameAccess
<1>12. Contents' \in [Sector -> Value]
  BY <1>6 DEF ContentsAre
<1>13. Store!Release(t, s) /\ Store!Keeps
  BY <1>1, <1>7, <1>8, <1>11, <1>12 DEF Store!Release, Store!Keeps
<1> QED
  BY <1>13 DEF Store!StoreNext

\* The operations of a client on its block: the contents of its sector become
\* those it leaves in the block, nothing else changes.
LEMMA UseSeen ==
  ASSUME IInv, SInv, TypeOK', DataInv', NEW t \in Thread, NEW b \in Block, NEW r, NEW p,
         Using(t, b, r, p)
  PROVE  /\ Access' = Access /\ Access[t][r.bs_id] = hold[t][b].mode /\ r.bs_id \in Sector
         /\ Contents' = [Contents EXCEPT ![r.bs_id] = r.data]
         /\ Contents \in [Sector -> Value] /\ r.data \in Value
<1>0. TypeOK /\ DataInv
  BY DEF IInv, SInv
<1>1. /\ r \in CacheBlock /\ p \in Phase /\ hold[t][b].mode # "none"
      /\ blocks' = [blocks EXCEPT ![b] = r] /\ Reaches(t, b, p)
      /\ r.bs_id = blocks[b].bs_id /\ r.valid /\ disk' = disk
  BY Zenon DEF Using
<1>2. blocks'[b] = r /\ \A c \in Block : c # b => blocks'[c] = blocks[c]
  BY <1>0, <1>1 DEF TypeOK
<1>3. \A u \in Thread, c \in Block : hold'[u][c].mode = hold[u][c].mode
  <2>0. hold[t][b] \in Grant
    BY <1>0 DEF TypeOK
  <2>1. PICK g \in Grant : g = [mode |-> hold[t][b].mode, phase |-> p]
    BY <1>1, <2>0, Zenon DEF Grant
  <2>2. g.mode = hold[t][b].mode /\ hold' = [hold EXCEPT ![t][b] = g]
    BY <1>1, <2>1 DEF Reaches
  <2>3. hold'[t][b] = g /\ \A u \in Thread, c \in Block : u # t \/ c # b => hold'[u][c] = hold[u][c]
    BY <1>0, <2>2, HoldUpdate, Zenon
  <2> QED
    BY <2>2, <2>3, Zenon
<1>4. ContentsAre /\ AccessAre /\ ContentsAre' /\ AccessAre'
  BY <1>0, View, ViewNext
<1>5. Access' = Access
  <2>1. \A c \in Block : blocks'[c].bs_id = blocks[c].bs_id
    BY <1>1, <1>2
  <2>2. \A u \in Thread, s \in Sector : Access'[u][s] = Access[u][s]
    BY <1>3, <1>4, <2>1, AccessAt, Zenon
  <2>3. Access \in [Thread -> [Sector -> Mode]] /\ Access' \in [Thread -> [Sector -> Mode]]
    BY <1>4 DEF AccessAre
  <2> QED
    BY <2>2, <2>3
<1>s. PICK s \in Sector : s = r.bs_id
  BY <1>1 DEF CacheBlock
<1>6. Contents'[s] = r.data
  <2>1. Hit(b, s)'
    BY <1>1, <1>2, <1>s DEF Hit
  <2> QED
    BY <1>2, <1>4, <2>1, Zenon DEF ContentsAre
<1>7. \A q \in Sector : q # s => Contents'[q] = Contents[q]
  <2>1. SUFFICES ASSUME NEW q \in Sector, q # s
                 PROVE  Contents'[q] = Contents[q]
    OBVIOUS
  <2>2. \A c \in Block : (Hit(c, q)' <=> Hit(c, q)) /\ (Hit(c, q) => blocks'[c].data = blocks[c].data)
    BY <1>1, <1>2, <1>s, <2>1, Zenon DEF Hit
  <2> QED
    BY <1>1, <1>4, <2>2, ContentsAt, Zenon
<1>8. Contents \in [Sector -> Value] /\ Contents' \in [Sector -> Value] /\ r.data \in Value
  BY <1>1, <1>4 DEF ContentsAre, CacheBlock
<1>9. Contents' = [Contents EXCEPT ![s] = r.data]
  BY <1>6, <1>7, <1>8
<1> QED
  <2>1. \A u \in Thread, c \in Block :
          hold[u][c].mode # "none" => Access[u][blocks[c].bs_id] = hold[u][c].mode
    BY <1>4, Zenon DEF AccessAre
  <2>2. Access[t][s] = hold[t][b].mode
    BY <1>1, <1>s, <2>1, Zenon
  <2> QED
    BY <1>5, <1>8, <1>9, <1>s, <2>2, Zenon

\* cache_read_block and cache_mark_block_dirty leave the contents as they are;
\* cache_zero_block and the writes are Write, cache_mark_deleted is Free.
LEMMA ClientSeen ==
  ASSUME IInv, SInv, TypeOK', DataInv', NEW t \in Thread, NEW b \in Block,
         \/ Read(t, b) \/ ZeroBlock(t, b) \/ MarkDirty(t, b) \/ MarkDeleted(t, b)
         \/ \E v \in Value : Modify(t, b, v)
  PROVE  Store!StoreNext
<1>0. TypeOK /\ DataInv
  BY DEF IInv, SInv
<1>1. ContentsAre
  BY <1>0, View
<1>2. ASSUME NEW r, NEW p, Using(t, b, r, p)
      PROVE  /\ Contents[r.bs_id] = IF blocks[b].valid THEN blocks[b].data ELSE disk[r.bs_id]
             /\ r.bs_id \in Sector /\ r.data \in Value /\ hold[t][b].mode # "none"
  <2>1. r.bs_id = blocks[b].bs_id /\ hold[t][b].mode # "none" /\ r \in CacheBlock
    BY <1>2, Zenon DEF Using
  <2>2. r.bs_id \in Sector /\ r.data \in Value
    BY <2>1, Zenon DEF CacheBlock
  <2>3. CASE blocks[b].valid
    <3>1. Hit(b, r.bs_id)
      BY <2>1, <2>3 DEF Hit
    <3> QED
      BY <1>1, <2>1, <2>2, <2>3, <3>1, Zenon DEF ContentsAre
  <2>4. CASE ~blocks[b].valid
    <3>1. \A c \in Block : ~Hit(c, r.bs_id)
      BY <1>0, <2>1, <2>4, Zenon DEF Hit, DataInv, HeldIsLoaded
    <3> QED
      BY <1>1, <2>1, <2>2, <2>4, <3>1, Zenon DEF ContentsAre
  <2> QED
    BY <2>3, <2>4, Zenon
<1>3. ASSUME NEW r, NEW p, Using(t, b, r, p), freed' = freed, Contents[r.bs_id] = r.data
      PROVE  Store!StoreNext
  <2>1. Contents' = Contents /\ Access' = Access /\ Contents \in [Sector -> Value]
    BY <1>3, UseSeen
  <2> QED
    BY <1>3, <2>1 DEF Store!StoreNext, Store!Keeps
<1>4. ASSUME NEW r, NEW p, Using(t, b, r, p), freed' \in {freed, freed \ {r.bs_id}}
      PROVE  Store!StoreNext
  <2>1. /\ Access' = Access /\ Access[t][r.bs_id] # "none"
        /\ Contents' = [Contents EXCEPT ![r.bs_id] = r.data]
        /\ r.bs_id \in Sector /\ r.data \in Value
    <3>1. /\ Access' = Access /\ Access[t][r.bs_id] = hold[t][b].mode
          /\ Contents' = [Contents EXCEPT ![r.bs_id] = r.data]
          /\ r.bs_id \in Sector /\ r.data \in Value
      BY <1>4, UseSeen
    <3>2. hold[t][b].mode # "none"
      BY <1>4, Zenon DEF Using
    <3> QED
      BY <3>1, <3>2, Zenon
  <2>2. Store!Write(t, r.bs_id, r.data)
    BY <1>4, <2>1, Zenon DEF Store!Write
  <2> QED
    BY <2>1, <2>2, Zenon DEF Store!StoreNext
<1>5. CASE Read(t, b)
  <2>1. PICK r : /\ Using(t, b, r, "ready") /\ freed' = freed
                 /\ r.data = IF blocks[b].valid THEN blocks[b].data ELSE disk[r.bs_id]
    BY <1>5, UseView, Zenon
  <2> QED
    BY <1>2, <1>3, <2>1, Zenon
<1>6. CASE ZeroBlock(t, b)
  <2>1. PICK r : Using(t, b, r, "ready") /\ freed' = freed \ {r.bs_id}
    BY <1>6, UseView, Zenon
  <2> QED
    BY <1>4, <2>1
<1>7. ASSUME NEW v \in Value, Modify(t, b, v)
      PROVE  Store!StoreNext
  <2>1. PICK r : Using(t, b, r, "wrote") /\ freed' = freed
    BY <1>7, UseView, Zenon
  <2> QED
    BY <1>4, <2>1
<1>8. CASE MarkDirty(t, b)
  <2>1. PICK r : /\ Using(t, b, r, "ready") /\ freed' = freed
                 /\ r.data = blocks[b].data /\ blocks[b].valid
    BY <1>8, UseView, Zenon
  <2> QED
    BY <1>2, <1>3, <2>1, Zenon
<1>9. CASE MarkDeleted(t, b)
  <2>1. PICK r : /\ Using(t, b, r, "deleted") /\ freed' = freed \cup {r.bs_id}
                 /\ hold[t][b].mode = "exclusive" /\ r.data = blocks[b].data /\ blocks[b].valid
    BY <1>9, UseView, Zenon
  <2>2. /\ Access' = Access /\ Access[t][r.bs_id] = "exclusive" /\ r.bs_id \in Sector
        /\ Contents' = [Contents EXCEPT ![r.bs_id] = r.data] /\ Contents \in [Sector -> Value]
    BY <2>1, UseSeen, Zenon
  <2>3. Contents' = Contents
    BY <1>2, <2>1, <2>2, Zenon
  <2>4. Store!Free(t, r.bs_id)
    BY <2>1, <2>2, <2>3, Zenon DEF Store!Free
  <2> QED
    BY <2>2, <2>4, Zenon DEF Store!StoreNext
<1> QED
  BY <1>5, <1>6, <1>7, <1>8, <1>9

\* Every step of the cache is a step of the store, or one that nobody sees.
LEMMA StepSeen ==
  ASSUME IInv, SInv, IInv', SInv', [Next]_vars
  PROVE  [Store!StoreNext]_(Store!storeVars)
<1>0. TypeOK /\ DataInv /\ TypeOK' /\ DataInv'
  BY DEF IInv, SInv
<1>1. Exclusion'
  BY SoleWriter, PTL
<1>2. ASSUME blocks' = blocks, hold' = hold, disk' = disk, freed' = freed
      PROVE  Store!StoreNext
  BY <1>0, <1>2, UnseenStep DEF Kept
<1>3. CASE UNCHANGED vars
  BY <1>2, <1>3 DEF vars
<1>4. ASSUME NEW t \in Thread, Step(t)
      PROVE  Store!StoreNext
  <2>0. ASSUME \/ \E s \in Sector, x \in BOOLEAN : Get(t, s, x)
               \/ ProbeMiss(t) \/ ProbeUnused(t) \/ ProbeWait(t) \/ Sleep(t) \/ WakeWait(t)
               \/ EvictDown(t) \/ ScanBusy(t) \/ ScanStore(t) \/ ScanNext(t) \/ Flush(t)
        PROVE  Store!StoreNext
    <3>1. (\A c \in Block : Kept(c)) /\ hold' = hold /\ disk' = disk /\ freed' = freed
      BY <2>0, MoveSInv
    <3> QED
      BY <1>0, <3>1, UnseenStep
  <2>1. ASSUME NEW s \in Sector, NEW x \in BOOLEAN, Get(t, s, x)
        PROVE  Store!StoreNext
    BY <2>0, <2>1
  <2>2. CASE InGet(t)
    BY <1>0, <1>1, <2>0, <2>2, GrantSeen, EvictSeen DEF InGet
  <2>3. ASSUME NEW b \in Block, OnBlock(t, b)
        PROVE  Store!StoreNext
    <3>1. CASE PutPanic(t, b)
      BY <1>2, <3>1 DEF PutPanic
    <3> QED
      BY <1>0, <2>3, <3>1, ReleaseSeen, ClientSeen DEF OnBlock
  <2>4. CASE Flush(t) \/ FlushBlock(t)
    BY <1>0, <2>0, <2>4, FlushSeen
  <2> QED
    BY <1>4, <2>1, <2>2, <2>3, <2>4 DEF Step
<1> QED
  BY <1>3, <1>4 DEF Next, Halted

\* The empty cache shows the contents of the disk.
LEMMA InitSeen == Init => Store!StoreInit
<1> SUFFICES ASSUME Init
             PROVE  Store!StoreInit
  OBVIOUS
<1>0. TypeOK /\ DataInv
  BY InitIInv, InitSInv DEF IInv, SInv
<1>1. ContentsAre /\ AccessAre
  BY <1>0, View
<1>2. \A t \in Thread, b \in Block : hold[t][b].mode = "none"
  BY DEF Init, NoGrant
<1>3. \A t \in Thread, s \in Sector : Access[t][s] = "none"
  BY <1>1, <1>2 DEF AccessAre
<1>4. Access = [t \in Thread |-> [s \in Sector |-> "none"]]
  <2>1. Access \in [Thread -> [Sector -> Mode]]
    BY <1>1 DEF AccessAre
  <2> QED
    BY <1>3, <2>1
<1>5. Contents \in [Sector -> Value] /\ freed = {}
  BY <1>1, Zenon DEF ContentsAre, Init
<1> QED
  BY <1>4, <1>5 DEF Store!StoreInit

\* The buffer cache implements SectorStore: as long as no two threads bring in
\* the same sector at once and nobody is given a block of a deleted sector,
\* every client finds in a sector what was last written to it, whatever was
\* evicted, written back, flushed and read again meanwhile.
THEOREM StoreImplemented == UndisturbedSpec => ImplementsStore
<1>1. Init => IInv /\ SInv /\ SoleMiss /\ NoReuse
  BY InitIInv, InitSInv
<1>2. IInv /\ SInv /\ SoleMiss /\ NoReuse /\ [Next /\ SoleMiss' /\ NoReuse']_vars
        => IInv' /\ SInv' /\ SoleMiss' /\ NoReuse' /\ [Store!StoreNext]_(Store!storeVars)
  <2> SUFFICES ASSUME IInv, SInv, SoleMiss, NoReuse, [Next /\ SoleMiss' /\ NoReuse']_vars
               PROVE  IInv' /\ SInv' /\ SoleMiss' /\ NoReuse' /\ [Store!StoreNext]_(Store!storeVars)
    OBVIOUS
  <2>1. [Next]_vars
    OBVIOUS
  <2>2. IInv' /\ SInv'
    BY <2>1, NextIInv, NextSInv
  <2>3. SoleMiss' /\ NoReuse'
    <3>1. CASE UNCHANGED vars
      <4>1. blocks' = blocks /\ hold' = hold /\ call' = call
        BY <3>1, Zenon DEF vars
      <4>2. SoleMiss'
        <5>1. \A s : CachedIn(s)' = CachedIn(s)
          BY <4>1, Zenon DEF CachedIn, Hit
        <5>2. \A u : Held(u)' = Held(u)
          BY <4>1, Zenon DEF Held
        <5>3. \A u, s : BringsIn(u, s)' <=> BringsIn(u, s)
          BY <4>1, <5>2, Zenon DEF BringsIn
        <5> QED
          BY <5>1, <5>3, Zenon DEF SoleMiss
      <4>3. NoReuse'
        BY <4>1, Zenon DEF NoReuse
      <4> QED
        BY <4>2, <4>3
    <3> QED
      BY <3>1
  <2> QED
    BY <2>1, <2>2, <2>3, StepSeen
<1> QED
  BY <1>1, <1>2, InitSeen, PTL DEF UndisturbedSpec, ImplementsStore, Store!StoreSpec
=============================================================================
