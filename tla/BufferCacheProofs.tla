------------------------- MODULE BufferCacheProofs -------------------------
(***************************************************************************)
(* Theorems about BufferCache, for any threads, sectors and cache size.    *)
(* The inductive invariant says that the counters of a block count what    *)
(* they should: num_readers and num_writers the threads that hold it,      *)
(* pending_requests the threads in cond_wait on it.                        *)
(***************************************************************************)
EXTENDS BufferCache, FiniteSetTheorems, TLAPS

Readers(b) == {t \in Thread : hold[t][b].mode = "shared"}
Writers(b) == {t \in Thread : hold[t][b].mode = "exclusive"}
Pending(b) == {t \in Thread : /\ call[t].pc \in {"window", "asleep", "woken"}
                              /\ call[t].i = b}

CountsOK == \A b \in Block :
              /\ blocks[b].num_readers = Cardinality(Readers(b))
              /\ blocks[b].num_writers = Cardinality(Writers(b))
              /\ blocks[b].pending_requests = Cardinality(Pending(b))

\* At most one writer, and not together with readers.
ModesOK == \A b \in Block : /\ blocks[b].num_writers <= 1
                            /\ blocks[b].num_writers = 1 => blocks[b].num_readers = 0

\* A thread that sleeps with a block lock is the only one, on an unused block
\* that has its sector.
TokensOK == /\ \A t \in Thread : At(t, "token") =>
                 Unused(call[t].i) /\ Hit(call[t].i, call[t].sector)
            /\ \A t, u \in Thread : At(t, "token") /\ At(u, "token") /\ call[t].i = call[u].i
                 => t = u

WaitsOK == \A t \in Thread : call[t].pc \in {"window", "asleep", "woken"} =>
                               blocks[call[t].i].bs_id = call[t].sector

\* A call asks for a sector above those of the blocks its thread holds.
AboveHeld == \A t \in Thread, b \in Block :
               call[t].pc \notin {"client", "flush"} /\ hold[t][b].mode # "none" =>
                 blocks[b].bs_id < call[t].sector

\* Dirty blocks, and blocks a client has read or zeroed, are valid.
ValidOK == /\ \A b \in Block : blocks[b].dirty => blocks[b].valid
           /\ \A t \in Thread, b \in Block :
                hold[t][b].mode # "none" /\ hold[t][b].phase # "got" => blocks[b].valid
           /\ panic # "writeback"

IInv == TypeOK /\ CountsOK /\ ModesOK /\ TokensOK /\ WaitsOK /\ AboveHeld /\ ValidOK

-----------------------------------------------------------------------------
USE DEF Block

\* Subsets of the threads and of the blocks are finite.
LEMMA Finite ==
  /\ \A S \in SUBSET Thread : IsFiniteSet(S) /\ Cardinality(S) \in Nat
  /\ \A S \in SUBSET Block : IsFiniteSet(S) /\ Cardinality(S) \in Nat
<1>1. IsFiniteSet(Block)
  BY LimitAssumption, FS_Interval
<1> QED
  BY <1>1, ThreadAssumption, FS_Subset, FS_CardinalityType, Zenon

\* A set of threads with a member has a positive cardinality.
LEMMA NonEmpty == ASSUME NEW S \in SUBSET Thread
                  PROVE  Cardinality(S) > 0 <=> S # {}
  BY Finite, FS_EmptySet

\* After cache_init every counter is zero and nobody holds or waits.
LEMMA InitIInv == Init => IInv
<1> SUFFICES ASSUME Init PROVE IInv
  OBVIOUS
<1>1. TypeOK
  BY LimitAssumption, SectorAssumption, ClientAssumption
     DEF Init, TypeOK, CacheBlock, Call, Grant, PC, Mode, Phase, NoGrant
<1>2. CountsOK
  <2>1. \A b \in Block : Readers(b) = {} /\ Writers(b) = {} /\ Pending(b) = {}
    BY DEF Init, Readers, Writers, Pending, NoGrant
  <2> QED
    BY <2>1, FS_EmptySet, Zenon DEF Init, CountsOK
<1>3. ModesOK /\ TokensOK /\ WaitsOK /\ AboveHeld /\ ValidOK
  BY DEF Init, ModesOK, TokensOK, WaitsOK, AboveHeld, ValidOK, At, NoGrant
<1> QED
  BY <1>1, <1>2, <1>3 DEF IInv

-----------------------------------------------------------------------------
\* What an update of one entry leaves in the state.

\* A thread's access to one block changes (grant, put, use).
LEMMA HoldUpdate ==
  ASSUME TypeOK, NEW t \in Thread, NEW b \in Block, NEW g \in Grant,
         hold' = [hold EXCEPT ![t][b] = g]
  PROVE  /\ hold' \in [Thread -> [Block -> Grant]]
         /\ \A u \in Thread, c \in Block :
              hold'[u][c] = IF u = t /\ c = b THEN g ELSE hold[u][c]
<1>1. hold \in [Thread -> [Block -> Grant]]
  BY DEF TypeOK
<1>2. [hold[t] EXCEPT ![b] = g] \in [Block -> Grant]
  BY <1>1
<1> QED
  BY <1>1, <1>2, Zenon

\* One struct cache_block changes.
LEMMA BlockUpdate ==
  ASSUME TypeOK, NEW b \in Block, NEW r \in CacheBlock,
         blocks' = [blocks EXCEPT ![b] = r]
  PROVE  /\ blocks' \in [Block -> CacheBlock]
         /\ \A c \in Block : blocks'[c] = IF c = b THEN r ELSE blocks[c]
  BY DEF TypeOK

\* The call of one thread in cache_get_block, evict or cache_flush changes.
LEMMA CallUpdate ==
  ASSUME TypeOK, NEW t \in Thread, NEW k \in Call, call' = [call EXCEPT ![t] = k]
  PROVE  /\ call' \in [Thread -> Call]
         /\ \A u \in Thread : call'[u] = IF u = t THEN k ELSE call[u]
  BY DEF TypeOK

\* One thread moves to another point of its call.
LEMMA GotoUpdate ==
  ASSUME TypeOK, NEW t \in Thread, NEW p \in PC, Goto(t, p)
  PROVE  /\ call' \in [Thread -> Call]
         /\ \A u \in Thread : call'[u] = IF u = t THEN [call[t] EXCEPT !.pc = p] ELSE call[u]
<1>1. [call[t] EXCEPT !.pc = p] \in Call
  BY Zenon DEF TypeOK, Call
<1> QED
  BY <1>1, CallUpdate DEF Goto, TypeOK

\* The end of cache_get_block: the caller has the block, the others what they had.
LEMMA GrantUpdate ==
  ASSUME TypeOK, NEW t \in Thread, NEW b \in Block, NEW x \in BOOLEAN, GrantTo(t, b, x)
  PROVE  /\ hold' \in [Thread -> [Block -> Grant]]
         /\ hold'[t][b].mode = (IF x THEN "exclusive" ELSE "shared")
         /\ hold'[t][b].phase = "got"
         /\ \A u \in Thread, c \in Block : u # t \/ c # b => hold'[u][c] = hold[u][c]
         /\ call' \in [Thread -> Call]
         /\ call'[t].pc = "client"
         /\ \A u \in Thread : u # t => call'[u] = call[u]
<1> DEFINE g == [mode |-> IF x THEN "exclusive" ELSE "shared", phase |-> "got"]
<1>1. g \in Grant /\ "client" \in PC
  BY DEF Grant, Mode, Phase, PC
<1>2. hold' = [hold EXCEPT ![t][b] = g] /\ Goto(t, "client")
  BY DEF GrantTo
<1>3. g.mode = (IF x THEN "exclusive" ELSE "shared") /\ g.phase = "got"
  OBVIOUS
<1> HIDE DEF g
<1>4. /\ hold' \in [Thread -> [Block -> Grant]]
      /\ \A u \in Thread, c \in Block :
              hold'[u][c] = IF u = t /\ c = b THEN g ELSE hold[u][c]
  BY <1>1, <1>2, HoldUpdate
<1>5. /\ call' \in [Thread -> Call]
      /\ \A u \in Thread : call'[u] = IF u = t THEN [call[t] EXCEPT !.pc = "client"] ELSE call[u]
  BY <1>1, <1>2, GotoUpdate
<1>6. call'[t].pc = "client"
  BY <1>5 DEF TypeOK, Call
<1> QED
  BY <1>3, <1>4, <1>5, <1>6

\* A user or a waiter keeps a block from being unused.
LEMMA UsersCount ==
  ASSUME IInv, NEW t \in Thread, NEW b \in Block
  PROVE  /\ hold[t][b].mode = "shared" => blocks[b].num_readers > 0
         /\ hold[t][b].mode = "exclusive" => blocks[b].num_writers > 0
         /\ t \in Pending(b) => blocks[b].pending_requests > 0
         /\ hold[t][b].mode # "none" => ~Unused(b)
<1>1. /\ Readers(b) \in SUBSET Thread /\ Writers(b) \in SUBSET Thread
      /\ Pending(b) \in SUBSET Thread
  BY DEF Readers, Writers, Pending
<1>2. /\ hold[t][b].mode = "shared" => blocks[b].num_readers > 0
      /\ hold[t][b].mode = "exclusive" => blocks[b].num_writers > 0
      /\ t \in Pending(b) => blocks[b].pending_requests > 0
  BY <1>1, NonEmpty, Zenon DEF IInv, CountsOK, Readers, Writers
<1>3. hold[t][b].mode \in {"none", "shared", "exclusive"}
  BY Zenon DEF IInv, TypeOK, Grant, Mode
<1> QED
  BY <1>2, <1>3 DEF Unused

\* The client operations on a block it holds: they leave the counters, the
\* modes and the calls alone, and keep valid what has to be.
LEMMA ClientStep ==
  ASSUME IInv, NEW t \in Thread, NEW b \in Block, NEW r \in CacheBlock, NEW p \in Phase,
         blocks' = [blocks EXCEPT ![b] = r], Reaches(t, b, p),
         r.bs_id = blocks[b].bs_id,
         r.num_readers = blocks[b].num_readers, r.num_writers = blocks[b].num_writers,
         r.pending_requests = blocks[b].pending_requests,
         r.valid, freed' \subseteq Sector,
         UNCHANGED <<num_evict, clock, disk, call, panic>>
  PROVE  IInv'
<1> DEFINE g == [mode |-> hold[t][b].mode, phase |-> p]
<1>0. TypeOK /\ g \in Grant
  BY Zenon DEF IInv, TypeOK, Grant
<1>1. /\ blocks' \in [Block -> CacheBlock]
      /\ \A c \in Block : blocks'[c] = IF c = b THEN r ELSE blocks[c]
  BY <1>0, BlockUpdate, Zenon
<1>2. /\ hold' \in [Thread -> [Block -> Grant]]
      /\ \A u \in Thread, c \in Block :
              hold'[u][c] = IF u = t /\ c = b THEN g ELSE hold[u][c]
  BY <1>0, HoldUpdate, Zenon DEF Reaches
<1>3. TypeOK'
  BY <1>0, <1>1, <1>2 DEF TypeOK
<1>4. \A u \in Thread, c \in Block : hold'[u][c].mode = hold[u][c].mode
  BY <1>2
<1>5. \A c \in Block : /\ blocks'[c].num_readers = blocks[c].num_readers
                       /\ blocks'[c].num_writers = blocks[c].num_writers
                       /\ blocks'[c].pending_requests = blocks[c].pending_requests
                       /\ blocks'[c].bs_id = blocks[c].bs_id
                       /\ blocks[c].valid => blocks'[c].valid
  BY <1>1
<1>6. CountsOK'
  <2>1. \A c \in Block : /\ Readers(c)' = Readers(c) /\ Writers(c)' = Writers(c)
                         /\ Pending(c)' = Pending(c)
    BY <1>4 DEF Readers, Writers, Pending
  <2> QED
    BY <1>5, <2>1 DEF CountsOK, IInv
<1>7. (ModesOK /\ TokensOK /\ WaitsOK /\ AboveHeld)'
  <2>1. \A u \in Thread : call[u].i \in Block
    BY <1>0 DEF TypeOK, Call
  <2> QED
    BY <1>4, <1>5, <2>1 DEF IInv, ModesOK, TokensOK, WaitsOK, AboveHeld, At, Unused, Hit
<1>8. ValidOK'
  BY <1>1, <1>2, <1>5 DEF IInv, ValidOK
<1> QED
  BY <1>3, <1>6, <1>7, <1>8 DEF IInv

\* cache_read_block keeps the invariant.
LEMMA ReadStep ==
  ASSUME IInv, NEW t \in Thread, NEW b \in Block, Read(t, b)
  PROVE  IInv'
<1> DEFINE d == IF blocks[b].valid THEN blocks[b].data ELSE disk[blocks[b].bs_id]
           r == [blocks[b] EXCEPT !.valid = TRUE, !.data = d]
<1>1. blocks[b] \in CacheBlock /\ d \in Value
  BY DEF IInv, TypeOK, CacheBlock
<1>2. r \in CacheBlock
  BY <1>1, Zenon DEF CacheBlock
<1>3. blocks' = [blocks EXCEPT ![b] = r]
  BY Zenon DEF Read
<1>4. freed' \subseteq Sector
  BY DEF Read, IInv, TypeOK
<1>5. /\ r.bs_id = blocks[b].bs_id /\ r.valid
      /\ r.num_readers = blocks[b].num_readers /\ r.num_writers = blocks[b].num_writers
      /\ r.pending_requests = blocks[b].pending_requests
  BY <1>1 DEF CacheBlock
<1> HIDE DEF r
<1> QED
  BY <1>2, <1>3, <1>4, <1>5, ClientStep, Zenon DEF Read, Phase

\* cache_zero_block keeps the invariant: it makes the block valid and dirty.
LEMMA ZeroStep ==
  ASSUME IInv, NEW t \in Thread, NEW b \in Block, ZeroBlock(t, b)
  PROVE  IInv'
<1> DEFINE r == [blocks[b] EXCEPT !.valid = TRUE, !.dirty = TRUE, !.data = Zero]
<1>1. blocks[b] \in CacheBlock
  BY DEF IInv, TypeOK
<1>2. r \in CacheBlock
  BY <1>1, ClientAssumption, Zenon DEF CacheBlock
<1>3. blocks' = [blocks EXCEPT ![b] = r]
  BY Zenon DEF ZeroBlock
<1>4. freed' \subseteq Sector
  BY DEF ZeroBlock, IInv, TypeOK
<1>5. /\ r.bs_id = blocks[b].bs_id /\ r.valid
      /\ r.num_readers = blocks[b].num_readers /\ r.num_writers = blocks[b].num_writers
      /\ r.pending_requests = blocks[b].pending_requests
  BY <1>1 DEF CacheBlock
<1> HIDE DEF r
<1> QED
  BY <1>2, <1>3, <1>4, <1>5, ClientStep, Zenon DEF ZeroBlock, Phase

\* A client's memcpy into the data of its block keeps the invariant.
LEMMA ModifyStep ==
  ASSUME IInv, NEW t \in Thread, NEW b \in Block, NEW v \in Value, Modify(t, b, v)
  PROVE  IInv'
<1> DEFINE r == [blocks[b] EXCEPT !.data = v]
<1>1. blocks[b] \in CacheBlock
  BY DEF IInv, TypeOK
<1>2. r \in CacheBlock
  BY <1>1 DEF CacheBlock
<1>3. blocks' = [blocks EXCEPT ![b] = r]
  BY DEF Modify
<1>4. freed' \subseteq Sector
  BY DEF Modify, IInv, TypeOK
<1>5. blocks[b].valid
  BY DEF Modify, IInv, ValidOK
<1>6. /\ r.bs_id = blocks[b].bs_id /\ r.valid
      /\ r.num_readers = blocks[b].num_readers /\ r.num_writers = blocks[b].num_writers
      /\ r.pending_requests = blocks[b].pending_requests
  BY <1>1, <1>5 DEF CacheBlock
<1> HIDE DEF r
<1> QED
  BY <1>2, <1>3, <1>4, <1>6, ClientStep, Zenon DEF Modify, Phase

\* cache_mark_block_dirty keeps the invariant: the client has read the block.
LEMMA MarkDirtyStep ==
  ASSUME IInv, NEW t \in Thread, NEW b \in Block, MarkDirty(t, b)
  PROVE  IInv'
<1> DEFINE r == [blocks[b] EXCEPT !.dirty = TRUE]
<1>1. blocks[b] \in CacheBlock
  BY DEF IInv, TypeOK
<1>2. r \in CacheBlock
  BY <1>1, Zenon DEF CacheBlock
<1>3. blocks' = [blocks EXCEPT ![b] = r]
  BY DEF MarkDirty
<1>4. freed' \subseteq Sector
  BY DEF MarkDirty, IInv, TypeOK
<1>5. blocks[b].valid
  BY DEF MarkDirty, MayUse, IInv, ValidOK
<1>6. /\ r.bs_id = blocks[b].bs_id /\ r.valid
      /\ r.num_readers = blocks[b].num_readers /\ r.num_writers = blocks[b].num_writers
      /\ r.pending_requests = blocks[b].pending_requests
  BY <1>1, <1>5 DEF CacheBlock
<1> HIDE DEF r
<1> QED
  BY <1>2, <1>3, <1>4, <1>6, ClientStep, Zenon DEF MarkDirty, Phase

\* cache_mark_deleted keeps the invariant.
LEMMA MarkDeletedStep ==
  ASSUME IInv, NEW t \in Thread, NEW b \in Block, MarkDeleted(t, b)
  PROVE  IInv'
<1> DEFINE r == [blocks[b] EXCEPT !.deleted = TRUE]
<1>1. blocks[b] \in CacheBlock
  BY DEF IInv, TypeOK
<1>2. r \in CacheBlock
  BY <1>1, Zenon DEF CacheBlock
<1>3. blocks' = [blocks EXCEPT ![b] = r]
  BY DEF MarkDeleted
<1>4. freed' \subseteq Sector
  BY <1>1 DEF MarkDeleted, IInv, TypeOK, CacheBlock
<1>5. blocks[b].valid
  BY DEF MarkDeleted, MayUse, IInv, ValidOK
<1>6. /\ r.bs_id = blocks[b].bs_id /\ r.valid
      /\ r.num_readers = blocks[b].num_readers /\ r.num_writers = blocks[b].num_writers
      /\ r.pending_requests = blocks[b].pending_requests
  BY <1>1, <1>5 DEF CacheBlock
<1> HIDE DEF r
<1> QED
  BY <1>2, <1>3, <1>4, <1>6, ClientStep, Zenon DEF MarkDeleted, Phase

\* Steps of a call that only move the caller: neither into nor out of
\* cond_wait, and to "token" only on a free, unused block with its sector.
SameBlocks ==
  /\ blocks' \in [Block -> CacheBlock]
  /\ \A c \in Block : /\ blocks'[c].num_readers = blocks[c].num_readers
                      /\ blocks'[c].num_writers = blocks[c].num_writers
                      /\ blocks'[c].pending_requests = blocks[c].pending_requests
                      /\ blocks'[c].bs_id = blocks[c].bs_id
                      /\ blocks'[c].valid = blocks[c].valid
                      /\ blocks'[c].dirty => blocks[c].dirty

InWait(k) == k.pc \in {"window", "asleep", "woken"}

Moves(t, k) ==
  /\ call' = [call EXCEPT ![t] = k] /\ UNCHANGED <<hold, freed, panic>>
  /\ num_evict' \in Nat /\ clock' \in Block /\ disk' \in [Sector -> Value]
  /\ \/ ~InWait(call[t]) /\ ~InWait(k)
     \/ InWait(call[t]) /\ InWait(k) /\ k.i = call[t].i /\ k.sector = call[t].sector
  /\ k.pc = "token" => Unused(k.i) /\ Hit(k.i, k.sector) /\ LockFree(k.i)
  /\ \/ k.pc \in {"client", "flush"}
     \/ \A b \in Block : hold[t][b].mode # "none" => blocks[b].bs_id < k.sector

\* A step that only moves a call, and keeps the threads in cond_wait, keeps the
\* invariant.
LEMMA MoveStep ==
  ASSUME IInv, NEW t \in Thread, NEW k \in Call, SameBlocks, Moves(t, k)
  PROVE  IInv'
<1>0. TypeOK
  BY DEF IInv
<1>1. /\ call' \in [Thread -> Call]
      /\ \A u \in Thread : call'[u] = IF u = t THEN k ELSE call[u]
  BY <1>0, CallUpdate, Zenon DEF Moves
<1>2. TypeOK'
  BY <1>0, <1>1 DEF TypeOK, Moves, SameBlocks
<1>3. CountsOK'
  <2>1. \A c \in Block : /\ Readers(c)' = Readers(c) /\ Writers(c)' = Writers(c)
                         /\ Pending(c)' = Pending(c)
    BY <1>1 DEF Readers, Writers, Pending, Moves, InWait
  <2> QED
    BY <2>1 DEF CountsOK, IInv, SameBlocks
<1>4. TokensOK'
  <2>1. \A u \in Thread : call[u].i \in Block /\ call'[u].i \in Block
    BY <1>0, <1>1 DEF TypeOK, Call
  <2>2. \A u \in Thread : At(u, "token")' => Unused(call'[u].i) /\ Hit(call'[u].i, call'[u].sector)
    BY <1>1 DEF IInv, TokensOK, Moves, At
  <2>3. \A u \in Thread : At(u, "token")' => Unused(call[u].i)' /\ Hit(call[u].i, call[u].sector)'
    BY <2>1, <2>2 DEF SameBlocks, Unused, Hit
  <2>4. \A u, v \in Thread :
          At(u, "token")' /\ At(v, "token")' /\ call'[u].i = call'[v].i => u = v
    BY <1>1 DEF IInv, TokensOK, Moves, At, LockFree
  <2> QED
    BY <2>3, <2>4 DEF TokensOK
<1>5. ModesOK'
  BY DEF IInv, ModesOK, SameBlocks
<1>6. WaitsOK'
  BY <1>0, <1>1 DEF IInv, WaitsOK, SameBlocks, Moves, InWait, TypeOK, Call
<1>7. AboveHeld'
  BY <1>1 DEF IInv, AboveHeld, SameBlocks, Moves
<1>8. ValidOK'
  BY DEF IInv, ValidOK, SameBlocks, Moves
<1> QED
  BY <1>2, <1>3, <1>4, <1>5, <1>6, <1>7, <1>8 DEF IInv

\* A step that leaves the blocks alone.
LEMMA SameBlocksUnchanged == ASSUME TypeOK, UNCHANGED blocks PROVE SameBlocks
  BY DEF TypeOK, SameBlocks

\* The steps that grant block b to thread t, at the end of cache_get_block.
Grants(t, b, x, r) ==
  /\ blocks' = [blocks EXCEPT ![b] = r] /\ GrantTo(t, b, x)
  /\ hold[t][b].mode = "none" /\ call[t].i = b
  /\ \A u \in Thread : u # t => ~(At(u, "token") /\ call[u].i = b)
  /\ blocks[b].num_writers = 0 /\ (x => blocks[b].num_readers = 0)
  /\ r.num_writers = IF x THEN 1 ELSE 0
  /\ r.num_readers = IF x THEN 0 ELSE blocks[b].num_readers + 1
  /\ r.pending_requests = IF t \in Pending(b) THEN blocks[b].pending_requests - 1
                          ELSE blocks[b].pending_requests
  /\ r.dirty => r.valid
  /\ Unused(b) \/ (r.bs_id = blocks[b].bs_id /\ (blocks[b].valid => r.valid))
  /\ num_evict' \in Nat /\ disk' \in [Sector -> Value] /\ UNCHANGED <<clock, freed, panic>>

\* Whenever cache_get_block may count its caller as a user, the invariant is
\* kept.
LEMMA GrantStep ==
  ASSUME IInv, NEW t \in Thread, NEW b \in Block, NEW x \in BOOLEAN, NEW r \in CacheBlock,
         Grants(t, b, x, r)
  PROVE  IInv'
<1>0. TypeOK
  BY DEF IInv
<1>1. /\ blocks' \in [Block -> CacheBlock]
      /\ \A c \in Block : blocks'[c] = IF c = b THEN r ELSE blocks[c]
  BY <1>0, BlockUpdate, Zenon DEF Grants
<1>2. /\ hold' \in [Thread -> [Block -> Grant]]
      /\ hold'[t][b].mode = (IF x THEN "exclusive" ELSE "shared")
      /\ hold'[t][b].phase = "got"
      /\ \A u \in Thread, c \in Block : u # t \/ c # b => hold'[u][c] = hold[u][c]
  BY <1>0, GrantUpdate DEF Grants
<1>3. call' \in [Thread -> Call]
  BY <1>0, GrantUpdate DEF Grants
<1>4. call'[t].pc = "client" /\ \A u \in Thread : u # t => call'[u] = call[u]
  BY <1>0, GrantUpdate DEF Grants
<1>5. TypeOK'
  BY <1>0, <1>1, <1>2, <1>3 DEF TypeOK, Grants
<1>6. CountsOK'
  <2>1. \A c \in Block : /\ Readers(c) \in SUBSET Thread /\ Writers(c) \in SUBSET Thread
                         /\ Pending(c) \in SUBSET Thread
    BY DEF Readers, Writers, Pending
  <2>2. \A c \in Block \ {b} : /\ Readers(c)' = Readers(c) /\ Writers(c)' = Writers(c)
                               /\ Pending(c)' = Pending(c)
    BY <1>2, <1>4 DEF Readers, Writers, Pending, Grants
  <2>3. Pending(b)' = Pending(b) \ {t}
    BY <1>4 DEF Pending
  <2>4. /\ Readers(b)' = IF x THEN Readers(b) ELSE Readers(b) \cup {t}
        /\ Writers(b)' = IF x THEN Writers(b) \cup {t} ELSE Writers(b)
        /\ t \notin Readers(b) /\ t \notin Writers(b)
    BY <1>2 DEF Readers, Writers, Grants
  <2>5. /\ r.num_readers = Cardinality(Readers(b)')
        /\ r.num_writers = Cardinality(Writers(b)')
    <3>1. /\ Cardinality(Readers(b) \cup {t}) = Cardinality(Readers(b)) + 1
          /\ Cardinality(Writers(b) \cup {t}) = Cardinality(Writers(b)) + 1
      BY <2>1, <2>4, Finite, FS_AddElement
    <3>2. /\ Cardinality(Readers(b)) = blocks[b].num_readers
          /\ Cardinality(Writers(b)) = blocks[b].num_writers
      BY DEF IInv, CountsOK
    <3>3. /\ blocks[b].num_writers = 0 /\ (x => blocks[b].num_readers = 0)
          /\ r.num_writers = IF x THEN 1 ELSE 0
          /\ r.num_readers = IF x THEN 0 ELSE blocks[b].num_readers + 1
      BY DEF Grants
    <3> QED
      BY <2>4, <3>1, <3>2, <3>3
  <2>6. r.pending_requests = Cardinality(Pending(b)')
    BY <2>1, <2>3, Finite, FS_RemoveElement DEF IInv, CountsOK, Grants
  <2> QED
    BY <1>1, <2>2, <2>5, <2>6 DEF IInv, CountsOK
<1>7. \A u \in Thread, c \in Block : u # t /\ c = b /\ Unused(b) =>
          hold[u][c].mode = "none" /\ u \notin Pending(b)
  BY UsersCount DEF Unused
<1>8. ModesOK'
  BY <1>1 DEF IInv, ModesOK, Grants
<1>9. TokensOK'
  <2>1. \A u \in Thread : At(u, "token")' => u # t /\ At(u, "token") /\ call'[u] = call[u] /\ call[u].i # b
    BY <1>4, Zenon DEF At, Grants
  <2>2. \A u \in Thread : call[u].i \in Block
    BY <1>0 DEF TypeOK, Call
  <2> QED
    BY <1>1, <2>1, <2>2 DEF IInv, TokensOK, Unused, Hit
<1>10. WaitsOK'
  BY <1>1, <1>4, <1>7 DEF IInv, WaitsOK, Pending, TypeOK, Call, Grants
<1>11. AboveHeld'
  BY <1>1, <1>2, <1>4, <1>7 DEF IInv, AboveHeld, Grants
<1>12. ValidOK'
  BY <1>1, <1>2, <1>7 DEF IInv, ValidOK, Grants
<1> QED
  BY <1>5, <1>6, <1>8, <1>9, <1>10, <1>11, <1>12 DEF IInv

\* What the counters are after Counted.
LEMMA CountedFields ==
  ASSUME NEW blk \in CacheBlock, NEW x \in BOOLEAN
  PROVE  LET r == Counted(blk, x) IN
         /\ r \in CacheBlock
         /\ r.bs_id = blk.bs_id /\ r.valid = blk.valid /\ r.dirty = blk.dirty
         /\ r.pending_requests = blk.pending_requests
         /\ r.num_writers = IF x THEN blk.num_writers + 1 ELSE blk.num_writers
         /\ r.num_readers = IF x THEN blk.num_readers ELSE blk.num_readers + 1
<1>1. CASE x
  BY <1>1 DEF Counted, CacheBlock
<1>2. CASE ~x
  BY <1>2 DEF Counted, CacheBlock
<1> QED
  BY <1>1, <1>2

\* The counts of a block granted in a mode that does not conflict.
LEMMA CountedAlone ==
  ASSUME NEW blk \in CacheBlock, NEW x \in BOOLEAN, NEW r, r = Counted(blk, x),
         blk.num_writers = 0, x => blk.num_readers = 0, blk.dirty => blk.valid
  PROVE  /\ r \in CacheBlock /\ (r.dirty => r.valid) /\ r.bs_id = blk.bs_id
         /\ r.num_writers = (IF x THEN 1 ELSE 0)
         /\ r.num_readers = (IF x THEN 0 ELSE blk.num_readers + 1)
         /\ r.pending_requests = blk.pending_requests
         /\ blk.valid => r.valid
  BY CountedFields

\* obtain_block's sema_down returns and the block is granted.
LEMMA TokenStep ==
  ASSUME IInv, NEW t \in Thread, Token(t)
  PROVE  IInv'
<1>b. PICK b, x : b = call[t].i /\ x = call[t].exclusive
  OBVIOUS
<1>r. PICK r : r = Counted(blocks[b], x)
  OBVIOUS
<1>1. b \in Block /\ x \in BOOLEAN /\ blocks[b] \in CacheBlock /\ num_evict \in Nat
  BY <1>b DEF IInv, TypeOK, Call
<1>2. /\ blocks' = [blocks EXCEPT ![b] = r] /\ GrantTo(t, b, x)
      /\ num_evict' \in Nat /\ UNCHANGED <<clock, disk, freed, panic>>
  BY <1>b, <1>r, <1>1 DEF Token
<1>3. Unused(b) /\ Hit(b, call[t].sector)
  BY <1>b DEF Token, IInv, TokensOK
<1>4. hold[t][b].mode = "none"
  BY <1>1, <1>3, UsersCount
<1>5. \A u \in Thread : u # t => ~(At(u, "token") /\ call[u].i = b)
  BY <1>b DEF Token, IInv, TokensOK
<1>6. t \notin Pending(b)
  BY <1>b DEF Token, At, Pending
<1>7. disk' \in [Sector -> Value] /\ (blocks[b].dirty => blocks[b].valid)
  BY <1>1, <1>2 DEF IInv, TypeOK, ValidOK
<1>8. /\ blocks[b].num_writers = 0 /\ blocks[b].num_readers = 0
  BY <1>3 DEF Unused
<1>9. /\ r \in CacheBlock /\ (r.dirty => r.valid) /\ r.bs_id = blocks[b].bs_id
      /\ r.num_writers = (IF x THEN 1 ELSE 0)
      /\ r.num_readers = (IF x THEN 0 ELSE blocks[b].num_readers + 1)
      /\ r.pending_requests = blocks[b].pending_requests
      /\ blocks[b].valid => r.valid
  BY <1>r, <1>1, <1>7, <1>8, CountedAlone
<1>10. Grants(t, b, x, r)
  BY <1>2, <1>3, <1>4, <1>5, <1>6, <1>7, <1>8, <1>9, <1>b, Zenon DEF Grants
<1> QED
  BY <1>1, <1>9, <1>10, GrantStep

\* The sector is in a block in use, in a mode that agrees.
LEMMA ProbeShareStep ==
  ASSUME IInv, NEW t \in Thread, ProbeShare(t)
  PROVE  IInv'
<1>b. PICK b, x : b = call[t].i /\ x = call[t].exclusive
  OBVIOUS
<1>r. PICK r : r = Counted(blocks[b], x)
  OBVIOUS
<1>1. b \in Block /\ x \in BOOLEAN /\ blocks[b] \in CacheBlock
  BY <1>b DEF IInv, TypeOK, Call
<1>2. /\ blocks' = [blocks EXCEPT ![b] = r] /\ GrantTo(t, b, x)
      /\ UNCHANGED <<num_evict, clock, disk, freed, panic>>
  BY <1>b, <1>r DEF ProbeShare
<1>3. hold[t][b].mode = "none"
  <2>1. blocks[b].bs_id = call[t].sector /\ call[t].sector \in Nat /\ call[t].pc = "probe"
    BY <1>b, <1>1, SectorAssumption, Zenon DEF ProbeShare, Hit, At, CacheBlock
  <2> QED
    BY <1>1, <2>1 DEF IInv, AboveHeld
<1>4. \A u \in Thread : u # t => ~(At(u, "token") /\ call[u].i = b)
  BY <1>b DEF ProbeShare, LockFree
<1>5. t \notin Pending(b)
  BY <1>b DEF ProbeShare, At, Pending
<1>6. /\ disk' \in [Sector -> Value] /\ num_evict' \in Nat
      /\ blocks[b].dirty => blocks[b].valid
  BY <1>1, <1>2 DEF IInv, TypeOK, ValidOK
<1>7. blocks[b].num_writers = 0 /\ (x => blocks[b].num_readers = 0)
  <2>1. blocks[b].num_readers \in Nat /\ blocks[b].num_writers \in Nat
    BY <1>1 DEF CacheBlock
  <2>2. ~Conflict(b, x)
    BY <1>b DEF ProbeShare
  <2> QED
    BY <1>1, <2>1, <2>2 DEF Conflict
<1>8. /\ r \in CacheBlock /\ (r.dirty => r.valid) /\ r.bs_id = blocks[b].bs_id
      /\ r.num_writers = (IF x THEN 1 ELSE 0)
      /\ r.num_readers = (IF x THEN 0 ELSE blocks[b].num_readers + 1)
      /\ r.pending_requests = blocks[b].pending_requests
      /\ blocks[b].valid => r.valid
  BY <1>r, <1>1, <1>6, <1>7, CountedAlone
<1>9. Grants(t, b, x, r)
  BY <1>2, <1>3, <1>4, <1>5, <1>6, <1>7, <1>8, <1>b, Zenon DEF Grants
<1> QED
  BY <1>1, <1>8, <1>9, GrantStep, Zenon

\* A woken waiter finds its condition true.
LEMMA WakeGrantStep ==
  ASSUME IInv, NEW t \in Thread, WakeGrant(t)
  PROVE  IInv'
<1>b. PICK b, x : b = call[t].i /\ x = call[t].exclusive
  OBVIOUS
<1>q. PICK q : q = NotPending(blocks[b])
  OBVIOUS
<1>r. PICK r : r = Counted(q, x)
  OBVIOUS
<1>1. b \in Block /\ x \in BOOLEAN /\ blocks[b] \in CacheBlock
  BY <1>b DEF IInv, TypeOK, Call
<1>2. /\ blocks' = [blocks EXCEPT ![b] = r] /\ GrantTo(t, b, x)
      /\ UNCHANGED <<num_evict, clock, disk, freed, panic>>
  BY <1>b, <1>q, <1>r DEF WakeGrant
<1>3. t \in Pending(b)
  BY <1>b DEF WakeGrant, At, Pending
<1>4. hold[t][b].mode = "none"
  <2>1. blocks[b].bs_id = call[t].sector /\ call[t].sector \in Nat /\ call[t].pc = "woken"
    BY <1>b, <1>1, SectorAssumption, Zenon DEF WakeGrant, At, IInv, WaitsOK, CacheBlock
  <2> QED
    BY <1>1, <2>1 DEF IInv, AboveHeld
<1>5. \A u \in Thread : u # t => ~(At(u, "token") /\ call[u].i = b)
  BY <1>b DEF WakeGrant, LockFree
<1>6. /\ disk' \in [Sector -> Value] /\ num_evict' \in Nat
      /\ blocks[b].dirty => blocks[b].valid
  BY <1>1, <1>2 DEF IInv, TypeOK, ValidOK
<1>7. blocks[b].num_writers = 0 /\ (x => blocks[b].num_readers = 0)
  <2>1. blocks[b].num_readers \in Nat /\ blocks[b].num_writers \in Nat
    BY <1>1 DEF CacheBlock
  <2>2. ~Conflict(b, x)
    BY <1>b DEF WakeGrant
  <2> QED
    BY <1>1, <2>1, <2>2 DEF Conflict
<1>8. blocks[b].pending_requests > 0
  BY <1>1, <1>3, UsersCount
<1>9. /\ q \in CacheBlock /\ q.pending_requests = blocks[b].pending_requests - 1
      /\ q.num_readers = blocks[b].num_readers /\ q.num_writers = blocks[b].num_writers
      /\ q.bs_id = blocks[b].bs_id /\ q.valid = blocks[b].valid /\ q.dirty = blocks[b].dirty
  BY <1>q, <1>1, <1>8 DEF CacheBlock, NotPending
<1>10. /\ r \in CacheBlock /\ (r.dirty => r.valid) /\ r.bs_id = blocks[b].bs_id
       /\ r.num_writers = (IF x THEN 1 ELSE 0)
       /\ r.num_readers = (IF x THEN 0 ELSE blocks[b].num_readers + 1)
       /\ r.pending_requests = blocks[b].pending_requests - 1
       /\ blocks[b].valid => r.valid
  BY <1>r, <1>1, <1>6, <1>7, <1>9, CountedAlone
<1>11. Grants(t, b, x, r)
  BY <1>2, <1>3, <1>4, <1>5, <1>6, <1>7, <1>10, <1>b, Zenon DEF Grants
<1> QED
  BY <1>1, <1>10, <1>11, GrantStep

\* What init_block leaves.
LEMMA FreshFields ==
  ASSUME NEW blk \in CacheBlock, NEW s \in Sector
  PROVE  LET q == Fresh(blk, s) IN
         /\ q \in CacheBlock
         /\ ~q.dirty /\ ~q.valid /\ q.bs_id = s
         /\ q.num_readers = 0 /\ q.num_writers = 0 /\ q.pending_requests = 0
  BY Zenon DEF Fresh, CacheBlock

\* writeback keeps the disk well-formed and does not panic.
LEMMA WritebackOK ==
  ASSUME IInv, NEW b \in Block
  PROVE  WrittenDisk(b) \in [Sector -> Value] /\ WrittenPanic(b) = panic
<1>1. blocks[b].bs_id \in Sector /\ blocks[b].data \in Value /\ disk \in [Sector -> Value]
  BY DEF IInv, TypeOK, CacheBlock
<1>2. blocks[b].dirty => blocks[b].valid
  BY DEF IInv, ValidOK
<1> QED
  BY <1>1, <1>2 DEF WrittenDisk, WrittenPanic

\* evict takes its victim; the block changes its sector, but nobody uses it.
LEMMA EvictStep ==
  ASSUME IInv, NEW t \in Thread, Evict(t)
  PROVE  IInv'
<1>b. PICK b, x : b = call[t].i /\ x = call[t].exclusive
  OBVIOUS
<1>q. PICK q : q = Fresh(blocks[b], call[t].sector)
  OBVIOUS
<1>r. PICK r : r = Counted(q, x)
  OBVIOUS
<1>1. /\ b \in Block /\ x \in BOOLEAN /\ blocks[b] \in CacheBlock
      /\ call[t].sector \in Sector /\ num_evict \in Nat
  BY <1>b DEF IInv, TypeOK, Call
<1>2. /\ blocks' = [blocks EXCEPT ![b] = r] /\ GrantTo(t, b, x)
      /\ UNCHANGED <<num_evict, clock, freed>> /\ Unused(b)
  BY <1>b, <1>q, <1>r DEF Evict
<1>3. disk' \in [Sector -> Value] /\ panic' = panic
  BY <1>b, <1>1, WritebackOK, Zenon DEF Evict
<1>4. hold[t][b].mode = "none" /\ t \notin Pending(b)
  BY <1>b, <1>1, <1>2, UsersCount, Zenon DEF Evict, At, Pending
<1>5. \A u \in Thread : u # t => ~(At(u, "token") /\ call[u].i = b)
  BY <1>b DEF Evict, LockFree
<1>6. /\ blocks[b].num_writers = 0 /\ blocks[b].num_readers = 0
      /\ blocks[b].pending_requests = 0
  BY <1>2 DEF Unused
<1>7. /\ q \in CacheBlock /\ ~q.dirty
      /\ q.num_readers = 0 /\ q.num_writers = 0 /\ q.pending_requests = 0
  BY <1>q, <1>1, FreshFields
<1>8. /\ r \in CacheBlock /\ (r.dirty => r.valid)
      /\ r.num_writers = (IF x THEN 1 ELSE 0)
      /\ r.num_readers = (IF x THEN 0 ELSE blocks[b].num_readers + 1)
      /\ r.pending_requests = blocks[b].pending_requests
  BY <1>r, <1>1, <1>6, <1>7, CountedAlone
<1>9. Grants(t, b, x, r)
  BY <1>1, <1>2, <1>3, <1>4, <1>5, <1>6, <1>8, <1>b DEF Grants
<1> QED
  BY <1>1, <1>8, <1>9, GrantStep

\* pending_requests++ and the first half of cond_wait.
LEMMA ProbeWaitStep ==
  ASSUME IInv, NEW t \in Thread, ProbeWait(t)
  PROVE  IInv'
<1>0. TypeOK /\ "window" \in PC
  BY DEF IInv, PC
<1>b. PICK b \in Block : b = call[t].i
  BY <1>0 DEF TypeOK, Call
<1> DEFINE r == [blocks[b] EXCEPT !.pending_requests = @ + 1]
<1>a. CountsOK /\ ModesOK /\ TokensOK /\ WaitsOK /\ AboveHeld /\ ValidOK
  BY DEF IInv
<1>1. blocks[b] \in CacheBlock /\ \A u \in Thread : call[u].i \in Block
  BY <1>0 DEF TypeOK, Call
<1>2. /\ r \in CacheBlock /\ r.pending_requests = blocks[b].pending_requests + 1
      /\ r.num_readers = blocks[b].num_readers /\ r.num_writers = blocks[b].num_writers
      /\ r.bs_id = blocks[b].bs_id /\ r.valid = blocks[b].valid /\ r.dirty = blocks[b].dirty
  BY <1>1 DEF CacheBlock
<1>3. blocks' = [blocks EXCEPT ![b] = r]
  BY <1>b DEF ProbeWait
<1> HIDE DEF r
<1>4. /\ blocks' \in [Block -> CacheBlock]
      /\ \A c \in Block : blocks'[c] = IF c = b THEN r ELSE blocks[c]
  BY <1>0, <1>1, <1>2, <1>3, BlockUpdate, Zenon
<1>c. blocks'[b] = r /\ \A c \in Block : c # b => blocks'[c] = blocks[c]
  BY <1>4, Zenon
<1>5. /\ call' \in [Thread -> Call]
      /\ \A u \in Thread : call'[u] = IF u = t THEN [call[t] EXCEPT !.pc = "window"] ELSE call[u]
  BY <1>0, GotoUpdate DEF ProbeWait
<1>6. /\ call'[t].pc = "window" /\ call'[t].i = b /\ call'[t].sector = call[t].sector
      /\ \A u \in Thread : u # t => call'[u] = call[u]
  BY <1>0, <1>b, <1>5 DEF TypeOK, Call
<1>7. /\ call[t].pc = "probe" /\ LockFree(b) /\ Hit(b, call[t].sector)
      /\ UNCHANGED <<num_evict, clock, disk, hold, freed, panic>>
  BY <1>b DEF ProbeWait, At
<1>8. TypeOK'
  BY <1>0, <1>4, <1>5, <1>7 DEF TypeOK
<1>9. CountsOK'
  <2>1. \A c \in Block : /\ Readers(c)' = Readers(c) /\ Writers(c)' = Writers(c)
                         /\ Pending(c) \in SUBSET Thread
    BY <1>7, Zenon DEF Readers, Writers, Pending
  <2>2. /\ Pending(b)' = Pending(b) \cup {t} /\ t \notin Pending(b)
        /\ \A c \in Block \ {b} : Pending(c)' = Pending(c)
    BY <1>6, <1>7, Zenon DEF Pending
  <2>3. r.pending_requests = Cardinality(Pending(b)')
    <3>1. blocks[b].pending_requests = Cardinality(Pending(b))
      BY <1>a, Zenon DEF CountsOK
    <3>2. Cardinality(Pending(b)') = Cardinality(Pending(b)) + 1
      BY <2>1, <2>2, Finite, FS_AddElement, Zenon
    <3> QED
      BY <1>2, <3>1, <3>2
  <2> QED
    <3>1. \A c \in Block : blocks'[c].pending_requests = Cardinality(Pending(c)')
      BY <1>a, <1>c, <2>2, <2>3, Zenon DEF CountsOK
    <3>2. \A c \in Block : /\ blocks'[c].num_readers = blocks[c].num_readers
                           /\ blocks'[c].num_writers = blocks[c].num_writers
      BY <1>2, <1>c, Zenon
    <3> QED
      BY <1>a, <2>1, <3>1, <3>2, Zenon DEF CountsOK
<1>10. (ModesOK /\ AboveHeld /\ ValidOK)'
  <2>1. \A c \in Block : /\ blocks'[c].bs_id = blocks[c].bs_id /\ blocks'[c].dirty = blocks[c].dirty
                         /\ blocks'[c].valid = blocks[c].valid
                         /\ blocks'[c].num_readers = blocks[c].num_readers
                         /\ blocks'[c].num_writers = blocks[c].num_writers
    BY <1>2, <1>c, Zenon
  <2>2. ModesOK' /\ ValidOK'
    BY <1>a, <1>7, <2>1, Zenon DEF ModesOK, ValidOK
  <2>3. AboveHeld'
    BY <1>a, <1>6, <1>7, <2>1 DEF AboveHeld
  <2> QED
    BY <2>2, <2>3
<1>11. TokensOK'
  <2>1. \A u \in Thread : At(u, "token")' => u # t /\ At(u, "token") /\ call'[u] = call[u] /\ call[u].i # b
    BY <1>6, <1>7, Zenon DEF At, LockFree
  <2>2. ASSUME NEW u \in Thread, At(u, "token")'
        PROVE  /\ Unused(call[u].i) => Unused(call[u].i)'
               /\ Hit(call[u].i, call[u].sector) => Hit(call[u].i, call[u].sector)'
    <3>1. call[u].i \in Block /\ call[u].i # b /\ call'[u] = call[u]
      BY <1>1, <2>1, <2>2, Zenon
    <3>2. blocks'[call'[u].i] = blocks[call[u].i]
      BY <1>c, <3>1, Zenon
    <3> QED
      BY <3>1, <3>2, Zenon DEF Unused, Hit
  <2> QED
    BY <1>a, <2>1, <2>2, Zenon DEF TokensOK
<1>12. WaitsOK'
  <2>1. \A c \in Block : blocks'[c].bs_id = blocks[c].bs_id
    BY <1>2, <1>c, Zenon
  <2> QED
    BY <1>a, <1>1, <1>6, <1>7, <2>1 DEF WaitsOK, Hit
<1> QED
  BY <1>8, <1>9, <1>10, <1>11, <1>12 DEF IInv

\* The steps of cache_get_block and evict that move the caller.
LEMMA MovingSteps ==
  ASSUME IInv, NEW t \in Thread,
         \/ ProbeMiss(t) \/ ProbeUnused(t) \/ Sleep(t) \/ WakeWait(t) \/ EvictDown(t)
         \/ ScanBusy(t) \/ ScanStore(t) \/ ScanNext(t)
  PROVE  IInv'
<1>0. TypeOK /\ SameBlocks
  BY SameBlocksUnchanged DEF IInv, ProbeMiss, ProbeUnused, Sleep, WakeWait, EvictDown,
     ScanBusy, ScanStore, ScanNext
<1>1. /\ call[t] \in Call /\ call[t].i \in Block /\ clock \in Block
      /\ num_evict \in Nat /\ disk \in [Sector -> Value]
  BY <1>0 DEF TypeOK, Call
<1>2. \/ call[t].pc \in {"client", "flush"}
      \/ \A b \in Block : hold[t][b].mode # "none" => blocks[b].bs_id < call[t].sector
  BY DEF IInv, AboveHeld
<1>3. CASE ProbeMiss(t)
  <2> DEFINE k == IF call[t].i + 1 < CACHE_LIMIT THEN [call[t] EXCEPT !.i = @ + 1]
                  ELSE [call[t] EXCEPT !.pc = "down"]
  <2>1. /\ k \in Call /\ k.pc \in {"probe", "down"} /\ k.sector = call[t].sector
    BY <1>1, <1>3, LimitAssumption DEF ProbeMiss, At, Call, PC
  <2>2. call' = [call EXCEPT ![t] = k] /\ call[t].pc = "probe"
    BY <1>3 DEF ProbeMiss, Goto, At
  <2> HIDE DEF k
  <2>3. Moves(t, k)
    BY <1>1, <1>2, <1>3, <2>1, <2>2 DEF Moves, InWait, ProbeMiss
  <2> QED
    BY <1>0, <2>1, <2>3, MoveStep
<1>4. CASE ProbeUnused(t)
  <2> DEFINE k == [call[t] EXCEPT !.pc = "token"]
  <2>1. /\ k \in Call /\ k.pc = "token" /\ k.sector = call[t].sector /\ k.i = call[t].i
    BY <1>1 DEF Call, PC
  <2>2. call' = [call EXCEPT ![t] = k] /\ call[t].pc = "probe"
    BY <1>4 DEF ProbeUnused, Goto, At
  <2> HIDE DEF k
  <2>3. Moves(t, k)
    BY <1>1, <1>2, <1>4, <2>1, <2>2, Zenon DEF Moves, InWait, ProbeUnused
  <2> QED
    BY <1>0, <2>1, <2>3, MoveStep
<1>5. CASE Sleep(t) \/ WakeWait(t)
  <2> DEFINE k == [call[t] EXCEPT !.pc = IF Sleep(t) THEN "asleep" ELSE "window"]
  <2>1. /\ k \in Call /\ k.pc \in {"asleep", "window"} /\ k.sector = call[t].sector
        /\ k.i = call[t].i
    BY <1>1 DEF Call, PC
  <2>2. call' = [call EXCEPT ![t] = k] /\ call[t].pc \in {"window", "woken"}
    BY <1>5 DEF Sleep, WakeWait, Goto, At
  <2> HIDE DEF k
  <2>3. Moves(t, k)
    BY <1>1, <1>2, <1>5, <2>1, <2>2, Zenon DEF Moves, InWait, Sleep, WakeWait
  <2> QED
    BY <1>0, <2>1, <2>3, MoveStep, Zenon
<1>6. CASE EvictDown(t)
  <2> DEFINE k == [call[t] EXCEPT !.pc = "scan", !.i = clock]
  <2>1. /\ k \in Call /\ k.pc = "scan" /\ k.sector = call[t].sector
    BY <1>1, Zenon DEF Call, PC
  <2>2. call' = [call EXCEPT ![t] = k] /\ call[t].pc = "down"
    BY <1>6, Zenon DEF EvictDown, At
  <2>4. num_evict' \in Nat
    BY <1>1, <1>6 DEF EvictDown
  <2> HIDE DEF k
  <2>3. Moves(t, k)
    BY <1>1, <1>2, <1>6, <2>1, <2>2, <2>4, Zenon DEF Moves, InWait, EvictDown
  <2> QED
    BY <1>0, <2>1, <2>3, MoveStep, Zenon
<1>7. CASE ScanBusy(t) \/ ScanStore(t)
  <2> DEFINE k == [call[t] EXCEPT !.pc = IF ScanBusy(t) THEN "store" ELSE "next"]
  <2>1. /\ k \in Call /\ k.pc \in {"store", "next"} /\ k.sector = call[t].sector
    BY <1>1 DEF Call, PC
  <2>2. /\ call' = [call EXCEPT ![t] = k] /\ call[t].pc \in {"scan", "store"}
        /\ clock' \in Block
    BY <1>1, <1>7 DEF ScanBusy, ScanStore, Goto, At
  <2> HIDE DEF k
  <2>3. Moves(t, k)
    BY <1>1, <1>2, <1>7, <2>1, <2>2, Zenon DEF Moves, InWait, ScanBusy, ScanStore
  <2> QED
    BY <1>0, <2>1, <2>3, MoveStep
<1>8. CASE ScanNext(t)
  <2> DEFINE j == (clock + 1 + CACHE_LIMIT) % CACHE_LIMIT
             k == [call[t] EXCEPT !.pc = "scan", !.i = j]
  <2>0. j \in Block
    BY <1>1, LimitAssumption
  <2>1. call' = [call EXCEPT ![t] = k] /\ call[t].pc = "next"
    BY <1>8, Zenon DEF ScanNext, At
  <2> HIDE DEF j
  <2>2. /\ k \in Call /\ k.pc = "scan" /\ k.sector = call[t].sector
    BY <1>1, <2>0, Zenon DEF Call, PC
  <2> HIDE DEF k
  <2>3. Moves(t, k)
    BY <1>1, <1>2, <1>8, <2>1, <2>2, Zenon DEF Moves, InWait, ScanNext
  <2> QED
    BY <1>0, <2>2, <2>3, MoveStep, Zenon
<1> QED
  BY <1>3, <1>4, <1>5, <1>6, <1>7, <1>8

\* The start of cache_get_block.
LEMMA GetStep ==
  ASSUME IInv, NEW t \in Thread, NEW s \in Sector, NEW x \in BOOLEAN, Get(t, s, x)
  PROVE  IInv'
<1> DEFINE k == [pc |-> "probe", sector |-> s, exclusive |-> x, i |-> 0]
<1>0. TypeOK /\ SameBlocks
  BY SameBlocksUnchanged DEF IInv, Get
<1>1. k \in Call /\ k.pc = "probe" /\ k.sector = s
  BY LimitAssumption DEF Call, PC
<1>2. /\ call' = [call EXCEPT ![t] = k] /\ call[t].pc = "client"
      /\ \A b \in Block : hold[t][b].mode # "none" => blocks[b].bs_id < s
  BY DEF Get, At, Held
<1> HIDE DEF k
<1>3. Moves(t, k)
  BY <1>0, <1>1, <1>2, Zenon DEF Moves, InWait, Get, TypeOK
<1> QED
  BY <1>0, <1>1, <1>3, MoveStep

\* cache_flush writes blocks back and clears their dirty bits.
LEMMA FlushSteps ==
  ASSUME IInv, NEW t \in Thread, Flush(t) \/ FlushBlock(t)
  PROVE  IInv'
<1>0. TypeOK /\ call[t] \in Call /\ call[t].i \in Block
  BY DEF IInv, TypeOK, Call
<1>1. CASE Flush(t)
  <2> DEFINE k == [call[t] EXCEPT !.pc = "flush", !.i = 0]
  <2>0. 0 \in Block /\ "flush" \in PC
    BY LimitAssumption DEF PC
  <2>1. k \in Call /\ k.pc = "flush"
    BY <1>0, <2>0, Zenon DEF Call
  <2>2. call' = [call EXCEPT ![t] = k] /\ call[t].pc = "client"
    BY <1>1, Zenon DEF Flush, At
  <2> HIDE DEF k
  <2>3. SameBlocks
    BY <1>0, <1>1, SameBlocksUnchanged DEF Flush
  <2>4. Moves(t, k)
    BY <1>0, <1>1, <2>1, <2>2, Zenon DEF Moves, InWait, Flush, TypeOK
  <2> QED
    BY <2>1, <2>3, <2>4, MoveStep
<1>2. CASE FlushBlock(t)
  <2> DEFINE k == IF call[t].i + 1 < CACHE_LIMIT THEN [call[t] EXCEPT !.i = @ + 1]
                  ELSE [call[t] EXCEPT !.pc = "client"]
  <2>b. PICK b \in Block : b = call[t].i
    BY <1>0
  <2>1. call[t].pc = "flush"
    BY <1>2 DEF FlushBlock, At
  <2>2. k \in Call /\ k.pc \in {"flush", "client"}
    BY <1>0, <2>1, LimitAssumption DEF Call, PC
  <2>3. call' = [call EXCEPT ![t] = k]
    BY <1>2 DEF FlushBlock, Goto
  <2> HIDE DEF k
  <2>4. SameBlocks
    <3>1. CASE ~NeedsWrite(b)
      BY <1>0, <1>2, <2>b, <3>1, SameBlocksUnchanged DEF FlushBlock
    <3>2. CASE NeedsWrite(b)
      <4> DEFINE r == [blocks[b] EXCEPT !.dirty = FALSE]
      <4>0. blocks[b] \in CacheBlock
        BY <1>0 DEF TypeOK
      <4>1. r \in CacheBlock
        BY <4>0, Zenon DEF CacheBlock
      <4>2. /\ r.num_readers = blocks[b].num_readers /\ r.num_writers = blocks[b].num_writers
            /\ r.pending_requests = blocks[b].pending_requests /\ r.bs_id = blocks[b].bs_id
            /\ r.valid = blocks[b].valid /\ ~r.dirty
        BY <4>0 DEF CacheBlock
      <4>3. blocks' = [blocks EXCEPT ![b] = r]
        BY <1>2, <2>b, <3>2 DEF FlushBlock
      <4> HIDE DEF r
      <4>4. /\ blocks' \in [Block -> CacheBlock]
            /\ \A c \in Block : blocks'[c] = IF c = b THEN r ELSE blocks[c]
        BY <1>0, <4>1, <4>3, BlockUpdate, Zenon
      <4> QED
        BY <4>2, <4>4 DEF SameBlocks
    <3> QED
      BY <3>1, <3>2
  <2>5. disk' \in [Sector -> Value] /\ panic' = panic
    BY <1>2, <2>b, WritebackOK DEF FlushBlock
  <2>6. Moves(t, k)
    BY <1>0, <1>2, <2>1, <2>2, <2>3, <2>5 DEF Moves, InWait, FlushBlock, TypeOK
  <2> QED
    BY <2>2, <2>4, <2>6, MoveStep
<1> QED
  BY <1>1, <1>2

\* cache_put_block.  The waiters it wakes stay in cond_wait, and go on counting
\* as pending, until they have the lock again.
LEMMA PutStep ==
  ASSUME IInv, NEW t \in Thread, NEW b \in Block, Put(t, b)
  PROVE  IInv'
<1> DEFINE r == Released(blocks[b])
<1>0. TypeOK /\ NoGrant \in Grant /\ blocks[b] \in CacheBlock
  BY DEF IInv, TypeOK, NoGrant, Grant, Mode, Phase
<1>a. CountsOK /\ ModesOK /\ TokensOK /\ WaitsOK /\ AboveHeld /\ ValidOK
  BY DEF IInv
<1>b. blocks[b].num_readers \in Nat /\ blocks[b].num_writers \in Nat
  BY <1>0 DEF CacheBlock
<1>1. /\ hold[t][b].mode = "shared" => blocks[b].num_readers > 0 /\ blocks[b].num_writers = 0
      /\ hold[t][b].mode = "exclusive" => blocks[b].num_writers = 1 /\ blocks[b].num_readers = 0
      /\ hold[t][b].mode \in {"shared", "exclusive"}
  <2>1. hold[t][b].mode \in {"shared", "exclusive"}
    <3>1. hold[t][b] \in Grant /\ hold[t][b].mode # "none"
      BY <1>0, Zenon DEF TypeOK, Put, MayPut
    <3> QED
      BY <3>1 DEF Grant, Mode
  <2>2. /\ hold[t][b].mode = "shared" => blocks[b].num_readers > 0
        /\ hold[t][b].mode = "exclusive" => blocks[b].num_writers > 0
    BY UsersCount
  <2> QED
    BY <1>a, <1>b, <2>1, <2>2 DEF ModesOK
<1>2. /\ r \in CacheBlock
      /\ r.bs_id = blocks[b].bs_id /\ r.valid = blocks[b].valid /\ r.dirty = blocks[b].dirty
      /\ r.pending_requests = blocks[b].pending_requests
      /\ r.num_readers = (IF hold[t][b].mode = "shared" THEN blocks[b].num_readers - 1
                          ELSE blocks[b].num_readers)
      /\ r.num_writers = (IF hold[t][b].mode = "shared" THEN blocks[b].num_writers ELSE 0)
  <2>1. CASE hold[t][b].mode = "shared"
    BY <1>0, <1>1, <2>1 DEF Released, CacheBlock
  <2>2. CASE hold[t][b].mode = "exclusive"
    BY <1>0, <1>1, <2>2 DEF Released, CacheBlock
  <2> QED
    BY <1>1, <2>1, <2>2, Zenon
<1>3. blocks' = [blocks EXCEPT ![b] = r] /\ hold' = [hold EXCEPT ![t][b] = NoGrant]
  BY DEF Put
<1> HIDE DEF r
<1>4. /\ blocks' \in [Block -> CacheBlock]
      /\ \A c \in Block : blocks'[c] = IF c = b THEN r ELSE blocks[c]
  BY <1>0, <1>2, <1>3, BlockUpdate, Zenon
<1>c. blocks'[b] = r /\ \A c \in Block : c # b => blocks'[c] = blocks[c]
  BY <1>4, Zenon
<1>5. /\ hold' \in [Thread -> [Block -> Grant]]
      /\ \A u \in Thread, c \in Block :
              hold'[u][c] = IF u = t /\ c = b THEN NoGrant ELSE hold[u][c]
  BY <1>0, <1>3, HoldUpdate, Zenon
<1>6. NoGrant.mode = "none"
  BY DEF NoGrant
<1>7. /\ call' \in [Thread -> Call]
      /\ \A u \in Thread : /\ call'[u].i = call[u].i /\ call'[u].sector = call[u].sector
                           /\ \/ call'[u].pc = call[u].pc
                              \/ InWait(call[u]) /\ InWait(call'[u])
  <2>1. PICK ws \in Woken(b) :
          call' = [u \in Thread |-> IF u \in ws THEN [call[u] EXCEPT !.pc = "woken"]
                                    ELSE call[u]]
    BY DEF Put
  <2>2. ws \subseteq Waiters(b, TRUE) \cup Waiters(b, FALSE)
    BY <2>1, Zenon DEF Woken, OneWriter
  <2>3. \A u \in Thread : u \in ws => InWait(call[u])
    BY <2>2 DEF Waiters, InWait
  <2>4. \A u \in Thread : /\ call[u] \in Call /\ [call[u] EXCEPT !.pc = "woken"] \in Call
                          /\ [call[u] EXCEPT !.pc = "woken"].i = call[u].i
                          /\ [call[u] EXCEPT !.pc = "woken"].sector = call[u].sector
                          /\ [call[u] EXCEPT !.pc = "woken"].pc = "woken"
    BY <1>0, Zenon DEF TypeOK, Call, PC
  <2> QED
    BY <2>1, <2>3, <2>4 DEF InWait
<1>8. TypeOK'
  <2>1. num_evict' \in Nat
    BY <1>0 DEF Put, Evictable, TypeOK
  <2> QED
    BY <1>0, <1>4, <1>5, <1>7, <2>1 DEF TypeOK, Put
<1>9. CountsOK'
  <2>1. \A c \in Block : /\ Readers(c) \in SUBSET Thread /\ Writers(c) \in SUBSET Thread
                         /\ Pending(c)' = Pending(c)
    BY <1>7, Zenon DEF Readers, Writers, Pending, InWait
  <2>2. \A c \in Block \ {b} : Readers(c)' = Readers(c) /\ Writers(c)' = Writers(c)
    BY <1>5 DEF Readers, Writers
  <2>3. Readers(b)' = Readers(b) \ {t} /\ Writers(b)' = Writers(b) \ {t}
    BY <1>5, <1>6 DEF Readers, Writers
  <2>4. /\ t \in Readers(b) <=> hold[t][b].mode = "shared"
        /\ t \in Writers(b) <=> hold[t][b].mode = "exclusive"
    BY DEF Readers, Writers
  <2>5. /\ Cardinality(Readers(b)') = IF t \in Readers(b) THEN Cardinality(Readers(b)) - 1
                                      ELSE Cardinality(Readers(b))
        /\ Cardinality(Writers(b)') = IF t \in Writers(b) THEN Cardinality(Writers(b)) - 1
                                      ELSE Cardinality(Writers(b))
    BY <2>1, <2>3, Finite, FS_RemoveElement
  <2>6. r.num_readers = Cardinality(Readers(b)') /\ r.num_writers = Cardinality(Writers(b)')
    <3>1. /\ blocks[b].num_readers = Cardinality(Readers(b))
          /\ blocks[b].num_writers = Cardinality(Writers(b))
      BY <1>a, Zenon DEF CountsOK
    <3> QED
      BY <1>b, <1>1, <1>2, <2>4, <2>5, <3>1
  <2> QED
    BY <1>2, <1>c, <1>a, <2>1, <2>2, <2>6 DEF CountsOK
<1>10. ModesOK'
  <2>1. r.num_writers <= 1 /\ (r.num_writers = 1 => r.num_readers = 0)
    BY <1>a, <1>b, <1>1, <1>2 DEF ModesOK
  <2> QED
    BY <1>a, <1>c, <2>1, Zenon DEF ModesOK
<1>11. TokensOK'
  <2>1. \A u \in Thread : call[u].i \in Block
    BY <1>0 DEF TypeOK, Call
  <2>2. \A u \in Thread : At(u, "token")' => At(u, "token") /\ call[u].i # b
    BY <1>7 DEF At, InWait, Put, MayPut, LockFree
  <2> QED
    <3>1. ASSUME NEW u \in Thread, At(u, "token")'
          PROVE  /\ At(u, "token") /\ call'[u].i = call[u].i
                 /\ Unused(call[u].i) => Unused(call[u].i)'
                 /\ Hit(call[u].i, call[u].sector) => Hit(call[u].i, call[u].sector)'
      <4>1. At(u, "token") /\ call[u].i # b /\ call[u].i \in Block
        BY <2>1, <2>2, <3>1, Zenon
      <4>2. /\ call'[u].i = call[u].i /\ call'[u].sector = call[u].sector
            /\ blocks'[call'[u].i] = blocks[call[u].i]
        BY <1>7, <1>c, <4>1, Zenon
      <4> QED
        BY <4>1, <4>2, Zenon DEF Unused, Hit
    <3> QED
      BY <1>a, <3>1, Zenon DEF TokensOK
<1>12. WaitsOK'
  <2>1. ASSUME NEW u \in Thread PROVE blocks'[call'[u].i].bs_id = blocks[call[u].i].bs_id
    <3>1. call[u].i \in Block /\ call'[u].i = call[u].i
      BY <1>0, <1>7 DEF TypeOK, Call
    <3> QED
      BY <1>2, <1>c, <3>1, Zenon
  <2> QED
    BY <1>a, <1>7, <2>1 DEF WaitsOK, InWait
<1>13. AboveHeld'
  <2>1. \A c \in Block : blocks'[c].bs_id = blocks[c].bs_id
    BY <1>2, <1>c, Zenon
  <2> QED
    BY <1>a, <1>5, <1>6, <1>7, <2>1, Zenon DEF AboveHeld, InWait
<1>14. ValidOK'
  <2>1. \A c \in Block : blocks'[c].dirty = blocks[c].dirty /\ blocks'[c].valid = blocks[c].valid
    BY <1>2, <1>c, Zenon
  <2>2. panic' = panic
    BY DEF Put
  <2> QED
    BY <1>a, <1>5, <1>6, <2>1, <2>2 DEF ValidOK
<1> QED
  BY <1>8, <1>9, <1>10, <1>11, <1>12, <1>13, <1>14 DEF IInv

-----------------------------------------------------------------------------
\* Steps that change at most panic.
LEMMA IdleStep ==
  ASSUME IInv, UNCHANGED <<blocks, num_evict, clock, disk, call, hold, freed>>,
         panic' \in {"none", "cond_signal"}
  PROVE  IInv'
<1>1. TypeOK'
  BY DEF IInv, TypeOK
<1>2. CountsOK'
  <2>1. \A b \in Block : /\ Readers(b)' = Readers(b) /\ Writers(b)' = Writers(b)
                         /\ Pending(b)' = Pending(b)
    BY Zenon DEF Readers, Writers, Pending
  <2> QED
    BY <2>1, Zenon DEF IInv, CountsOK
<1>3. ModesOK' /\ WaitsOK' /\ AboveHeld'
  BY DEF IInv, ModesOK, WaitsOK, AboveHeld
<1>4. TokensOK'
  BY Zenon DEF IInv, TokensOK, At, Unused, Hit
<1>5. ValidOK'
  BY DEF IInv, ValidOK
<1> QED
  BY <1>1, <1>2, <1>3, <1>4, <1>5 DEF IInv

\* A block granted to a reader or a writer is not unused.
LEMMA GrantedInUse ==
  ASSUME NEW r \in CacheBlock, NEW x \in BOOLEAN
  PROVE  /\ Counted(r, x) \in CacheBlock
         /\ ~(Counted(r, x).num_readers = 0 /\ Counted(r, x).num_writers = 0)
<1>1. r.num_readers \in Nat /\ r.num_writers \in Nat
  BY DEF CacheBlock
<1>2. Counted(r, x) \in CacheBlock
  BY CountedFields
<1>3. /\ Counted(r, x).num_writers = IF x THEN r.num_writers + 1 ELSE r.num_writers
      /\ Counted(r, x).num_readers = IF x THEN r.num_readers ELSE r.num_readers + 1
  BY CountedFields
<1>4. \A n \in Nat : n + 1 # 0
  OBVIOUS
<1> QED
  BY <1>1, <1>2, <1>3, <1>4

\* The accesses to a block's data and flags change no counter.
LEMMA DataCounters ==
  ASSUME IInv, NEW t \in Thread, NEW b \in Block,
         \/ Read(t, b) \/ ZeroBlock(t, b) \/ MarkDirty(t, b) \/ MarkDeleted(t, b)
         \/ PutPanic(t, b) \/ \E v \in Value : Modify(t, b, v)
  PROVE  /\ num_evict' = num_evict /\ call' = call
         /\ \A c \in Block : /\ blocks'[c].num_readers = blocks[c].num_readers
                             /\ blocks'[c].num_writers = blocks[c].num_writers
                             /\ blocks'[c].pending_requests = blocks[c].pending_requests
<1>0. blocks \in [Block -> CacheBlock] /\ blocks[b] \in CacheBlock
  BY DEF IInv, TypeOK
<1>1. num_evict' = num_evict /\ call' = call
  BY DEF Read, ZeroBlock, MarkDirty, MarkDeleted, PutPanic, Modify
<1>2. \A c \in Block : /\ blocks'[c].num_readers = blocks[c].num_readers
                       /\ blocks'[c].num_writers = blocks[c].num_writers
                       /\ blocks'[c].pending_requests = blocks[c].pending_requests
  <2>1. CASE Read(t, b)
    BY <1>0, <2>1 DEF Read, CacheBlock
  <2>2. CASE ZeroBlock(t, b)
    BY <1>0, <2>2 DEF ZeroBlock, CacheBlock
  <2>3. CASE MarkDirty(t, b)
    BY <1>0, <2>3 DEF MarkDirty, CacheBlock
  <2>4. CASE MarkDeleted(t, b)
    BY <1>0, <2>4 DEF MarkDeleted, CacheBlock
  <2>5. CASE PutPanic(t, b)
    BY <2>5 DEF PutPanic
  <2>6. ASSUME NEW v \in Value, Modify(t, b, v)
        PROVE  \A c \in Block : /\ blocks'[c].num_readers = blocks[c].num_readers
                                /\ blocks'[c].num_writers = blocks[c].num_writers
                                /\ blocks'[c].pending_requests = blocks[c].pending_requests
    BY <1>0, <2>6 DEF Modify, CacheBlock
  <2> QED
    BY <2>1, <2>2, <2>3, <2>4, <2>5, <2>6, Zenon
<1> QED
  BY <1>1, <1>2

\* cache_flush writes blocks back and changes no counter.
LEMMA FlushCounters ==
  ASSUME IInv, NEW t \in Thread, FlushBlock(t)
  PROVE  /\ num_evict' = num_evict
         /\ \A c \in Block : /\ blocks'[c].num_readers = blocks[c].num_readers
                             /\ blocks'[c].num_writers = blocks[c].num_writers
                             /\ blocks'[c].pending_requests = blocks[c].pending_requests
         /\ call[t].pc = "flush" /\ call'[t].pc \in {"flush", "client"}
         /\ \A u \in Thread : u # t => call'[u] = call[u]
<1>0. /\ call \in [Thread -> Call] /\ call[t] \in Call
      /\ blocks \in [Block -> CacheBlock]
  BY DEF IInv, TypeOK
<1>b. PICK b \in Block : b = call[t].i
  BY <1>0 DEF Call
<1>1. num_evict' = num_evict
  BY DEF FlushBlock
<1>2. \A c \in Block : /\ blocks'[c].num_readers = blocks[c].num_readers
                       /\ blocks'[c].num_writers = blocks[c].num_writers
                       /\ blocks'[c].pending_requests = blocks[c].pending_requests
  BY <1>0, <1>b DEF FlushBlock, CacheBlock
<1>3. \A u \in Thread : u # t => call'[u] = call[u]
  BY <1>0 DEF FlushBlock, Goto
<1>4. call[t].pc = "flush" /\ call'[t].pc \in {"flush", "client"}
  BY <1>0 DEF FlushBlock, Goto, At, Call
<1> QED
  BY <1>1, <1>2, <1>3, <1>4

\* The invariant is inductive.
LEMMA NextIInv == IInv /\ [Next]_vars => IInv'
<1> SUFFICES ASSUME IInv, [Next]_vars
             PROVE  IInv'
  OBVIOUS
<1>1. CASE UNCHANGED vars
  BY <1>1, IdleStep, Zenon DEF vars, IInv, TypeOK, ValidOK
<1>2. ASSUME NEW t \in Thread, Step(t)
      PROVE  IInv'
  <2>1. ASSUME NEW s \in Sector, NEW x \in BOOLEAN, Get(t, s, x)
        PROVE  IInv'
    BY <2>1, GetStep
  <2>2. CASE InGet(t)
    BY <2>2, MovingSteps, ProbeShareStep, ProbeWaitStep, TokenStep, WakeGrantStep, EvictStep
       DEF InGet
  <2>3. ASSUME NEW b \in Block, OnBlock(t, b)
        PROVE  IInv'
    <3>1. CASE PutPanic(t, b)
      BY <3>1, IdleStep DEF PutPanic
    <3>2. ASSUME NEW v \in Value, Modify(t, b, v)
          PROVE  IInv'
      BY <3>2, ModifyStep
    <3> QED
      BY <2>3, <3>1, <3>2, PutStep, ReadStep, ZeroStep, MarkDirtyStep, MarkDeletedStep DEF OnBlock
  <2>4. CASE Flush(t) \/ FlushBlock(t)
    BY <2>4, FlushSteps
  <2> QED
    BY <1>2, <2>1, <2>2, <2>3, <2>4 DEF Step
<1> QED
  BY <1>1, <1>2 DEF Next, Halted

\* The counters of every block count its users and waiters in every reachable
\* state of the cache.
THEOREM Invariance == Spec => []IInv
  BY InitIInv, NextIInv, PTL DEF Spec

\* The record types of BufferCache are never left: in particular no counter of
\* a block goes below zero in cache_put_block or cache_get_block.
THEOREM TypeCorrect == Spec => []TypeOK
<1>1. IInv => TypeOK
  BY DEF IInv
<1> QED
  BY <1>1, Invariance, PTL

\* The counters leave no room for a second user beside a writer.
LEMMA SoleWriter == IInv => Exclusion
<1>1. ASSUME IInv, NEW b \in Block, NEW t \in Thread, NEW u \in Thread,
             t # u, hold[t][b].mode = "exclusive"
      PROVE  hold[u][b].mode = "none"
  <2>1. /\ blocks[b].num_writers = 1 /\ blocks[b].num_readers = 0
    BY <1>1, UsersCount DEF IInv, ModesOK, TypeOK, CacheBlock
  <2>2. hold[u][b].mode # "shared"
    BY <1>1, <2>1, UsersCount
  <2>3. hold[u][b].mode # "exclusive"
    <3>1. Writers(b) \in SUBSET Thread /\ t \in Writers(b) /\ Cardinality(Writers(b)) = 1
      BY <1>1, <2>1 DEF Writers, IInv, CountsOK
    <3>2. u \notin Writers(b)
      BY <1>1, <3>1, Finite, FS_Singleton
    <3> QED
      BY <3>2, Zenon DEF Writers
  <2>4. hold[u][b].mode \in {"none", "shared", "exclusive"}
    BY <1>1, Zenon DEF IInv, TypeOK, Grant, Mode
  <2> QED
    BY <2>2, <2>3, <2>4
<1> QED
  BY <1>1 DEF Exclusion

\* A thread with exclusive access to a block is its only user, for any number
\* of threads and blocks.
THEOREM ExclusiveAccess == Spec => []Exclusion
  BY SoleWriter, Invariance, PTL

\* writeback never meets a dirty block that is not valid.
THEOREM WritebackNeverPanics == Spec => []NoWritebackPanic
<1>1. IInv => NoWritebackPanic
  BY DEF IInv, ValidOK, NoWritebackPanic
<1> QED
  BY <1>1, Invariance, PTL

\* The ASSERTs on bs_id in cache_get_block hold.
THEOREM SectorAsserts == Spec => []WaitsForItsSector
<1>1. IInv => WaitsForItsSector
  BY DEF IInv, TokensOK, WaitsOK, WaitsForItsSector, At, Hit
<1> QED
  BY <1>1, Invariance, PTL
=============================================================================
