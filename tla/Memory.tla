------------------------------- MODULE Memory ------------------------------
(***************************************************************************)
(* Kernel memory: the page pools of threads/palloc.c and the arenas of     *)
(* threads/malloc.c on top of them.  Threads allocate and free             *)
(* concurrently; a step ends where the code takes a lock, or where a page  *)
(* may be freed without the pool's lock between two of its bits.           *)
(***************************************************************************)
EXTENDS Integers, Sequences, FiniteSets

CONSTANTS
  Allocator,         \* the threads
  FreePages,         \* pages of memory after the first megabyte
  UserLimit,         \* palloc_init's user_page_limit
  BitsPerPage,       \* how many pages one page of bitmap describes
  PGSIZE, ArenaSize, \* sizes of a page and of the arena header
  MinBlock,          \* the smallest block size, 16 in the code
  Sizes,             \* sizes that malloc is called with
  NoAllocator

ASSUME MemoryConstants == PGSIZE > ArenaSize /\ MinBlock > 0 /\ FreePages \in Nat

VARIABLES
  used_map,     \* the marked pages, of both pools
  pool_lock, desc_lock,
  free_list,    \* the free blocks of each descriptor
  arena,        \* the arena header of each page that has one
  live,         \* the blocks that threads have
  user_live,    \* the user pages that threads have
  doing         \* what each thread does

memoryVars == <<used_map, pool_lock, desc_lock, free_list, arena, live, user_live, doing>>

DivRoundUp(x, y) == (x + y - 1) \div y
LeastOf(S) == CHOOSE x \in S : \A y \in S : x <= y

-----------------------------------------------------------------------------
(* palloc_init, init_pool: each pool begins with its bitmap's pages.       *)
UserPages == IF FreePages \div 2 > UserLimit THEN UserLimit ELSE FreePages \div 2
KernelPages == FreePages - UserPages
Pool(base, cnt) == (base + DivRoundUp(cnt, BitsPerPage))..(base + cnt - 1)
palloc_init == [kernel |-> Pool(0, KernelPages), user |-> Pool(KernelPages, UserPages)]
Pools == {"kernel", "user"}

(* bitmap_scan: where cnt free pages in a row begin.                       *)
Fits(pool, cnt) == {p \in palloc_init[pool] : p..(p + cnt - 1) \subseteq palloc_init[pool] \ used_map}

(* malloc_init: the block sizes, by doubling.                              *)
malloc_init == {MinBlock * 2^k : k \in {j \in 0..10 : MinBlock * 2^j < PGSIZE \div 2}}
blocks_per_arena(d) == (PGSIZE - ArenaSize) \div d

-----------------------------------------------------------------------------
NoRequest == [op |-> "none"]
MemAt(t, at) == doing[t].op # "none" /\ doing[t].at = at
MemGoes(t, at) == doing' = [doing EXCEPT ![t].at = at]
arena_to_block(a, i, d) == [page |-> a, ofs |-> ArenaSize + i * d, size |-> d]
block_to_arena(b) == b.page

(* malloc of a size: the smallest descriptor that satisfies it, or pages.  *)
malloc(t, size) ==
  LET fit == {d \in malloc_init : d >= size}
      d == IF fit = {} THEN 0 ELSE LeastOf(fit)
  IN /\ doing[t] = NoRequest
     /\ doing' = [doing EXCEPT ![t] = [op |-> "malloc", d |-> d, size |-> size, pool |-> "kernel",
                                       cnt |-> IF d = 0 THEN DivRoundUp(size + ArenaSize, PGSIZE) ELSE 1,
                                       page |-> -1, at |-> IF d = 0 THEN "pool" ELSE "desc"]]
     /\ UNCHANGED <<used_map, pool_lock, desc_lock, free_list, arena, live, user_live>>

(* palloc_get_page for a user page.                                        *)
palloc_get_user(t) ==
  /\ doing[t] = NoRequest
  /\ doing' = [doing EXCEPT ![t] = [op |-> "page", d |-> 0, size |-> 0, pool |-> "user", cnt |-> 1,
                                    page |-> -1, at |-> "pool"]]
  /\ UNCHANGED <<used_map, pool_lock, desc_lock, free_list, arena, live, user_live>>

(* The descriptor's lock; a block is there or a new arena is needed.       *)
LockDesc(t) ==
  /\ MemAt(t, "desc") /\ desc_lock[doing[t].d] = NoAllocator
  /\ desc_lock' = [desc_lock EXCEPT ![doing[t].d] = t]
  /\ MemGoes(t, IF doing[t].op = "free" THEN "push" ELSE IF free_list[doing[t].d] = <<>> THEN "pool" ELSE "pop")
  /\ UNCHANGED <<used_map, pool_lock, free_list, arena, live, user_live>>

(* palloc_get_multiple: lock, scan, mark bit by bit, unlock.  Pages that   *)
(* another thread frees meanwhile are not seen or left free.               *)
LockPool(t) ==
  /\ MemAt(t, "pool") /\ pool_lock[doing[t].pool] = NoAllocator
  /\ pool_lock' = [pool_lock EXCEPT ![doing[t].pool] = t]
  /\ MemGoes(t, "scan")
  /\ UNCHANGED <<used_map, desc_lock, free_list, arena, live, user_live>>

bitmap_scan(t) ==
  LET at == Fits(doing[t].pool, doing[t].cnt)
  IN /\ MemAt(t, "scan")
     /\ doing' = [doing EXCEPT ![t].page = IF at = {} THEN -1 ELSE LeastOf(at),
                               ![t].at = IF at = {} THEN "none" ELSE "mark"]
     /\ pool_lock' = IF at = {} THEN [pool_lock EXCEPT ![doing[t].pool] = NoAllocator] ELSE pool_lock
     /\ UNCHANGED <<used_map, desc_lock, free_list, arena, live, user_live>>

(* The bits are set; a failed call leaves with a null pointer.             *)
bitmap_set_multiple(t) ==
  LET pages == doing[t].page..(doing[t].page + doing[t].cnt - 1)
  IN /\ MemAt(t, "mark")
     /\ used_map' = used_map \cup {LeastOf(pages \ used_map)}
     /\ IF pages \subseteq used_map' THEN MemGoes(t, "got") ELSE UNCHANGED doing
     /\ pool_lock' = IF pages \subseteq used_map' THEN [pool_lock EXCEPT ![doing[t].pool] = NoAllocator]
                     ELSE pool_lock
     /\ UNCHANGED <<desc_lock, free_list, arena, live, user_live>>

DescUnlocked(t) == IF doing[t].d = 0 THEN desc_lock ELSE [desc_lock EXCEPT ![doing[t].d] = NoAllocator]

OutOfMemory(t) ==
  /\ MemAt(t, "none")
  /\ desc_lock' = DescUnlocked(t) /\ doing' = [doing EXCEPT ![t] = NoRequest]
  /\ UNCHANGED <<used_map, pool_lock, free_list, arena, live, user_live>>

(* The page is a user page, a big block, or a new arena whose blocks all   *)
(* go to the free list.                                                    *)
GotPages(t) ==
  LET w == doing[t]
      n == blocks_per_arena(w.d)
  IN /\ MemAt(t, "got")
     /\ CASE w.op = "page" ->
               /\ user_live' = user_live \cup {w.page} /\ doing' = [doing EXCEPT ![t] = NoRequest]
               /\ UNCHANGED <<arena, live, free_list>>
          [] w.op # "page" /\ w.d = 0 ->
               /\ arena' = [arena EXCEPT ![w.page] = [d |-> 0, free_cnt |-> w.cnt]]
               /\ live' = live \cup {[page |-> w.page, ofs |-> ArenaSize, size |-> w.size]}
               /\ doing' = [doing EXCEPT ![t] = NoRequest] /\ UNCHANGED <<free_list, user_live>>
          [] OTHER ->
               /\ arena' = [arena EXCEPT ![w.page] = [d |-> w.d, free_cnt |-> n]]
               /\ free_list' = [free_list EXCEPT ![w.d] = @ \o [i \in 1..n |-> arena_to_block(w.page, i - 1, w.d)]]
               /\ MemGoes(t, "pop") /\ UNCHANGED <<live, user_live>>
     /\ UNCHANGED <<used_map, pool_lock, desc_lock>>

PopBlock(t) ==
  LET d == doing[t].d
      b == Head(free_list[d])
  IN /\ MemAt(t, "pop")
     /\ free_list' = [free_list EXCEPT ![d] = Tail(@)]
     /\ arena' = [arena EXCEPT ![block_to_arena(b)].free_cnt = @ - 1]
     /\ live' = live \cup {b}
     /\ desc_lock' = DescUnlocked(t) /\ doing' = [doing EXCEPT ![t] = NoRequest]
     /\ UNCHANGED <<used_map, pool_lock, user_live>>

(* palloc_free_multiple takes no lock.                                     *)
palloc_free_page(t, p) ==
  /\ doing[t] = NoRequest /\ p \in user_live
  /\ used_map' = used_map \ {p} /\ user_live' = user_live \ {p}
  /\ UNCHANGED <<pool_lock, desc_lock, free_list, arena, live, doing>>

NoArena == [d |-> -1, free_cnt |-> 0]

(* free: a big block gives its pages back at once; another goes through    *)
(* its descriptor's lock.                                                  *)
free(t, b) ==
  LET a == block_to_arena(b)
  IN /\ doing[t] = NoRequest /\ b \in live /\ live' = live \ {b}
     /\ IF arena[a].d = 0
        THEN /\ used_map' = used_map \ (a..(a + arena[a].free_cnt - 1))
             /\ arena' = [arena EXCEPT ![a] = NoArena] /\ UNCHANGED doing
        ELSE /\ doing' = [doing EXCEPT ![t] = [op |-> "free", d |-> arena[a].d, block |-> b, at |-> "desc"]]
             /\ UNCHANGED <<used_map, arena>>
     /\ UNCHANGED <<pool_lock, desc_lock, free_list, user_live>>

(* The block goes to the front of the free list; an arena that is then     *)
(* unused leaves the list and gives its page back.                         *)
PushBlockOnly(t) ==
  LET d == doing[t].d
      b == doing[t].block
      a == block_to_arena(b)
      full == arena[a].free_cnt + 1 >= blocks_per_arena(d)
  IN /\ MemAt(t, "push")
     /\ free_list' = [free_list EXCEPT ![d] = <<b>> \o @]
     /\ arena' = IF full THEN [arena EXCEPT ![a] = NoArena] ELSE [arena EXCEPT ![a].free_cnt = @ + 1]
     /\ used_map' = IF full THEN used_map \ {a} ELSE used_map
     /\ desc_lock' = DescUnlocked(t) /\ doing' = [doing EXCEPT ![t] = NoRequest]
     /\ UNCHANGED <<pool_lock, live, user_live>>

PushBlock(t) ==
  LET d == doing[t].d
      b == doing[t].block
      a == block_to_arena(b)
      full == arena[a].free_cnt + 1 >= blocks_per_arena(d)
      InArena(x) == block_to_arena(x) = a
  IN /\ MemAt(t, "push")
     /\ free_list' = [free_list EXCEPT ![d] = IF full THEN SelectSeq(@, LAMBDA x : ~InArena(x)) ELSE <<b>> \o @]
     /\ arena' = IF full THEN [arena EXCEPT ![a] = NoArena] ELSE [arena EXCEPT ![a].free_cnt = @ + 1]
     /\ used_map' = IF full THEN used_map \ {a} ELSE used_map
     /\ desc_lock' = DescUnlocked(t) /\ doing' = [doing EXCEPT ![t] = NoRequest]
     /\ UNCHANGED <<pool_lock, live, user_live>>

MemoryInit ==
  /\ used_map = {} /\ pool_lock = [p \in Pools |-> NoAllocator]
  /\ desc_lock = [d \in malloc_init |-> NoAllocator] /\ free_list = [d \in malloc_init |-> <<>>]
  /\ arena = [p \in 0..FreePages |-> NoArena] /\ live = {} /\ user_live = {}
  /\ doing = [t \in Allocator |-> NoRequest]

MemoryNext ==
  \E t \in Allocator :
    \/ \E size \in Sizes : malloc(t, size)
    \/ palloc_get_user(t) \/ LockDesc(t) \/ LockPool(t) \/ bitmap_scan(t) \/ bitmap_set_multiple(t)
    \/ OutOfMemory(t) \/ GotPages(t) \/ PopBlock(t) \/ PushBlock(t)
    \/ \E p \in user_live : palloc_free_page(t, p)
    \/ \E b \in live : free(t, b)

MemorySpec == MemoryInit /\ [][MemoryNext]_memoryVars

-----------------------------------------------------------------------------
Bytes(b) == (b.page * PGSIZE + b.ofs)..(b.page * PGSIZE + b.ofs + b.size - 1)
Listed == UNION {{free_list[d][i] : i \in 1..Len(free_list[d])} : d \in malloc_init}
Freeing == {doing[t].block : t \in {u \in Allocator : doing[u].op = "free"}}
PagesOf(a) == IF arena[a].d = 0 THEN a..(a + arena[a].free_cnt - 1) ELSE {a}
Headers == {a \in DOMAIN arena : arena[a] # NoArena}
Fetched == UNION {doing[t].page..(doing[t].page + doing[t].cnt - 1) :
                    t \in {u \in Allocator : MemAt(u, "got") \/ MemAt(u, "mark")}}

(* Memory is owned by one at a time, whatever two threads do between the   *)
(* locks: no byte of a block that a thread has is in another, in the free  *)
(* list or in a page that is free; a free list holds each block once, with *)
(* its arena's count; a page is marked only while an arena, a big block, a *)
(* user page or a call that is under way has it, and each pool gives only  *)
(* its own pages.                                                          *)
MemoryOwned ==
  LET blocks == live \cup Listed \cup Freeing
  IN /\ \A b \in blocks : \A c \in blocks \ {b} : Bytes(b) \cap Bytes(c) = {}
     /\ live \cap (Listed \cup Freeing) = {}
     /\ \A b \in blocks : arena[b.page] # NoArena
     /\ \A d \in malloc_init : Cardinality({free_list[d][i] : i \in 1..Len(free_list[d])}) = Len(free_list[d])
     /\ \A a \in Headers : arena[a].d > 0 =>
          arena[a].free_cnt = Cardinality({b \in Listed : b.page = a})
     /\ \A a \in Headers : \A c \in Headers \ {a} : PagesOf(a) \cap PagesOf(c) = {}
     /\ UNION {PagesOf(a) : a \in Headers} \cup user_live \subseteq used_map
     /\ used_map \subseteq UNION {PagesOf(a) : a \in Headers} \cup user_live \cup Fetched
     /\ user_live \subseteq palloc_init.user /\ Headers \subseteq palloc_init.kernel
=============================================================================
