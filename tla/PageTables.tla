----------------------------- MODULE PageTables ----------------------------
(***************************************************************************)
(* Page directories: userprog/pagedir.c, the translation lookaside buffer  *)
(* of the CPU as the code uses it, and the calls that userprog/process.c   *)
(* makes when a process starts, runs and exits.  A user page has a number; *)
(* PT_SPAN pages share a page table.                                       *)
(***************************************************************************)
EXTENDS Integers, FiniteSets

CONSTANTS
  Space,      \* the processes
  UPage,      \* user virtual pages
  PT_SPAN,    \* pages that one page table covers
  Phys,       \* physical pages that palloc gives
  Kernel      \* stands for init_page_dir

VARIABLES
  taken,      \* physical pages that are allocated
  pagedir,    \* each process's page directory, or 0
  pde,        \* the page table of each part of each directory, or 0
  pte,        \* the entries of the page tables
  cr3, tlb,   \* the active directory and the cached translations
  orphans     \* pages whose mapping was cleared, which palloc still counts

pageVars == <<taken, pagedir, pde, pte, cr3, tlb, orphans>>

pd_no(u) == u \div PT_SPAN
Dirs == {pd_no(u) : u \in UPage}
NoEntry == [page |-> 0, p |-> FALSE, w |-> FALSE, a |-> FALSE, d |-> FALSE]
Free == Phys \ taken
Empty == [u \in UPage |-> NoEntry]

-----------------------------------------------------------------------------
(* A process begins: a directory, which is made active.                    *)
pagedir_create(s) ==
  /\ pagedir[s] = 0
  /\ \E p \in Free :
       /\ taken' = taken \cup {p} /\ pagedir' = [pagedir EXCEPT ![s] = p]
       /\ cr3' = s /\ tlb' = {}
  /\ UNCHANGED <<pde, pte, orphans>>

(* The scheduler runs another process or the kernel: process_activate.     *)
pagedir_activate(s) ==
  /\ s # cr3 /\ (s # Kernel => pagedir[s] # 0)
  /\ cr3' = s /\ tlb' = {}
  /\ UNCHANGED <<taken, pagedir, pde, pte, orphans>>

(* lookup_page with CREATE gives a part of the directory its page table,   *)
(* pagedir_set_page then fills the entry; without memory for the table the *)
(* caller frees the page it wanted to map.                                 *)
pagedir_set_page(s, u, writable) ==
  /\ cr3 = s /\ pagedir[s] # 0 /\ ~pte[s][u].p
  /\ \E kpage \in Free :
       \/ /\ pde[s][pd_no(u)] # 0
          /\ taken' = taken \cup {kpage} /\ UNCHANGED pde
          /\ pte' = [pte EXCEPT ![s][u] = [page |-> kpage, p |-> TRUE, w |-> writable, a |-> FALSE, d |-> FALSE]]
       \/ /\ pde[s][pd_no(u)] = 0
          /\ \E pt \in Free \ {kpage} :
               /\ taken' = taken \cup {kpage, pt} /\ pde' = [pde EXCEPT ![s][pd_no(u)] = pt]
               /\ pte' = [pte EXCEPT ![s][u] = [page |-> kpage, p |-> TRUE, w |-> writable, a |-> FALSE, d |-> FALSE]]
  /\ UNCHANGED <<pagedir, cr3, tlb, orphans>>

(* invalidate_pagedir: reloading the active directory empties the TLB.     *)
invalidate_pagedir(s) == tlb' = IF cr3 = s THEN {} ELSE tlb

(* pagedir_clear_page: the other bits stay; palloc keeps the page.         *)
pagedir_clear_page(s, u) ==
  /\ pagedir[s] # 0 /\ pde[s][pd_no(u)] # 0 /\ pte[s][u].p
  /\ pte' = [pte EXCEPT ![s][u].p = FALSE]
  /\ orphans' = orphans \cup {pte[s][u].page}
  /\ invalidate_pagedir(s)
  /\ UNCHANGED <<taken, pagedir, pde, cr3>>

(* pagedir_set_dirty and pagedir_set_accessed with false.                  *)
pagedir_set_dirty(s, u) ==
  /\ pagedir[s] # 0 /\ pde[s][pd_no(u)] # 0 /\ pte[s][u].d
  /\ pte' = [pte EXCEPT ![s][u].d = FALSE]
  /\ invalidate_pagedir(s)
  /\ UNCHANGED <<taken, pagedir, pde, cr3, orphans>>

pagedir_set_accessed(s, u) ==
  /\ pagedir[s] # 0 /\ pde[s][pd_no(u)] # 0 /\ pte[s][u].a
  /\ pte' = [pte EXCEPT ![s][u].a = FALSE]
  /\ invalidate_pagedir(s)
  /\ UNCHANGED <<taken, pagedir, pde, cr3, orphans>>

(* The CPU uses a page: a translation that is not cached is taken from the *)
(* tables and sets the accessed bit; the first write through it sets the   *)
(* dirty bit.                                                              *)
Walk(u, write) ==
  /\ cr3 # Kernel
  /\ LET e == pte[cr3][u]
         old == {x \in tlb : x.u = u}
         found == IF old = {} THEN [u |-> u, page |-> e.page, w |-> e.w, d |-> e.d] ELSE CHOOSE x \in old : TRUE
         new == [found EXCEPT !.d = @ \/ write]
     IN /\ old = {} => e.p
        /\ write => found.w
        /\ tlb' = (tlb \ old) \cup {new}
        /\ pte' = [pte EXCEPT ![cr3][u].a = IF old = {} THEN TRUE ELSE @,
                              ![cr3][u].d = IF write /\ ~found.d THEN TRUE ELSE @]
  /\ UNCHANGED <<taken, pagedir, pde, cr3, orphans>>

(* process_exit: the kernel's directory is active before pagedir_destroy   *)
(* frees the pages that are present, the tables and the directory.         *)
Kept(s) == {pte[s][u].page : u \in {v \in UPage : pte[s][v].p}} \cup ({pde[s][i] : i \in Dirs} \ {0})
pagedir_destroy(s) ==
  /\ cr3 = s /\ pagedir[s] # 0
  /\ cr3' = Kernel /\ tlb' = {}
  /\ taken' = taken \ (Kept(s) \cup {pagedir[s]})
  /\ pagedir' = [pagedir EXCEPT ![s] = 0]
  /\ pde' = [pde EXCEPT ![s] = [i \in Dirs |-> 0]]
  /\ pte' = [pte EXCEPT ![s] = Empty]
  /\ UNCHANGED orphans

PageInit ==
  /\ taken = {} /\ pagedir = [s \in Space |-> 0]
  /\ pde = [s \in Space |-> [i \in Dirs |-> 0]] /\ pte = [s \in Space |-> Empty]
  /\ cr3 = Kernel /\ tlb = {} /\ orphans = {}

PageNext ==
  \/ \E s \in Space \cup {Kernel} : pagedir_activate(s)
  \/ \E u \in UPage, write \in BOOLEAN : Walk(u, write)
  \/ \E s \in Space :
       \/ pagedir_create(s) \/ pagedir_destroy(s)
       \/ \E u \in UPage : \/ \E writable \in BOOLEAN : pagedir_set_page(s, u, writable)
                           \/ pagedir_clear_page(s, u) \/ pagedir_set_dirty(s, u)
                           \/ pagedir_set_accessed(s, u)

PageSpec == PageInit /\ [][PageNext]_pageVars

-----------------------------------------------------------------------------
(* The CPU never uses a translation that the tables do not give, and never *)
(* skips the dirty bit of a page it writes; the active directory is not    *)
(* freed; two processes share no page, table or directory, and a page is   *)
(* freed once: what is allocated is what the directories hold, besides the *)
(* pages whose mapping was cleared.                                        *)
TranslationsTrue ==
  /\ \A x \in tlb : /\ pte[cr3][x.u].p /\ pte[cr3][x.u].page = x.page
                    /\ pte[cr3][x.u].a
                    /\ x.d => pte[cr3][x.u].d
  /\ tlb # {} \/ cr3 # Kernel => cr3 # Kernel /\ pagedir[cr3] \in taken
  /\ \A s \in Space : \A r \in Space \ {s} :
       (Kept(s) \cup {pagedir[s]}) \cap (Kept(r) \cup {pagedir[r]}) \subseteq {0}
  /\ taken = (UNION {Kept(s) \cup {pagedir[s]} : s \in Space} \ {0}) \cup orphans
=============================================================================
