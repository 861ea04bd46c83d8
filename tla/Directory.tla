----------------------------- MODULE Directory -----------------------------
(***************************************************************************)
(* Directories and paths: filesys/directory.c and filesys/filesys.c.       *)
(* Threads create, open, remove and change to files and directories named  *)
(* by paths, over one tree.                                                *)
(*                                                                         *)
(* A step is what a thread does under the lock of one directory, or with   *)
(* the inode list or the free map: a path is walked one directory at a     *)
(* time.  The sectors modelled are those of inodes; a directory's entries  *)
(* are a sequence of slots, the first two being "." and "..".              *)
(***************************************************************************)
EXTENDS Integers, Sequences, FiniteSets, FiniteSetsExt

CONSTANTS
  Walker,       \* the threads
  Inodes,       \* the sectors that can hold an inode; the root's is 1
  TooLong,      \* a name longer than NAME_MAX
  Calls,        \* bound: the <<operation, path>> of the calls
  MaxOpen       \* bound: openers of a plain file

ROOT_DIR_SECTOR == 1
None == 0
Nobody == "nobody"
Unused == [name |-> "", sector |-> None]

ASSUME DirectoryConstants ==
  /\ Inodes \subseteq Nat \ {0} /\ IsFiniteSet(Inodes) /\ ROOT_DIR_SECTOR \in Inodes
  /\ Nobody \notin Walker
  /\ \A c \in Calls : c[2].names # <<>> \/ c[2].absolute

VARIABLES
  marked,     \* the inode sectors taken in the free map
  kind,       \* "file" or "dir", as the inode on disk says
  slots,      \* the entries of a directory
  open_cnt,   \* openers of each inode
  removed,    \* inodes that are freed when their last opener leaves
  stuck,      \* who returned with the directory's lock held
  cur_dir,    \* each thread's current directory
  file,       \* the file each thread has open
  walk,       \* the call each thread is in
  panicked

dirVars == <<marked, kind, slots, open_cnt, removed, stuck, cur_dir, file, walk, panicked>>
AtEase == [at |-> "rest", op |-> "none", dir |-> None, todo |-> <<>>, found |-> None, name |-> ""]

-----------------------------------------------------------------------------
(* inode_open, inode_close on the counts.  The last close frees the inode, *)
(* with its lock, and the sector if it was removed.                        *)
Opened(cnt, s) == IF s = None THEN cnt ELSE [cnt EXCEPT ![s] = @ + 1]
Shut(cnt, s) == IF s = None THEN cnt ELSE [cnt EXCEPT ![s] = @ - 1]

(* The counts become cnt.                                                  *)
Settle(cnt, rem, taken) ==
  /\ open_cnt' = cnt
  /\ removed' = {s \in rem : cnt[s] > 0}
  /\ marked' = taken \ {s \in rem : cnt[s] = 0}
  /\ stuck' = [s \in Inodes |-> IF cnt[s] = 0 THEN Nobody ELSE stuck[s]]

(* lookup: the slot of a name, and its inode.                              *)
SlotOf(d, n) == {i \in DOMAIN slots[d] : slots[d][i].name = n /\ slots[d][i].sector # None}
lookup(d, n) == IF SlotOf(d, n) = {} THEN None ELSE slots[d][Min(SlotOf(d, n))].sector

(* inode_lock by a thread that holds the lock fails its assertion; others  *)
(* wait.                                                                   *)
CanLock(t, d) == stuck[d] = Nobody
Relock(t) ==
  /\ walk[t].at \in {"lookup", "final", "add"} /\ stuck[walk[t].dir] = t
  /\ panicked' = TRUE
  /\ UNCHANGED <<marked, kind, slots, open_cnt, removed, stuck, cur_dir, file, walk>>

At(t, where) == ~panicked /\ walk[t].at = where
Done(t) == walk' = [walk EXCEPT ![t] = AtEase]

-----------------------------------------------------------------------------
(* filesys_path_to_dir: start at the root or the current directory.        *)
Begin(t, op, path) ==
  /\ At(t, "rest")
  /\ op = "open" => file[t] = None
  /\ LET d == IF path.absolute THEN ROOT_DIR_SECTOR ELSE cur_dir[t]
     IN /\ open_cnt' = Opened(open_cnt, d)
        /\ walk' = [walk EXCEPT ![t] =
             [AtEase EXCEPT !.op = op, !.dir = d, !.todo = path.names, !.name = ".",
                            !.at = IF path.names = <<>> THEN "final" ELSE "lookup"]]
  /\ UNCHANGED <<marked, kind, slots, removed, stuck, cur_dir, file, panicked>>

(* dir_lookup of the next name, under the directory's lock.                *)
dir_lookup(t) ==
  /\ At(t, "lookup") /\ CanLock(t, walk[t].dir)
  /\ LET s == lookup(walk[t].dir, Head(walk[t].todo))
     IN /\ open_cnt' = Opened(open_cnt, s)
        /\ walk' = [walk EXCEPT ![t].found = s, ![t].at = "step",
                                ![t].name = Head(walk[t].todo), ![t].todo = Tail(@)]
  /\ UNCHANGED <<marked, kind, slots, removed, stuck, cur_dir, file, panicked>>

(* At the last name its inode is closed again; before it, the walk goes    *)
(* down, or fails when there is no directory to go down to.                *)
filesys_path_to_dir(t) ==
  /\ At(t, "step")
  /\ LET p == walk[t]
         last == p.todo = <<>>
         down == ~last /\ p.found # None /\ kind[p.found] = "dir"
         cnt == IF last THEN Shut(open_cnt, p.found)
                ELSE IF down THEN Shut(open_cnt, p.dir)
                ELSE Shut(Shut(open_cnt, p.dir), p.found)
     IN /\ Settle(cnt, removed, marked)
        /\ walk' = [walk EXCEPT ![t] =
             IF last THEN [p EXCEPT !.at = "final", !.found = None]
             ELSE IF down THEN [p EXCEPT !.at = "lookup", !.dir = p.found, !.found = None]
             ELSE AtEase]
  /\ UNCHANGED <<kind, slots, cur_dir, file, panicked>>

-----------------------------------------------------------------------------
(* filesys_open, after the walk: the file stays open, the directory not.   *)
filesys_open(t) ==
  /\ At(t, "final") /\ walk[t].op = "open" /\ CanLock(t, walk[t].dir)
  /\ LET s == lookup(walk[t].dir, walk[t].name)
     IN /\ file' = [file EXCEPT ![t] = s]
        /\ Settle(Shut(Opened(open_cnt, s), walk[t].dir), removed, marked)
  /\ Done(t)
  /\ UNCHANGED <<kind, slots, cur_dir, panicked>>

file_close(t) ==
  /\ At(t, "rest") /\ file[t] # None
  /\ file' = [file EXCEPT ![t] = None]
  /\ Settle(Shut(open_cnt, file[t]), removed, marked)
  /\ UNCHANGED <<kind, slots, cur_dir, walk, panicked>>

(* filesys_chdir: a plain file that is found stays open for ever.          *)
ChdirClosingTwice(t) ==
  /\ At(t, "final") /\ walk[t].op = "chdir" /\ CanLock(t, walk[t].dir)
  /\ LET s == lookup(walk[t].dir, walk[t].name)
     IN /\ Settle(Shut(open_cnt, walk[t].dir), removed, marked)
        /\ cur_dir' = IF s # None /\ kind[s] = "dir" THEN [cur_dir EXCEPT ![t] = s] ELSE cur_dir
  /\ Done(t)
  /\ UNCHANGED <<kind, slots, file, panicked>>

filesys_chdir(t) ==
  /\ At(t, "final") /\ walk[t].op = "chdir" /\ CanLock(t, walk[t].dir)
  /\ LET s == lookup(walk[t].dir, walk[t].name)
         isDir == s # None /\ kind[s] = "dir"
         cnt == Shut(Opened(open_cnt, s), walk[t].dir)
     IN /\ (s # None /\ ~isDir) => open_cnt[s] < MaxOpen
        /\ cur_dir' = IF isDir THEN [cur_dir EXCEPT ![t] = s] ELSE cur_dir
        /\ Settle(IF isDir THEN Shut(cnt, cur_dir[t]) ELSE cnt, removed, marked)
  /\ Done(t)
  /\ UNCHANGED <<kind, slots, file, panicked>>

(* filesys_mkdir first sees whether the name is taken.                     *)
filesys_mkdir(t) ==
  /\ At(t, "final") /\ walk[t].op = "mkdir" /\ CanLock(t, walk[t].dir)
  /\ IF lookup(walk[t].dir, walk[t].name) = None
     THEN walk' = [walk EXCEPT ![t].at = "make"] /\ UNCHANGED <<open_cnt, removed, marked, stuck>>
     ELSE Done(t) /\ Settle(Shut(open_cnt, walk[t].dir), removed, marked)
  /\ UNCHANGED <<kind, slots, cur_dir, file, panicked>>

(* The inode is made in a free sector: inode_create, or dir_create, where  *)
(* ".." is the current directory of the thread.                            *)
Made(t) == <<[name |-> ".", sector |-> Min(Inodes \ marked)],
             [name |-> "..", sector |-> cur_dir[t]]>>

filesys_create(t) == At(t, "final") /\ walk[t].op = "create"
inode_create(t) ==
  /\ At(t, "make") \/ filesys_create(t)
  /\ IF marked = Inodes
     THEN /\ Done(t) /\ Settle(Shut(open_cnt, walk[t].dir), removed, marked)
          /\ UNCHANGED <<kind, slots>>
     ELSE LET s == Min(Inodes \ marked)
              isDir == walk[t].op = "mkdir"
          IN /\ marked' = marked \cup {s}
             /\ kind' = [kind EXCEPT ![s] = IF isDir THEN "dir" ELSE "file"]
             /\ slots' = [slots EXCEPT ![s] = IF isDir THEN Made(t) ELSE <<>>]
             /\ walk' = [walk EXCEPT ![t].at = "add", ![t].found = s]
             /\ UNCHANGED <<open_cnt, removed, stuck>>
  /\ UNCHANGED <<cur_dir, file, panicked>>

(* dir_add into the first slot not in use.  A name that is too long leaves *)
(* with the lock held; a failure gives the inode's sector back.            *)
Placed(sl, e) ==
  LET unused == {i \in DOMAIN sl : sl[i].sector = None}
  IN IF unused = {} THEN Append(sl, e) ELSE [sl EXCEPT ![Min(unused)] = e]

AddUnchecked(t) ==
  /\ At(t, "add") /\ CanLock(t, walk[t].dir)
  /\ slots' = [slots EXCEPT ![walk[t].dir] = Placed(@, [name |-> walk[t].name, sector |-> walk[t].found])]
  /\ Settle(Shut(open_cnt, walk[t].dir), removed, marked)
  /\ Done(t)
  /\ UNCHANGED <<kind, cur_dir, file, panicked>>

dir_add(t) ==
  /\ At(t, "add") /\ CanLock(t, walk[t].dir)
  /\ LET p == walk[t]
         tooLong == p.name = TooLong
         success == ~tooLong /\ lookup(p.dir, p.name) = None
         cnt == Shut(open_cnt, p.dir)
     IN /\ slots' = IF success
                    THEN [slots EXCEPT ![p.dir] = Placed(@, [name |-> p.name, sector |-> p.found])]
                    ELSE slots
        /\ open_cnt' = cnt
        /\ removed' = {s \in removed : cnt[s] > 0}
        /\ marked' = (IF success THEN marked ELSE marked \ {p.found})
                     \ {s \in removed : cnt[s] = 0}
        /\ stuck' = [s \in Inodes |-> IF cnt[s] = 0 THEN Nobody
                                      ELSE IF tooLong /\ s = p.dir THEN t ELSE stuck[s]]
  /\ Done(t)
  /\ UNCHANGED <<kind, cur_dir, file, panicked>>

(* dir_remove: an open or nonempty directory is refused; dir_readdir skips *)
(* the first two slots.  A directory's inode is closed, and so freed,      *)
(* before it is marked removed: its sectors are not given back.            *)
Empty(s) == \A i \in DOMAIN slots[s] : i > 2 => slots[s][i].sector = None

filesys_remove(t) == At(t, "final") /\ walk[t].op = "remove"
dir_remove(t) ==
  /\ filesys_remove(t) /\ CanLock(t, walk[t].dir)
  /\ LET d == walk[t].dir
         s == lookup(d, walk[t].name)
         refused == kind[s] = "dir" /\ (open_cnt[s] > 0 \/ ~Empty(s))
         plain == IF kind[s] = "dir" THEN {} ELSE {s}
     IN IF s = None
        THEN panicked' = TRUE /\ UNCHANGED <<slots, open_cnt, removed, marked, stuck, walk>>
        ELSE /\ slots' = IF refused THEN slots
                         ELSE [slots EXCEPT ![d][Min(SlotOf(d, walk[t].name))] = Unused]
             /\ Settle(Shut(open_cnt, d), IF refused THEN removed ELSE removed \cup plain, marked)
             /\ Done(t) /\ UNCHANGED panicked
  /\ UNCHANGED <<kind, cur_dir, file>>

-----------------------------------------------------------------------------
(* do_format has made the root; every thread starts there.                 *)
DirInit ==
  /\ marked = {ROOT_DIR_SECTOR}
  /\ kind = [s \in Inodes |-> IF s = ROOT_DIR_SECTOR THEN "dir" ELSE "file"]
  /\ slots = [s \in Inodes |-> IF s = ROOT_DIR_SECTOR
                               THEN <<[name |-> ".", sector |-> s], [name |-> "..", sector |-> s]>>
                               ELSE <<>>]
  /\ open_cnt = [s \in Inodes |-> IF s = ROOT_DIR_SECTOR THEN Cardinality(Walker) ELSE 0]
  /\ removed = {} /\ stuck = [s \in Inodes |-> Nobody]
  /\ cur_dir = [t \in Walker |-> ROOT_DIR_SECTOR] /\ file = [t \in Walker |-> None]
  /\ walk = [t \in Walker |-> AtEase] /\ panicked = FALSE

DirStep(t) ==
  \/ \E c \in Calls : Begin(t, c[1], c[2])
  \/ dir_lookup(t) \/ filesys_path_to_dir(t) \/ filesys_open(t) \/ file_close(t)
  \/ filesys_chdir(t) \/ filesys_mkdir(t) \/ inode_create(t) \/ dir_add(t) \/ dir_remove(t)
  \/ Relock(t)

DirNext == \E t \in Walker : DirStep(t)

DirSpec == DirInit /\ [][DirNext]_dirVars

-----------------------------------------------------------------------------
InUse(d) == {i \in DOMAIN slots[d] : slots[d][i].sector # None}
Dirs == {s \in marked : kind[s] = "dir"}
(* The references that threads hold on an inode.                           *)
Held(s) ==
  Cardinality({t \in Walker : cur_dir[t] = s}) + Cardinality({t \in Walker : file[t] = s})
  + Cardinality({t \in Walker : walk[t].dir = s})
  + Cardinality({t \in Walker : walk[t].found = s /\ walk[t].at = "step"})

(* Every variable has its type, and a path ends.                           *)
DirTypeOK ==
  /\ marked \subseteq Inodes /\ removed \subseteq Inodes
  /\ kind \in [Inodes -> {"file", "dir"}] /\ open_cnt \in [Inodes -> Nat]
  /\ \A s \in Inodes : \A i \in DOMAIN slots[s] : slots[s][i].sector \in Inodes \cup {None}
  /\ cur_dir \in [Walker -> Inodes] /\ file \in [Walker -> Inodes \cup {None}]
  /\ stuck \in [Inodes -> Walker \cup {Nobody}] /\ panicked \in BOOLEAN

(* No two entries of a directory have the same name, though filesys_mkdir  *)
(* looks and dir_add writes under two holds of the lock.                   *)
UniqueNames ==
  \A d \in Dirs : \A i, j \in InUse(d) : slots[d][i].name = slots[d][j].name => i = j

(* An entry names an inode that exists, and, "." and ".." aside, no other  *)
(* entry names it: a sector given back is named by nobody.                 *)
NoDangling ==
  \A d \in Dirs : \A i \in InUse(d) :
     /\ slots[d][i].sector \in marked
     /\ i > 2 => \A e \in Dirs : \A j \in InUse(e) :
           j > 2 /\ slots[e][j].sector = slots[d][i].sector => <<d, i>> = <<e, j>>

(* An inode's count covers the references to it: it is not freed, and its  *)
(* sector not given back, while a thread still uses it.                    *)
OpenCovers == \A s \in Inodes : open_cnt[s] >= Held(s) /\ (open_cnt[s] > 0 => s \in marked)

(* A directory is unlinked only when it is empty: the entries of a         *)
(* directory no entry leads to are at most "." and "..".                   *)
Linked == {ROOT_DIR_SECTOR} \cup
  UNION {{slots[d][i].sector : i \in {j \in InUse(d) : slots[d][j].name \notin {".", ".."}}} : d \in Dirs}
RemovedEmpty ==
  \A d \in Dirs \ Linked :
    (\A t \in Walker : walk[t].found # d) =>
       \A i \in InUse(d) : slots[d][i].name \in {".", ".."}
=============================================================================
