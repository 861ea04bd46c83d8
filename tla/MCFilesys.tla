----------------------------- MODULE MCFilesys -----------------------------
(* The parts of the file system above the cache, side by side: part says    *)
(* which of them a behaviour is about, and the others stay as they began.   *)
EXTENDS Inode, Directory, FreeMap, Descriptors, TLC

CONSTANTS w1, w2, fileA, fileB

VARIABLE part

TwoWorkers == {w1, w2}
TwoFiles == {fileA, fileB}
Symmetry == Permutations(TwoWorkers) \cup Permutations(TwoFiles)

\* One read through a hole, a write of the first block and a sparse one.
SomeReads == {<<1, 2>>}
SomeWrites == {<<0, 1>>, <<2, 1>>}
\* The second file is used when the first is deleted and its sectors are free.
SecondFileLater == mem[3].open_cnt > 0 => 2 \in deleted
\* Reads fill holes as writes do: one thread reads while the other writes.
OneReader == \E t \in Fiber : \A u \in Fiber \ {t} : fiber[u].op # "read"

Abs(names) == [absolute |-> TRUE, names |-> names]
Rel(names) == [absolute |-> FALSE, names |-> names]
TreeCalls ==
  {<<"mkdir", Abs(<<"a">>)>>, <<"chdir", Abs(<<"a">>)>>, <<"chdir", Abs(<<>>)>>,
   <<"remove", Abs(<<"a">>)>>, <<"create", Rel(<<"f">>)>>, <<"create", Rel(<<"long">>)>>,
   <<"open", Rel(<<"f">>)>>, <<"chdir", Rel(<<"f">>)>>, <<"remove", Rel(<<"f">>)>>}
\* A tree of directories, or odd names in the root: too long, or a file's.
NamesOf(w) == {w.name} \cup {w.todo[i] : i \in DOMAIN w.todo}
OddName(w) == TooLong \in NamesOf(w) \/ (w.op = "chdir" /\ "f" \in NamesOf(w))
TreeOrNames ==
  \A t \in Walker : /\ part = "directory" => ~OddName(walk[t])
                    /\ part = "names" => "a" \notin NamesOf(walk[t])

\* A process has several descriptors when the other has none.
FewDescriptors ==
  \A p, q \in Proc : p # q /\ Len(fd_list[p]) > 1 => fd_list[q] = <<>>

FilesysInit ==
  /\ InodeInit /\ DirInit /\ FreeMapInit /\ FdInit
  /\ part \in {"inode", "directory", "names", "free map", "descriptors"}

FilesysNext ==
  \/ part = "inode" /\ InodeNext /\ UNCHANGED <<dirVars, freeMapVars, fdVars, part>>
  \/ part \in {"directory", "names"} /\ DirNext /\ UNCHANGED <<inodeVars, freeMapVars, fdVars, part>>
  \/ part = "free map" /\ FreeMapNext /\ UNCHANGED <<inodeVars, dirVars, fdVars, part>>
  \/ part = "descriptors" /\ FdNext /\ UNCHANGED <<inodeVars, dirVars, freeMapVars, part>>

FilesysSpec == FilesysInit /\ [][FilesysNext]_<<inodeVars, dirVars, freeMapVars, fdVars, part>>

(* However inode_write_at, inode_close and inode_free_data of two threads   *)
(* interleave, a sector a file's index names is named once, is marked in    *)
(* the free map, and is never given away.                                   *)
SectorsOwned == part = "inode" => InodeTypeOK /\ NoSharing /\ ReachableMarked

(* However dir_add, dir_remove, filesys_mkdir and path walks interleave, a  *)
(* directory has no two entries of one name and no entry leads to an inode  *)
(* that is free or named elsewhere.                                         *)
TreeSound == part \in {"directory", "names"} => DirTypeOK /\ UniqueNames /\ NoDangling

(* The free map is never written from inside an allocation that needs its   *)
(* own lock, keeps the blocks of its own file marked, and the map that      *)
(* filesys_done leaves on disk is the one the next boot reads.              *)
MapKept == part = "free map" => NoSelfDeadlock /\ MapKeepsItself /\ MapSurvives

(* The open count and the deny count of an inode are what the descriptors   *)
(* and the running processes account for, whatever was opened, closed,      *)
(* executed, exited or killed, and in whatever order.                       *)
OpensCounted == part = "descriptors" => OpensExact /\ DenyCounted
=============================================================================
