---------------------------- MODULE Descriptors ----------------------------
(***************************************************************************)
(* File descriptors and open files: the sys_* handlers of                  *)
(* userprog/syscall.c over filesys/file.c, and the denial of writes to a   *)
(* running program.  A file is an inode with its open and deny counts and  *)
(* its length; a process has the sorted list fd_list.  Paths, file data    *)
(* and the pointers that a call passes are not modelled: a bad pointer     *)
(* ends the process, as a bad descriptor does.                             *)
(***************************************************************************)
EXTENDS Integers, Sequences, FiniteSets, SequencesExt

CONSTANTS
  Proc,       \* the processes
  Plain,      \* the plain files
  DirInode,   \* the directories
  MaxFd,      \* bound: descriptors of a process
  MaxLeak,    \* bound: descriptors leaked
  MaxLength   \* bound: length of a file and position in it

Opens == Plain \cup DirInode
NoProgram == "no program"

ASSUME DescriptorConstants ==
  /\ IsFiniteSet(Proc) /\ Plain \cap DirInode = {} /\ NoProgram \notin Opens
  /\ MaxFd \in Nat \ {0} /\ MaxLeak \in Nat /\ MaxLength \in Nat

VARIABLES
  fd_list,    \* the descriptors of a process, in order
  program,    \* the file a process executes
  opens,      \* open_cnt of each inode
  denies,     \* deny_write_cnt of each inode
  size,       \* length of each inode
  leaked      \* openers that nobody can close any more

fdVars == <<fd_list, program, opens, denies, size, leaked>>

Fds(list) == {list[i].fd : i \in DOMAIN list}
IndexOf(p, fd) == CHOOSE i \in DOMAIN fd_list[p] : fd_list[p][i].fd = fd
Has(p, fd) == fd \in Fds(fd_list[p])
Running(p) == program[p] # NoProgram

-----------------------------------------------------------------------------
(* process_execute and load: the program's file stays open and denies      *)
(* writes while the process runs.                                          *)
load(p, f) ==
  /\ ~Running(p)
  /\ program' = [program EXCEPT ![p] = f]
  /\ opens' = [opens EXCEPT ![f] = @ + 1]
  /\ denies' = [denies EXCEPT ![f] = @ + 1]
  /\ UNCHANGED <<fd_list, size, leaked>>

FirstPlace(list) == 1
(* sys_open: the place of the new descriptor is before the first gap.      *)
Place(list) ==
  LET before(i) == IF i = 1 THEN 1 ELSE list[i - 1].fd
      gaps == {i \in DOMAIN list : list[i].fd > before(i) + 1}
  IN IF gaps = {} THEN Len(list) + 1 ELSE CHOOSE i \in gaps : \A j \in gaps : i <= j

LowestFd(list) == IF Place(list) = 1 THEN 2 ELSE list[Place(list) - 1].fd + 1

sys_open(p, f) ==
  /\ Running(p) /\ Len(fd_list[p]) < MaxFd
  /\ LET new == [fd |-> LowestFd(fd_list[p]), inode |-> f, pos |-> 0, is_dir |-> f \in DirInode]
     IN fd_list' = [fd_list EXCEPT ![p] = InsertAt(@, Place(@), new)]
  /\ opens' = [opens EXCEPT ![f] = @ + IF f \in DirInode THEN 2 ELSE 1]
  /\ UNCHANGED <<program, denies, size, leaked>>

(* syscall_exit, and process_exit after it: every file is closed, but not  *)
(* the directory that goes with a descriptor of one; the program may be    *)
(* written again.                                                          *)
OpenedBy(p, f) == Cardinality({i \in DOMAIN fd_list[p] : fd_list[p][i].inode = f})

\* The bound on what may leak, when p leaks its descriptors of the files fs.
LeaksFit(fs, p) ==
  MapThenSumSet(LAMBDA f : leaked[f] + IF f \in fs THEN OpenedBy(p, f) ELSE 0, Opens) <= MaxLeak

syscall_exit(p) ==
  /\ fd_list' = [fd_list EXCEPT ![p] = <<>>]
  /\ program' = [program EXCEPT ![p] = NoProgram]
  /\ opens' = [f \in Opens |-> opens[f] - OpenedBy(p, f) - (IF program[p] = f THEN 1 ELSE 0)]
  /\ denies' = [denies EXCEPT ![program[p]] = @ - 1]
  /\ leaked' = [f \in Opens |-> leaked[f] + IF f \in DirInode THEN OpenedBy(p, f) ELSE 0]
  /\ UNCHANGED size

(* kill ends a process in thread_exit: only the program is closed.         *)
kill(p) ==
  /\ Running(p)
  /\ LeaksFit(Opens, p)
  /\ fd_list' = [fd_list EXCEPT ![p] = <<>>]
  /\ program' = [program EXCEPT ![p] = NoProgram]
  /\ opens' = [opens EXCEPT ![program[p]] = @ - 1]
  /\ denies' = [denies EXCEPT ![program[p]] = @ - 1]
  /\ leaked' = [f \in Opens |-> leaked[f] + OpenedBy(p, f) * IF f \in DirInode THEN 2 ELSE 1]
  /\ UNCHANGED size

ExitUnclosed(p) ==
  /\ Running(p)
  /\ fd_list' = [fd_list EXCEPT ![p] = <<>>]
  /\ program' = [program EXCEPT ![p] = NoProgram]
  /\ UNCHANGED <<opens, denies, size, leaked>>
Exit(p) ==
  /\ Running(p) /\ LeaksFit(DirInode, p)
  /\ syscall_exit(p)

(* check_fd: a descriptor that is not in the list ends the process.        *)
check_fd(p, fd, act) ==
  /\ Running(p)
  /\ IF Has(p, fd) THEN act
     ELSE LeaksFit(DirInode, p) /\ syscall_exit(p)

(* close_fd closes the file and the directory and drops the descriptor.    *)
sys_close(p, fd) ==
  check_fd(p, fd,
    LET d == fd_list[p][IndexOf(p, fd)]
    IN /\ opens' = [opens EXCEPT ![d.inode] = @ - IF d.is_dir THEN 2 ELSE 1]
       /\ fd_list' = [fd_list EXCEPT ![p] = RemoveAt(@, IndexOf(p, fd))]
       /\ UNCHANGED <<program, denies, size, leaked>>)

(* file_read advances the position by what was read, up to the end.        *)
(* Descriptor 0 is the keyboard for reads, 1 the console for writes.       *)
MoveTo(p, fd, pos) == fd_list' = [fd_list EXCEPT ![p][IndexOf(p, fd)].pos = pos]

sys_read(p, fd, n) ==
  IF fd = 0 THEN Running(p) /\ UNCHANGED fdVars
  ELSE check_fd(p, fd,
    LET d == fd_list[p][IndexOf(p, fd)]
        left == IF size[d.inode] > d.pos THEN size[d.inode] - d.pos ELSE 0
    IN /\ MoveTo(p, fd, d.pos + IF n < left THEN n ELSE left)
       /\ UNCHANGED <<program, opens, denies, size, leaked>>)

(* sys_write: -1 for a directory, 0 for a file that denies writes; else    *)
(* the file grows as needed.                                               *)
WriteUndenied(p, fd, n) ==
  /\ Running(p) /\ Has(p, fd)
  /\ LET d == fd_list[p][IndexOf(p, fd)]
     IN /\ d.pos + n <= MaxLength
        /\ MoveTo(p, fd, d.pos + n)
        /\ size' = [size EXCEPT ![d.inode] = IF @ < d.pos + n THEN d.pos + n ELSE @]
  /\ UNCHANGED <<program, opens, denies, leaked>>
sys_write(p, fd, n) ==
  IF fd = 1 THEN Running(p) /\ UNCHANGED fdVars
  ELSE check_fd(p, fd,
    LET d == fd_list[p][IndexOf(p, fd)]
    IN IF d.is_dir \/ denies[d.inode] > 0
       THEN UNCHANGED fdVars
       ELSE /\ d.pos + n <= MaxLength
            /\ MoveTo(p, fd, d.pos + n)
            /\ size' = [size EXCEPT ![d.inode] = IF @ < d.pos + n THEN d.pos + n ELSE @]
            /\ UNCHANGED <<program, opens, denies, leaked>>)

(* file_seek goes anywhere, past the end too.                              *)
sys_seek(p, fd, pos) ==
  check_fd(p, fd, MoveTo(p, fd, pos) /\ UNCHANGED <<program, opens, denies, size, leaked>>)

(* The calls that only look: filesize, tell, isdir, inumber.               *)
Query(p, fd) == check_fd(p, fd, UNCHANGED fdVars)

FdInit ==
  /\ fd_list = [p \in Proc |-> <<>>] /\ program = [p \in Proc |-> NoProgram]
  /\ opens = [f \in Opens |-> 0] /\ denies = [f \in Opens |-> 0]
  /\ size = [f \in Opens |-> 0] /\ leaked = [f \in Opens |-> 0]

\* A descriptor that p does not have is to every call what 0 is to sys_close.
FdStep(p) ==
  \/ \E f \in Plain : load(p, f)
  \/ \E f \in Opens : sys_open(p, f)
  \/ Exit(p) \/ kill(p)
  \/ \E fd \in {0, 1} \cup Fds(fd_list[p]) :
       \/ sys_close(p, fd) \/ Query(p, fd)
       \/ \E n \in 1..MaxLength : sys_read(p, fd, n) \/ sys_write(p, fd, n)
       \/ \E pos \in 0..MaxLength : sys_seek(p, fd, pos)

FdNext == \E p \in Proc : FdStep(p)

FdSpec == FdInit /\ [][FdNext]_fdVars

-----------------------------------------------------------------------------
Runners(f) == {p \in Proc : program[p] = f}
Handles(f) ==
  LET of(p) == {<<p, i>> : i \in {j \in DOMAIN fd_list[p] : fd_list[p][j].inode = f}}
  IN Cardinality(UNION {of(p) : p \in Proc})

(* The descriptors of a process are distinct and in order, none is 0 or 1, *)
(* and sys_open's next one is the lowest that is free, whatever was closed *)
(* before.                                                                 *)
LowestDescriptor ==
  \A p \in Proc :
    /\ \A i \in DOMAIN fd_list[p] : fd_list[p][i].fd >= 2
    /\ \A i, j \in DOMAIN fd_list[p] : i < j => fd_list[p][i].fd < fd_list[p][j].fd
    /\ LowestFd(fd_list[p]) \notin Fds(fd_list[p])
    /\ \A fd \in 2..(LowestFd(fd_list[p]) - 1) : Has(p, fd)

(* An inode is open once for every descriptor, twice for a directory's,    *)
(* and once for every process that runs it, besides what exits have        *)
(* leaked: it is neither freed too early nor kept by anything else.        *)
OpensExact ==
  \A f \in Opens :
    opens[f] = Cardinality(Runners(f)) + leaked[f] + Handles(f) * (IF f \in DirInode THEN 2 ELSE 1)

(* The deny count is the number of processes that run the file, so the     *)
(* assertions of inode_deny_write and inode_allow_write hold.              *)
DenyCounted == \A f \in Opens : denies[f] = Cardinality(Runners(f)) /\ denies[f] <= opens[f]

(* A program does not change while a process runs it, and no file shrinks. *)
ProgramUnchanged ==
  [][\A f \in Opens : /\ Runners(f) # {} => size'[f] = size[f]
                      /\ size'[f] >= size[f]]_fdVars
=============================================================================
