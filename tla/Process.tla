------------------------------ MODULE Process ------------------------------
(***************************************************************************)
(* Processes: exec, wait and exit (userprog/process.c, syscall_exit of     *)
(* userprog/syscall.c, kill of userprog/exception.c, and the exit record   *)
(* thread_create makes for a child).  A parent learns through the          *)
(* semaphore sema_exec and the global success how its child's load went,   *)
(* and through the child's exit record how the child ended.                *)
(***************************************************************************)
EXTENDS Integers, FiniteSets

CONSTANTS
  Proc,         \* the processes, by the tid they will get
  Root,         \* the initial thread, which runs no user program
  None,         \* no process; as a tid, TID_ERROR
  ExitStatus,   \* what user programs pass to exit
  LoadFails,    \* whether load may fail
  CreateFails,  \* whether thread_create may fail
  Kills         \* whether an exception other than a page fault may occur

ASSUME ProcAssumption == /\ IsFiniteSet(Proc) /\ Root \in Proc /\ None \notin Proc
                         /\ ExitStatus \subseteq Int
                         /\ {LoadFails, CreateFails, Kills} \subseteq BOOLEAN

VARIABLES
  pc,            \* pc[p]: where process p is
  arg,           \* arg[p]: the child p starts or waits for
  lock_exec,     \* holder of the lock around process_execute
  sema_exec,     \* upped by a child that has loaded
  success,       \* the global result of load
  exiting_lock,  \* holder of the lock in syscall_exit
  exit_list,     \* exit_list[p]: children whose records p has
  rec,           \* rec[c]: the exit record of c
  code,          \* code[p]: the status p exits with
  corrupt,       \* a freed record was written to: what malloc and free do
                 \* from then on is undefined, and such steps are not taken
  loaded,        \* history: what load returned in c
  result         \* history: the last call of p that returned

vars == <<pc, arg, lock_exec, sema_exec, success, exiting_lock, exit_list, rec,
          code, corrupt, loaded, result>>
shared == <<lock_exec, sema_exec, success>>
records == <<exiting_lock, exit_list, rec, code, corrupt>>

PC == {"none", "load", "up", "test", "user", "exec", "create", "execwait",
       "waiting", "exit", "exiting", "notified", "dead"}
\* freed counts the calls of free for the record.
Record == [abandoned : BOOLEAN, status : ExitStatus \cup {-1}, sema : {0, 1},
           freed : 0..2]
Result == [of : {"none", "exec", "wait"}, child : Proc \cup {None},
           value : Proc \cup {None} \cup ExitStatus \cup {-1}]

TypeOK == /\ pc \in [Proc -> PC]
          /\ arg \in [Proc -> Proc \cup {None}]
          /\ lock_exec \in Proc \cup {None}
          /\ sema_exec \in {0, 1}
          /\ success \in BOOLEAN
          /\ exiting_lock \in Proc \cup {None}
          /\ exit_list \in [Proc -> SUBSET Proc]
          /\ rec \in [Proc -> Record]
          /\ code \in [Proc -> ExitStatus \cup {-1}]
          /\ corrupt \in BOOLEAN
          /\ loaded \in [Proc -> {"unknown", "yes", "no"}]
          /\ result \in [Proc -> Result]

\* The record thread_create makes (status is not set; nobody reads it so early).
NewRecord == [abandoned |-> FALSE, status |-> -1, sema |-> 0, freed |-> 0]

Init == /\ pc = [p \in Proc |-> IF p = Root THEN "user" ELSE "none"]
        /\ arg = [p \in Proc |-> None]
        /\ lock_exec = None
        /\ sema_exec = 0
        /\ success = FALSE
        /\ exiting_lock = None
        /\ exit_list = [p \in Proc |-> {}]
        /\ rec = [p \in Proc |-> NewRecord]
        /\ code = [p \in Proc |-> -1]
        /\ corrupt = FALSE
        /\ loaded = [p \in Proc |-> IF p = Root THEN "yes" ELSE "unknown"]
        /\ result = [p \in Proc |-> [of |-> "none", child |-> None, value |-> None]]

Goto(p, l)  == pc' = [pc EXCEPT ![p] = l]
\* p runs its program (the initial thread: run_task) and may call the kernel.
Running(p)  == pc[p] = "user" /\ loaded[p] = "yes"
\* The initial thread's calls are process_wait (process_execute (task)), task
\* after task; a user program calls exec and wait as it likes.
MayExecute(p)  == p # Root \/ result[p].of # "exec"
MayWait(p, c)  == p # Root \/ (result[p].of = "exec" /\ result[p].value = c)
\* The bound on the number of processes: one has not been created yet.
Spare == \E c \in Proc : pc[c] = "none"
Return(p, of, c, v) ==
  result' = [result EXCEPT ![p] = [of |-> of, child |-> c, value |-> v]]

-----------------------------------------------------------------------------
\* process_execute.

Execute(p) ==
  /\ Running(p) /\ MayExecute(p)
  /\ Goto(p, "exec")
  /\ UNCHANGED <<arg, shared, records, loaded, result>>

\* No page for the copy of the command line.
ExecNoPage(p) ==
  /\ CreateFails
  /\ pc[p] = "exec"
  /\ Return(p, "exec", None, None)
  /\ Goto(p, "user")
  /\ UNCHANGED <<arg, shared, records, loaded>>

\* (variant: no lock around process_execute)
ExecLockFreeAlways(p) == TRUE
ExecLockFree(p) == lock_exec = None
ExecLock(p) ==
  /\ pc[p] = "exec" /\ Spare
  /\ ExecLockFree(p)
  /\ lock_exec' = p
  /\ Goto(p, "create")
  /\ UNCHANGED <<arg, sema_exec, success, records, loaded, result>>

Create(p, c) ==
  /\ pc[p] = "create" /\ pc[c] = "none"
  /\ ~corrupt
  /\ rec' = [rec EXCEPT ![c] = NewRecord]
  /\ exit_list' = [exit_list EXCEPT ![p] = @ \cup {c}]
  /\ arg' = [arg EXCEPT ![p] = c]
  /\ pc' = [pc EXCEPT ![p] = "execwait", ![c] = "load"]
  /\ UNCHANGED <<shared, exiting_lock, code, corrupt, loaded, result>>

\* thread_create returns TID_ERROR; sema_down comes all the same.
CreateFail(p) ==
  /\ CreateFails
  /\ pc[p] = "create"
  /\ arg' = [arg EXCEPT ![p] = None]
  /\ Goto(p, "execwait")
  /\ UNCHANGED <<shared, records, loaded, result>>

\* (variant: the parent does not wait for sema_exec)
ExecReadyAtOnce(p) == TRUE
ExecReady(p) == sema_exec > 0
\* sema_down (&sema_exec) returns: the result, and the lock is released.
ExecReturn(p) ==
  /\ pc[p] = "execwait"
  /\ ExecReady(p)
  /\ sema_exec' = sema_exec - 1
  /\ lock_exec' = None
  /\ Return(p, "exec", arg[p], IF success THEN arg[p] ELSE None)
  /\ Goto(p, "user")
  /\ UNCHANGED <<arg, success, records, loaded>>

-----------------------------------------------------------------------------
\* start_process.

Load(c) ==
  /\ pc[c] = "load"
  /\ \E ok \in {TRUE, ~LoadFails} :
       /\ success' = ok
       /\ loaded' = [loaded EXCEPT ![c] = IF ok THEN "yes" ELSE "no"]
  /\ Goto(c, "up")
  /\ UNCHANGED <<arg, lock_exec, sema_exec, records, result>>

\* (variant: sema_up is forgotten)
UppedNot(n) == n
Upped(n) == n + 1
LoadUp(c) ==
  /\ pc[c] = "up"
  /\ sema_exec' = Upped(sema_exec)
  /\ Goto(c, "test")
  /\ UNCHANGED <<arg, lock_exec, success, records, loaded, result>>

\* "If load failed, quit": reads the global again, after the sema_up.
LoadTest(c) ==
  /\ pc[c] = "test"
  /\ Goto(c, IF success THEN "user" ELSE "dead")
  /\ UNCHANGED <<arg, shared, records, loaded, result>>

-----------------------------------------------------------------------------
\* process_wait.

\* (variant: the record stays on the list)
UnlistedNot(p, c) == exit_list
Unlisted(p, c) == [exit_list EXCEPT ![p] = @ \ {c}]

Wait(p, c) ==
  /\ Running(p) /\ MayWait(p, c)
  /\ c \in exit_list[p]
  /\ exit_list' = Unlisted(p, c)
  /\ arg' = [arg EXCEPT ![p] = c]
  /\ Goto(p, "waiting")
  /\ UNCHANGED <<shared, exiting_lock, rec, code, corrupt, loaded, result>>

WaitMiss(p, c) ==
  /\ Running(p) /\ MayWait(p, c)
  /\ c \notin exit_list[p]
  /\ Return(p, "wait", None, -1)
  /\ UNCHANGED <<pc, arg, shared, records, loaded>>

\* The record is not freed: the call of free is commented out.
WaitReturn(p) ==
  /\ pc[p] = "waiting"
  /\ rec[arg[p]].sema > 0
  /\ rec' = [rec EXCEPT ![arg[p]].sema = @ - 1]
  /\ Return(p, "wait", arg[p], rec[arg[p]].status)
  /\ Goto(p, "user")
  /\ UNCHANGED <<arg, shared, exiting_lock, exit_list, code, corrupt, loaded>>

-----------------------------------------------------------------------------
\* syscall_exit, and the other ways to end.

\* exit(status), or status -1 for a bad pointer, a bad descriptor or a page
\* fault: what a process whose load failed runs into when it gets to run.
Exit(p, status) ==
  /\ p # Root /\ pc[p] = "user"
  /\ loaded[p] = "yes" \/ status = -1
  /\ code' = [code EXCEPT ![p] = status]
  /\ Goto(p, "exit")
  /\ UNCHANGED <<arg, shared, exiting_lock, exit_list, rec, corrupt, loaded, result>>

\* (variant: no lock in syscall_exit)
ExitLockFreeAlways(p) == TRUE
ExitLockFree(p) == exiting_lock = None
ExitLock(p) ==
  /\ pc[p] = "exit"
  /\ ExitLockFree(p)
  /\ exiting_lock' = p
  /\ Goto(p, "exiting")
  /\ UNCHANGED <<arg, shared, exit_list, rec, code, corrupt, loaded, result>>

\* A child's record: freed if the child has exited, and marked abandoned in
\* either case.
Reaped(r) == [r EXCEPT !.abandoned = TRUE,
                       !.freed = IF r.sema > 0 THEN @ + 1 ELSE @]
ExitChild(p, c) ==
  /\ pc[p] = "exiting" /\ c \in exit_list[p]
  /\ rec[c].sema > 0 => ~corrupt
  /\ exit_list' = Unlisted(p, c)
  /\ rec' = [rec EXCEPT ![c] = Reaped(@)]
  /\ corrupt' = (corrupt \/ rec[c].sema > 0)
  /\ UNCHANGED <<pc, arg, shared, exiting_lock, code, loaded, result>>

\* (variant: the parent is woken before the status is set)
NotifiedWithoutStatus(r, status) == [r EXCEPT !.sema = @ + 1]
\* (variant: the parent is not woken)
NotifiedSilently(r, status) == [r EXCEPT !.status = status]
\* The record with the status, and upped.
Notified(r, status) == [r EXCEPT !.status = status, !.sema = @ + 1]

ExitNotify(p) ==
  /\ pc[p] = "exiting" /\ exit_list[p] = {}
  /\ rec' = [rec EXCEPT ![p] = Notified(@, code[p])]
  /\ Goto(p, "notified")
  /\ UNCHANGED <<arg, shared, exiting_lock, exit_list, code, corrupt, loaded, result>>

\* (variant: the child frees its record whether or not the parent is gone)
FreesAlways(r) == TRUE
FreesItself(r) == r.abandoned
Ended(r) == [r EXCEPT !.freed = IF FreesItself(r) THEN @ + 1 ELSE @]
\* (variant: the lock is not released)
ExitLockKept(p) == p
ExitUnlocked(p) == None
ExitEnd(p) ==
  /\ pc[p] = "notified"
  /\ FreesItself(rec[p]) => ~corrupt
  /\ rec' = [rec EXCEPT ![p] = Ended(@)]
  /\ exiting_lock' = ExitUnlocked(p)
  /\ Goto(p, "dead")
  /\ UNCHANGED <<arg, shared, exit_list, code, corrupt, loaded, result>>

\* kill: thread_exit without syscall_exit.
Kill(p) ==
  /\ Kills
  /\ p # Root /\ Running(p)
  /\ Goto(p, "dead")
  /\ UNCHANGED <<arg, shared, records, loaded, result>>

-----------------------------------------------------------------------------
\* What a process inside the kernel does next by itself.
Proceed(p) == \/ ExecNoPage(p) \/ ExecLock(p)
              \/ \E c \in Proc : Create(p, c)
              \/ CreateFail(p) \/ ExecReturn(p)
              \/ Load(p) \/ LoadUp(p) \/ LoadTest(p)
              \/ WaitReturn(p)
              \/ ExitLock(p)
              \/ \E c \in Proc : ExitChild(p, c)
              \/ ExitNotify(p) \/ ExitEnd(p)

Next == \E p \in Proc :
          \/ Proceed(p)
          \/ Execute(p)
          \/ \E c \in Proc : Wait(p, c)
          \/ \E c \in Proc \cup {None} : WaitMiss(p, c)
          \/ \E status \in ExitStatus \cup {-1} : Exit(p, status)
          \/ Kill(p)

Spec == Init /\ [][Next]_vars

\* A process in the kernel runs on; what a user program does is its own affair.
FairSpec == Spec /\ \A p \in Proc : WF_vars(Proceed(p))

-----------------------------------------------------------------------------
\* Properties.

\* exec returns a child's tid exactly when that child's load succeeded: with
\* sema_exec and success shared by all processes, nobody takes another's.
ExecHonest ==
  \A p \in Proc : result[p].of = "exec" =>
    LET c == result[p].child
    IN  result[p].value = IF c # None /\ loaded[c] = "yes" THEN c ELSE None

\* The status wait returns is the one the child exited with, although the
\* parent may run before the child has left syscall_exit.
StatusRight ==
  \A p \in Proc : result[p].of = "wait" /\ result[p].child # None =>
    /\ pc[result[p].child] \in {"notified", "dead"}
    /\ result[p].value = code[result[p].child]

\* p has the record of c: on its list, or taken off it by its wait.
Holds(p, c) == c \in exit_list[p] \/ (pc[p] = "waiting" /\ arg[p] = c)

\* A record belongs to one parent and is allocated as long as that parent may
\* touch it: neither the child nor anyone else frees it before.
RecordOwned ==
  \A p, c \in Proc : Holds(p, c) =>
    /\ rec[c].freed = 0
    /\ \A q \in Proc : Holds(q, c) => q = p

\* The parent's exit and the child's race for the record of a child nobody
\* waited for: whichever comes last frees it, and nobody frees it twice ("the
\* child will eventually either be reaped by the exiting parent, or will free
\* its own memory before exiting").
ReapedByOne ==
  \A c \in Proc :
    rec[c].freed = IF rec[c].abandoned /\ rec[c].sema = 1 /\ pc[c] = "dead"
                   THEN 1 ELSE 0

\* A status is delivered once: nobody has the record of a child that a wait
\* returned for, so that the next wait for it returns -1 immediately.
WaitOnce ==
  \A p, q \in Proc : result[p].of = "wait" /\ result[p].child # None =>
    ~Holds(q, result[p].child)

\* "If load failed, quit": only a process whose load succeeded runs.
LoadFailedQuits == \A p \in Proc : pc[p] = "user" => loaded[p] = "yes"

\* A wait for a process that is dead returns ("if it was terminated by the
\* kernel, returns -1").
WaitReturns ==
  \A p, c \in Proc :
    (pc[p] = "waiting" /\ arg[p] = c /\ pc[c] = "dead") ~> (pc[p] = "user")

\* process_execute returns, "or TID_ERROR if the thread cannot be created".
\* (Nothing is said once the heap is damaged.)
ExecReturns == \A p \in Proc : pc[p] = "create" ~> (pc[p] = "user" \/ corrupt)

\* A process that called exit gets the lock in syscall_exit and ends: nobody
\* keeps the lock waiting for something its owner must do.
ExitEnds == \A p \in Proc : pc[p] = "exit" ~> (pc[p] = "dead" \/ corrupt)
=============================================================================
