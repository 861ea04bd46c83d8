--------------------------- MODULE ProcessProofs ---------------------------
(***************************************************************************)
(* Proofs about Process, for any set of processes and any failures: what   *)
(* exec and wait return is right, and an exit record has one owner and is  *)
(* freed once.                                                             *)
(***************************************************************************)
EXTENDS Process, TLAPS

-----------------------------------------------------------------------------
\* The inductive invariant.

\* The locks have the holders that are between acquire and release.
LocksOK ==
  /\ \A p \in Proc : pc[p] \in {"create", "execwait"} <=> lock_exec = p
  /\ \A p \in Proc : pc[p] \in {"exiting", "notified"} <=> exiting_lock = p

\* The handshake of one exec at a time: until the child's sema_up the holder
\* of lock_exec waits for that child; from then on success is that child's
\* until the holder has read it.
ExecOK ==
  /\ \A c \in Proc : loaded[c] = "unknown" <=> pc[c] \in {"none", "load"}
  /\ \A c \in Proc : pc[c] \in {"load", "up"} =>
       /\ sema_exec = 0
       /\ lock_exec \in Proc /\ pc[lock_exec] = "execwait" /\ arg[lock_exec] = c
  /\ \A c \in Proc : pc[c] = "up" => (success <=> loaded[c] = "yes")
  /\ sema_exec = 1 =>
       /\ lock_exec \in Proc /\ pc[lock_exec] = "execwait"
       /\ arg[lock_exec] \in Proc
       /\ loaded[arg[lock_exec]] # "unknown"
       /\ success <=> loaded[arg[lock_exec]] = "yes"

\* What exec returned: its child has been loaded, and the result says how.
ExecResultsOK ==
  \A p \in Proc : result[p].of = "exec" =>
    \/ result[p].child = None /\ result[p].value = None
    \/ /\ result[p].child \in Proc
       /\ loaded[result[p].child] # "unknown"
       /\ result[p].value = IF loaded[result[p].child] = "yes" THEN result[p].child
                            ELSE None

\* Who has a record: nobody before the process exists, one parent at most, and
\* none once it is abandoned; a wait takes it off the list.
OwnersOK ==
  /\ \A p \in Proc : pc[p] = "waiting" => arg[p] \in Proc /\ arg[p] \notin exit_list[p]
  /\ \A p, c \in Proc : Holds(p, c) => pc[c] # "none" /\ ~rec[c].abandoned
  /\ \A p, q, c \in Proc : Holds(p, c) /\ Holds(q, c) => p = q

\* What a record says about its process, and when it is freed.
RecordsOK ==
  \A c \in Proc :
    /\ pc[c] = "none" => rec[c] = NewRecord
    /\ rec[c].sema = 1 => pc[c] \in {"notified", "dead"} /\ rec[c].status = code[c]
    /\ pc[c] = "notified" /\ rec[c].abandoned => rec[c].sema = 1
    /\ rec[c].freed = IF rec[c].abandoned /\ rec[c].sema = 1 /\ pc[c] = "dead"
                      THEN 1 ELSE 0

\* What wait returned: the status of a child that has ended and that nobody
\* can wait for again.
WaitResultsOK ==
  \A p \in Proc : result[p].of = "wait" /\ result[p].child # None =>
    /\ result[p].child \in Proc
    /\ pc[result[p].child] \in {"notified", "dead"}
    /\ result[p].value = code[result[p].child]
    /\ \A q \in Proc : ~Holds(q, result[p].child)

IInv == TypeOK /\ LocksOK /\ ExecOK /\ ExecResultsOK /\ OwnersOK /\ RecordsOK
        /\ WaitResultsOK

-----------------------------------------------------------------------------
\* Every step keeps the invariant, action by action.

\* A record an exiting parent reaps or abandons is still a record.
LEMMA ReapedType ==
  ASSUME NEW r \in Record, r.freed \in {0, 1}
  PROVE  Reaped(r) \in Record
<1>1. PICK q \in Record : q = [r EXCEPT !.abandoned = TRUE]
  BY Zenon DEF Record
<1>2. q.freed = r.freed
  BY <1>1 DEF Record
<1>3. PICK n \in 0..2 : n = IF r.sema > 0 THEN q.freed + 1 ELSE q.freed
  BY <1>2 DEF Record
<1>4. [q EXCEPT !.freed = n] \in Record
  BY DEF Record
<1>. QED  BY <1>1, <1>2, <1>3, <1>4 DEF Reaped

\* So is one whose process notifies its parent for the first time.
LEMMA NotifiedType ==
  ASSUME NEW r \in Record, NEW status \in ExitStatus \cup {-1}, r.sema = 0
  PROVE  Notified(r, status) \in Record
<1>1. PICK q \in Record : q = [r EXCEPT !.status = status]
  BY Zenon DEF Record
<1>2. q.sema = 0
  BY <1>1 DEF Record
<1>3. [q EXCEPT !.sema = q.sema + 1] \in Record
  BY <1>2 DEF Record
<1>. QED  BY <1>1, <1>3, Zenon DEF Notified

\* And one whose process ends.
LEMMA EndedType ==
  ASSUME NEW r \in Record, r.freed \in {0, 1}
  PROVE  Ended(r) \in Record
BY DEF Record, Ended

\* The call of process_execute keeps the invariant.
LEMMA ExecuteStep ==
  ASSUME IInv, NEW p \in Proc, Execute(p)
  PROVE  IInv'
<1>1. TypeOK'
  BY DEF IInv, TypeOK, Record, Result, PC, Execute, Goto, Running,
      MayExecute, shared, records
<1>2. LocksOK'
  BY DEF IInv, TypeOK, LocksOK, Execute, Goto, Running, MayExecute, shared,
      records
<1>3. ExecOK'
  BY DEF IInv, TypeOK, LocksOK, ExecOK, Execute, Goto, Running, MayExecute,
      shared, records
<1>4. ExecResultsOK'
  BY DEF IInv, TypeOK, Result, LocksOK, ExecOK, ExecResultsOK, Execute,
      Goto, Running, MayExecute, shared, records
<1>5. OwnersOK'
  BY DEF IInv, TypeOK, OwnersOK, Holds, Execute, Goto, Running, MayExecute,
      shared, records
<1>6. RecordsOK'
  BY DEF IInv, TypeOK, Record, LocksOK, OwnersOK, Holds, RecordsOK, Execute,
      Goto, Running, MayExecute, shared, records
<1>7. WaitResultsOK'
  BY DEF IInv, TypeOK, Record, Result, OwnersOK, Holds, RecordsOK,
      WaitResultsOK, Execute, Goto, Running, MayExecute, shared, records
<1>. QED  BY <1>1, <1>2, <1>3, <1>4, <1>5, <1>6, <1>7 DEF IInv

\* The return for lack of a page keeps the invariant.
LEMMA ExecNoPageStep ==
  ASSUME IInv, NEW p \in Proc, ExecNoPage(p)
  PROVE  IInv'
<1>1. TypeOK'
  BY DEF IInv, TypeOK, Record, Result, PC, ExecNoPage, Goto, Return, shared,
      records
<1>2. LocksOK'
  BY DEF IInv, TypeOK, LocksOK, ExecNoPage, Goto, Return, shared, records
<1>3. ExecOK'
  BY DEF IInv, TypeOK, LocksOK, ExecOK, ExecNoPage, Goto, Return, shared,
      records
<1>4. ExecResultsOK'
  BY DEF IInv, TypeOK, Result, LocksOK, ExecOK, ExecResultsOK, ExecNoPage,
      Goto, Return, shared, records
<1>5. OwnersOK'
  BY DEF IInv, TypeOK, OwnersOK, Holds, ExecNoPage, Goto, Return, shared,
      records
<1>6. RecordsOK'
  BY DEF IInv, TypeOK, Record, LocksOK, OwnersOK, Holds, RecordsOK,
      ExecNoPage, Goto, Return, shared, records
<1>7. WaitResultsOK'
  BY DEF IInv, TypeOK, Record, Result, OwnersOK, Holds, RecordsOK,
      WaitResultsOK, ExecNoPage, Goto, Return, shared, records
<1>. QED  BY <1>1, <1>2, <1>3, <1>4, <1>5, <1>6, <1>7 DEF IInv

\* The acquisition of lock_exec keeps the invariant.
LEMMA ExecLockStep ==
  ASSUME IInv, NEW p \in Proc, ExecLock(p)
  PROVE  IInv'
<1>1. TypeOK'
  BY DEF IInv, TypeOK, Record, Result, PC, ExecLock, Goto, ExecLockFree,
      records
<1>2. LocksOK'
  BY ProcAssumption DEF IInv, TypeOK, LocksOK, ExecLock, Goto, ExecLockFree,
      records
<1>3. ExecOK'
  BY ProcAssumption DEF IInv, TypeOK, LocksOK, ExecOK, ExecLock, Goto,
      ExecLockFree, records
<1>4. ExecResultsOK'
  BY DEF IInv, TypeOK, Result, LocksOK, ExecOK, ExecResultsOK, ExecLock,
      Goto, ExecLockFree, records
<1>5. OwnersOK'
  BY DEF IInv, TypeOK, OwnersOK, Holds, ExecLock, Goto, ExecLockFree,
      records
<1>6. RecordsOK'
  BY DEF IInv, TypeOK, Record, LocksOK, OwnersOK, Holds, RecordsOK,
      ExecLock, Goto, ExecLockFree, records
<1>7. WaitResultsOK'
  BY DEF IInv, TypeOK, Record, Result, OwnersOK, Holds, RecordsOK,
      WaitResultsOK, ExecLock, Goto, ExecLockFree, records
<1>. QED  BY <1>1, <1>2, <1>3, <1>4, <1>5, <1>6, <1>7 DEF IInv

\* The creation of a child keeps the invariant.
LEMMA CreateStep ==
  ASSUME IInv, NEW p \in Proc, NEW c \in Proc, Create(p, c)
  PROVE  IInv'
<1>1. TypeOK'
  BY Zenon DEF IInv, TypeOK, Record, PC, OwnersOK, RecordsOK, Create, shared,
      NewRecord
<1>2. LocksOK'
  BY DEF IInv, TypeOK, LocksOK, Create, shared, NewRecord
<1>3. ExecOK'
  BY DEF IInv, TypeOK, LocksOK, ExecOK, Create, shared, NewRecord
<1>4. ExecResultsOK'
  BY DEF IInv, TypeOK, Result, LocksOK, ExecOK, ExecResultsOK, Create,
      shared, NewRecord
<1>5. OwnersOK'
  BY DEF IInv, TypeOK, OwnersOK, Holds, Create, shared, NewRecord
<1>6. RecordsOK'
  BY DEF IInv, TypeOK, Record, LocksOK, OwnersOK, Holds, RecordsOK, Create,
      shared, NewRecord
<1>7. WaitResultsOK'
  BY DEF IInv, TypeOK, Record, Result, OwnersOK, Holds, RecordsOK,
      WaitResultsOK, Create, shared, NewRecord
<1>. QED  BY <1>1, <1>2, <1>3, <1>4, <1>5, <1>6, <1>7 DEF IInv

\* The failure to create one keeps the invariant.
LEMMA CreateFailStep ==
  ASSUME IInv, NEW p \in Proc, CreateFail(p)
  PROVE  IInv'
<1>1. TypeOK'
  BY DEF IInv, TypeOK, Record, Result, PC, CreateFail, Goto, shared, records
<1>2. LocksOK'
  BY DEF IInv, TypeOK, LocksOK, CreateFail, Goto, shared, records
<1>3. ExecOK'
  BY DEF IInv, TypeOK, LocksOK, ExecOK, CreateFail, Goto, shared, records
<1>4. ExecResultsOK'
  BY DEF IInv, TypeOK, Result, LocksOK, ExecOK, ExecResultsOK, CreateFail,
      Goto, shared, records
<1>5. OwnersOK'
  BY DEF IInv, TypeOK, OwnersOK, Holds, CreateFail, Goto, shared, records
<1>6. RecordsOK'
  BY DEF IInv, TypeOK, Record, LocksOK, OwnersOK, Holds, RecordsOK,
      CreateFail, Goto, shared, records
<1>7. WaitResultsOK'
  BY DEF IInv, TypeOK, Record, Result, OwnersOK, Holds, RecordsOK,
      WaitResultsOK, CreateFail, Goto, shared, records
<1>. QED  BY <1>1, <1>2, <1>3, <1>4, <1>5, <1>6, <1>7 DEF IInv

\* The return of process_execute keeps the invariant.
LEMMA ExecReturnStep ==
  ASSUME IInv, NEW p \in Proc, ExecReturn(p)
  PROVE  IInv'
<1>1. TypeOK'
  BY DEF IInv, TypeOK, Record, Result, PC, ExecReturn, Goto, Return,
      ExecReady, records
<1>2. LocksOK'
  BY ProcAssumption DEF IInv, TypeOK, LocksOK, ExecReturn, Goto, Return,
      ExecReady, records
<1>3. ExecOK'
  BY DEF IInv, TypeOK, LocksOK, ExecOK, ExecReturn, Goto, Return, ExecReady,
      records
<1>4. ExecResultsOK'
  BY DEF IInv, TypeOK, Result, LocksOK, ExecOK, ExecResultsOK, ExecReturn,
      Goto, Return, ExecReady, records
<1>5. OwnersOK'
  BY DEF IInv, TypeOK, OwnersOK, Holds, ExecReturn, Goto, Return, ExecReady,
      records
<1>6. RecordsOK'
  BY DEF IInv, TypeOK, Record, LocksOK, OwnersOK, Holds, RecordsOK,
      ExecReturn, Goto, Return, ExecReady, records
<1>7. WaitResultsOK'
  BY DEF IInv, TypeOK, Record, Result, OwnersOK, Holds, RecordsOK,
      WaitResultsOK, ExecReturn, Goto, Return, ExecReady, records
<1>. QED  BY <1>1, <1>2, <1>3, <1>4, <1>5, <1>6, <1>7 DEF IInv

\* A child's load keeps the invariant.
LEMMA LoadStep ==
  ASSUME IInv, NEW p \in Proc, Load(p)
  PROVE  IInv'
<1>1. TypeOK'
  <2>1. PICK ok \in {TRUE, ~LoadFails} :
          /\ success' = ok
          /\ loaded' = [loaded EXCEPT ![p] = IF ok THEN "yes" ELSE "no"]
    BY Zenon DEF Load
  <2>2. ok \in BOOLEAN
    BY ProcAssumption, Zenon
  <2>3. loaded' \in [Proc -> {"unknown", "yes", "no"}]
    BY <2>1 DEF IInv, TypeOK
  <2>4. pc' \in [Proc -> PC]
    BY DEF IInv, TypeOK, PC, Load, Goto
  <2>. QED  BY <2>1, <2>2, <2>3, <2>4 DEF IInv, TypeOK, Load, records
<1>2. LocksOK'
  BY DEF IInv, TypeOK, LocksOK, Load, Goto, records
<1>3. ExecOK'
  BY DEF IInv, TypeOK, LocksOK, ExecOK, Load, Goto, records
<1>4. ExecResultsOK'
  BY DEF IInv, TypeOK, Result, LocksOK, ExecOK, ExecResultsOK, Load, Goto,
      records
<1>5. OwnersOK'
  BY DEF IInv, TypeOK, OwnersOK, Holds, Load, Goto, records
<1>6. RecordsOK'
  BY DEF IInv, TypeOK, Record, LocksOK, OwnersOK, Holds, RecordsOK, Load,
      Goto, records
<1>7. WaitResultsOK'
  BY DEF IInv, TypeOK, Record, Result, OwnersOK, Holds, RecordsOK,
      WaitResultsOK, Load, Goto, records
<1>. QED  BY <1>1, <1>2, <1>3, <1>4, <1>5, <1>6, <1>7 DEF IInv

\* Its sema_up keeps the invariant.
LEMMA LoadUpStep ==
  ASSUME IInv, NEW p \in Proc, LoadUp(p)
  PROVE  IInv'
<1>1. TypeOK'
  BY DEF IInv, TypeOK, PC, ExecOK, LoadUp, Goto, Upped, records
<1>2. LocksOK'
  BY DEF IInv, TypeOK, LocksOK, LoadUp, Goto, Upped, records
<1>3. ExecOK'
  BY DEF IInv, TypeOK, LocksOK, ExecOK, LoadUp, Goto, Upped, records
<1>4. ExecResultsOK'
  BY DEF IInv, TypeOK, Result, LocksOK, ExecOK, ExecResultsOK, LoadUp, Goto,
      Upped, records
<1>5. OwnersOK'
  BY DEF IInv, TypeOK, OwnersOK, Holds, LoadUp, Goto, Upped, records
<1>6. RecordsOK'
  BY DEF IInv, TypeOK, Record, LocksOK, OwnersOK, Holds, RecordsOK, LoadUp,
      Goto, Upped, records
<1>7. WaitResultsOK'
  BY DEF IInv, TypeOK, Record, Result, OwnersOK, Holds, RecordsOK,
      WaitResultsOK, LoadUp, Goto, Upped, records
<1>. QED  BY <1>1, <1>2, <1>3, <1>4, <1>5, <1>6, <1>7 DEF IInv

\* Its test of success keeps the invariant.
LEMMA LoadTestStep ==
  ASSUME IInv, NEW p \in Proc, LoadTest(p)
  PROVE  IInv'
<1>1. TypeOK'
  BY DEF IInv, TypeOK, Record, Result, PC, LoadTest, Goto, shared, records
<1>2. LocksOK'
  BY DEF IInv, TypeOK, LocksOK, LoadTest, Goto, shared, records
<1>3. ExecOK'
  BY DEF IInv, TypeOK, LocksOK, ExecOK, LoadTest, Goto, shared, records
<1>4. ExecResultsOK'
  BY DEF IInv, TypeOK, Result, LocksOK, ExecOK, ExecResultsOK, LoadTest,
      Goto, shared, records
<1>5. OwnersOK'
  BY DEF IInv, TypeOK, OwnersOK, Holds, LoadTest, Goto, shared, records
<1>6. RecordsOK'
  BY DEF IInv, TypeOK, Record, LocksOK, OwnersOK, Holds, RecordsOK,
      LoadTest, Goto, shared, records
<1>7. WaitResultsOK'
  BY DEF IInv, TypeOK, Record, Result, OwnersOK, Holds, RecordsOK,
      WaitResultsOK, LoadTest, Goto, shared, records
<1>. QED  BY <1>1, <1>2, <1>3, <1>4, <1>5, <1>6, <1>7 DEF IInv

\* A wait that finds the child keeps the invariant.
LEMMA WaitStep ==
  ASSUME IInv, NEW p \in Proc, NEW c \in Proc, Wait(p, c)
  PROVE  IInv'
<1>1. TypeOK'
  BY DEF IInv, TypeOK, Record, Result, PC, Wait, Goto, Running, MayWait,
      Unlisted, shared
<1>2. LocksOK'
  BY DEF IInv, TypeOK, LocksOK, Wait, Goto, Running, MayWait, Unlisted,
      shared
<1>3. ExecOK'
  BY DEF IInv, TypeOK, LocksOK, ExecOK, Wait, Goto, Running, MayWait,
      Unlisted, shared
<1>4. ExecResultsOK'
  BY DEF IInv, TypeOK, Result, LocksOK, ExecOK, ExecResultsOK, Wait, Goto,
      Running, MayWait, Unlisted, shared
<1>5. OwnersOK'
  BY DEF IInv, TypeOK, OwnersOK, Holds, Wait, Goto, Running, MayWait,
      Unlisted, shared
<1>6. RecordsOK'
  BY DEF IInv, TypeOK, Record, LocksOK, OwnersOK, Holds, RecordsOK, Wait,
      Goto, Running, MayWait, Unlisted, shared
<1>7. WaitResultsOK'
  BY DEF IInv, TypeOK, Record, Result, OwnersOK, Holds, RecordsOK,
      WaitResultsOK, Wait, Goto, Running, MayWait, Unlisted, shared
<1>. QED  BY <1>1, <1>2, <1>3, <1>4, <1>5, <1>6, <1>7 DEF IInv

\* A wait that does not keeps the invariant.
LEMMA WaitMissStep ==
  ASSUME IInv, NEW p \in Proc, NEW c \in Proc \cup {None}, WaitMiss(p, c)
  PROVE  IInv'
<1>1. TypeOK'
  BY DEF IInv, TypeOK, Record, Result, PC, WaitMiss, Running, MayWait,
      Return, shared, records
<1>2. LocksOK'
  BY DEF IInv, TypeOK, LocksOK, WaitMiss, Running, MayWait, Return, shared,
      records
<1>3. ExecOK'
  BY DEF IInv, TypeOK, LocksOK, ExecOK, WaitMiss, Running, MayWait, Return,
      shared, records
<1>4. ExecResultsOK'
  BY DEF IInv, TypeOK, Result, LocksOK, ExecOK, ExecResultsOK, WaitMiss,
      Running, MayWait, Return, shared, records
<1>5. OwnersOK'
  BY DEF IInv, TypeOK, OwnersOK, Holds, WaitMiss, Running, MayWait, Return,
      shared, records
<1>6. RecordsOK'
  BY DEF IInv, TypeOK, Record, LocksOK, OwnersOK, Holds, RecordsOK,
      WaitMiss, Running, MayWait, Return, shared, records
<1>7. WaitResultsOK'
  BY DEF IInv, TypeOK, Record, Result, OwnersOK, Holds, RecordsOK,
      WaitResultsOK, WaitMiss, Running, MayWait, Return, shared, records
<1>. QED  BY <1>1, <1>2, <1>3, <1>4, <1>5, <1>6, <1>7 DEF IInv

\* The return of process_wait keeps the invariant.
LEMMA WaitReturnStep ==
  ASSUME IInv, NEW p \in Proc, WaitReturn(p)
  PROVE  IInv'
<1>1. TypeOK'
  <2>1. PICK c \in Proc : c = arg[p]
    BY DEF IInv, OwnersOK, WaitReturn
  <2>2. rec[c] \in Record /\ rec[c].sema = 1
    BY <2>1 DEF IInv, TypeOK, Record, WaitReturn
  <2>3. rec' \in [Proc -> Record]
    BY <2>1, <2>2 DEF IInv, TypeOK, Record, WaitReturn
  <2>4. result' \in [Proc -> Result]
    BY <2>1, <2>2 DEF IInv, TypeOK, Record, Result, WaitReturn, Return
  <2>5. pc' \in [Proc -> PC]
    BY DEF IInv, TypeOK, PC, WaitReturn, Goto
  <2>. QED  BY <2>3, <2>4, <2>5 DEF IInv, TypeOK, WaitReturn, shared
<1>2. LocksOK'
  BY DEF IInv, TypeOK, LocksOK, WaitReturn, Goto, Return, shared
<1>3. ExecOK'
  BY DEF IInv, TypeOK, LocksOK, ExecOK, WaitReturn, Goto, Return, shared
<1>4. ExecResultsOK'
  BY DEF IInv, TypeOK, Result, LocksOK, ExecOK, ExecResultsOK, WaitReturn,
      Goto, Return, shared
<1>5. OwnersOK'
  BY DEF IInv, TypeOK, OwnersOK, Holds, WaitReturn, Goto, Return, shared
<1>6. RecordsOK'
  BY DEF IInv, TypeOK, Record, LocksOK, OwnersOK, Holds, RecordsOK,
      WaitReturn, Goto, Return, shared
<1>7. WaitResultsOK'
  BY DEF IInv, TypeOK, Record, Result, OwnersOK, Holds, RecordsOK,
      WaitResultsOK, WaitReturn, Goto, Return, shared
<1>. QED  BY <1>1, <1>2, <1>3, <1>4, <1>5, <1>6, <1>7 DEF IInv

\* The call of syscall_exit keeps the invariant.
LEMMA ExitStep ==
  ASSUME IInv, NEW p \in Proc, NEW status \in ExitStatus \cup {-1}, Exit(p, status)
  PROVE  IInv'
<1>1. TypeOK'
  BY DEF IInv, TypeOK, Record, Result, PC, Exit, Goto, shared
<1>2. LocksOK'
  BY DEF IInv, TypeOK, LocksOK, Exit, Goto, shared
<1>3. ExecOK'
  BY DEF IInv, TypeOK, LocksOK, ExecOK, Exit, Goto, shared
<1>4. ExecResultsOK'
  BY DEF IInv, TypeOK, Result, LocksOK, ExecOK, ExecResultsOK, Exit, Goto,
      shared
<1>5. OwnersOK'
  BY DEF IInv, TypeOK, OwnersOK, Holds, Exit, Goto, shared
<1>6. RecordsOK'
  BY DEF IInv, TypeOK, Record, LocksOK, OwnersOK, Holds, RecordsOK, Exit,
      Goto, shared
<1>7. WaitResultsOK'
  BY DEF IInv, TypeOK, Record, Result, OwnersOK, Holds, RecordsOK,
      WaitResultsOK, Exit, Goto, shared
<1>. QED  BY <1>1, <1>2, <1>3, <1>4, <1>5, <1>6, <1>7 DEF IInv

\* The acquisition of exiting_lock keeps the invariant.
LEMMA ExitLockStep ==
  ASSUME IInv, NEW p \in Proc, ExitLock(p)
  PROVE  IInv'
<1>1. TypeOK'
  BY DEF IInv, TypeOK, Record, Result, PC, ExitLock, Goto, ExitLockFree,
      shared
<1>2. LocksOK'
  BY ProcAssumption DEF IInv, TypeOK, LocksOK, ExitLock, Goto, ExitLockFree,
      shared
<1>3. ExecOK'
  BY DEF IInv, TypeOK, LocksOK, ExecOK, ExitLock, Goto, ExitLockFree, shared
<1>4. ExecResultsOK'
  BY DEF IInv, TypeOK, Result, LocksOK, ExecOK, ExecResultsOK, ExitLock,
      Goto, ExitLockFree, shared
<1>5. OwnersOK'
  BY DEF IInv, TypeOK, OwnersOK, Holds, ExitLock, Goto, ExitLockFree, shared
<1>6. RecordsOK'
  BY DEF IInv, TypeOK, Record, LocksOK, OwnersOK, Holds, RecordsOK,
      ExitLock, Goto, ExitLockFree, shared
<1>7. WaitResultsOK'
  BY DEF IInv, TypeOK, Record, Result, OwnersOK, Holds, RecordsOK,
      WaitResultsOK, ExitLock, Goto, ExitLockFree, shared
<1>. QED  BY <1>1, <1>2, <1>3, <1>4, <1>5, <1>6, <1>7 DEF IInv

\* One child of an exiting parent keeps the invariant.
LEMMA ExitChildStep ==
  ASSUME IInv, NEW p \in Proc, NEW c \in Proc, ExitChild(p, c)
  PROVE  IInv'
<1>1. TypeOK'
  <2>1. rec \in [Proc -> Record] /\ code[p] \in ExitStatus \cup {-1}
    BY DEF IInv, TypeOK
  <2>2. rec[c].freed \in {0, 1}
    BY <2>1 DEF IInv, RecordsOK, Record, ExitChild
  <2>3. Reaped(rec[c]) \in Record
    BY <2>1, <2>2, ReapedType
  <2>4. rec' \in [Proc -> Record]
    BY <2>1, <2>3 DEF ExitChild
  <2>5. pc' \in [Proc -> PC]
    BY DEF IInv, TypeOK, PC, ExitChild, Unlisted, shared
  <2>. QED  BY <2>4, <2>5 DEF IInv, TypeOK, ExitChild, Unlisted, shared
<1>2. LocksOK'
  BY DEF IInv, TypeOK, LocksOK, ExitChild, Reaped, Unlisted, shared
<1>3. ExecOK'
  BY DEF IInv, TypeOK, LocksOK, ExecOK, ExitChild, Reaped, Unlisted, shared
<1>4. ExecResultsOK'
  BY DEF IInv, TypeOK, Result, LocksOK, ExecOK, ExecResultsOK, ExitChild,
      Reaped, Unlisted, shared
<1>5. OwnersOK'
  BY DEF IInv, TypeOK, OwnersOK, Holds, ExitChild, Reaped, Unlisted, shared
<1>6. RecordsOK'
  BY DEF IInv, TypeOK, Record, LocksOK, OwnersOK, Holds, RecordsOK,
      ExitChild, Reaped, Unlisted, shared
<1>7. WaitResultsOK'
  BY DEF IInv, TypeOK, Record, Result, OwnersOK, Holds, RecordsOK,
      WaitResultsOK, ExitChild, Reaped, Unlisted, shared
<1>. QED  BY <1>1, <1>2, <1>3, <1>4, <1>5, <1>6, <1>7 DEF IInv

\* The notification of the parent keeps the invariant.
LEMMA ExitNotifyStep ==
  ASSUME IInv, NEW p \in Proc, ExitNotify(p)
  PROVE  IInv'
<1>1. TypeOK'
  <2>1. rec \in [Proc -> Record] /\ code[p] \in ExitStatus \cup {-1}
    BY DEF IInv, TypeOK
  <2>2. rec[p].sema = 0
    BY <2>1 DEF IInv, RecordsOK, Record, ExitNotify
  <2>3. Notified(rec[p], code[p]) \in Record
    BY <2>1, <2>2, NotifiedType
  <2>4. rec' \in [Proc -> Record]
    BY <2>1, <2>3 DEF ExitNotify
  <2>5. pc' \in [Proc -> PC]
    BY DEF IInv, TypeOK, PC, ExitNotify, Goto, shared
  <2>. QED  BY <2>4, <2>5 DEF IInv, TypeOK, ExitNotify, Goto, shared
<1>2. LocksOK'
  BY DEF IInv, TypeOK, LocksOK, ExitNotify, Goto, Notified, shared
<1>3. ExecOK'
  BY DEF IInv, TypeOK, LocksOK, ExecOK, ExitNotify, Goto, Notified, shared
<1>4. ExecResultsOK'
  BY DEF IInv, TypeOK, Result, LocksOK, ExecOK, ExecResultsOK, ExitNotify,
      Goto, Notified, shared
<1>5. OwnersOK'
  BY DEF IInv, TypeOK, OwnersOK, Holds, ExitNotify, Goto, Notified, shared
<1>6. RecordsOK'
  BY DEF IInv, TypeOK, Record, LocksOK, OwnersOK, Holds, RecordsOK,
      ExitNotify, Goto, Notified, shared
<1>7. WaitResultsOK'
  BY DEF IInv, TypeOK, Record, Result, OwnersOK, Holds, RecordsOK,
      WaitResultsOK, ExitNotify, Goto, Notified, shared
<1>. QED  BY <1>1, <1>2, <1>3, <1>4, <1>5, <1>6, <1>7 DEF IInv

\* The end of syscall_exit keeps the invariant.
LEMMA ExitEndStep ==
  ASSUME IInv, NEW p \in Proc, ExitEnd(p)
  PROVE  IInv'
<1>1. TypeOK'
  <2>1. rec \in [Proc -> Record] /\ code[p] \in ExitStatus \cup {-1}
    BY DEF IInv, TypeOK
  <2>2. rec[p].freed \in {0, 1}
    BY <2>1 DEF IInv, RecordsOK, Record, ExitEnd
  <2>3. Ended(rec[p]) \in Record
    BY <2>1, <2>2, EndedType
  <2>4. rec' \in [Proc -> Record]
    BY <2>1, <2>3 DEF ExitEnd
  <2>5. pc' \in [Proc -> PC]
    BY DEF IInv, TypeOK, PC, ExitEnd, Goto, ExitUnlocked, shared
  <2>. QED  BY <2>4, <2>5 DEF IInv, TypeOK, ExitEnd, Goto, ExitUnlocked, shared
<1>2. LocksOK'
  BY ProcAssumption DEF IInv, TypeOK, LocksOK, ExitEnd, Goto, Ended,
      FreesItself, ExitUnlocked, shared
<1>3. ExecOK'
  BY DEF IInv, TypeOK, LocksOK, ExecOK, ExitEnd, Goto, Ended, FreesItself,
      ExitUnlocked, shared
<1>4. ExecResultsOK'
  BY DEF IInv, TypeOK, Result, LocksOK, ExecOK, ExecResultsOK, ExitEnd,
      Goto, Ended, FreesItself, ExitUnlocked, shared
<1>5. OwnersOK'
  BY DEF IInv, TypeOK, OwnersOK, Holds, ExitEnd, Goto, Ended, FreesItself,
      ExitUnlocked, shared
<1>6. RecordsOK'
  BY DEF IInv, TypeOK, Record, LocksOK, OwnersOK, Holds, RecordsOK, ExitEnd,
      Goto, Ended, FreesItself, ExitUnlocked, shared
<1>7. WaitResultsOK'
  BY DEF IInv, TypeOK, Record, Result, OwnersOK, Holds, RecordsOK,
      WaitResultsOK, ExitEnd, Goto, Ended, FreesItself, ExitUnlocked, shared
<1>. QED  BY <1>1, <1>2, <1>3, <1>4, <1>5, <1>6, <1>7 DEF IInv

\* An exception keeps the invariant.
LEMMA KillStep ==
  ASSUME IInv, NEW p \in Proc, Kill(p)
  PROVE  IInv'
<1>1. TypeOK'
  BY DEF IInv, TypeOK, Record, Result, PC, Kill, Goto, Running, shared,
      records
<1>2. LocksOK'
  BY DEF IInv, TypeOK, LocksOK, Kill, Goto, Running, shared, records
<1>3. ExecOK'
  BY DEF IInv, TypeOK, LocksOK, ExecOK, Kill, Goto, Running, shared, records
<1>4. ExecResultsOK'
  BY DEF IInv, TypeOK, Result, LocksOK, ExecOK, ExecResultsOK, Kill, Goto,
      Running, shared, records
<1>5. OwnersOK'
  BY DEF IInv, TypeOK, OwnersOK, Holds, Kill, Goto, Running, shared, records
<1>6. RecordsOK'
  BY DEF IInv, TypeOK, Record, LocksOK, OwnersOK, Holds, RecordsOK, Kill,
      Goto, Running, shared, records
<1>7. WaitResultsOK'
  BY DEF IInv, TypeOK, Record, Result, OwnersOK, Holds, RecordsOK,
      WaitResultsOK, Kill, Goto, Running, shared, records
<1>. QED  BY <1>1, <1>2, <1>3, <1>4, <1>5, <1>6, <1>7 DEF IInv

-----------------------------------------------------------------------------
\* The initial thread alone satisfies the invariant.
LEMMA InitInv == Init => IInv
<1>. SUFFICES ASSUME Init PROVE IInv
  OBVIOUS
<1>1. TypeOK
  <2>1. NewRecord \in Record
    BY DEF Record, NewRecord
  <2>2. [of |-> "none", child |-> None, value |-> None] \in Result
    BY DEF Result
  <2>3. pc \in [Proc -> PC]
    BY DEF Init, PC
  <2>. QED  BY <2>1, <2>2, <2>3, Zenon DEF Init, TypeOK
<1>2. LocksOK /\ ExecOK /\ ExecResultsOK
  BY ProcAssumption DEF Init, LocksOK, ExecOK, ExecResultsOK
<1>3. OwnersOK /\ RecordsOK /\ WaitResultsOK
  BY ProcAssumption DEF Init, OwnersOK, Holds, RecordsOK, WaitResultsOK, NewRecord
<1>. QED  BY <1>1, <1>2, <1>3 DEF IInv

\* A stuttering step keeps the invariant.
LEMMA StutterInv == IInv /\ UNCHANGED vars => IInv'
BY DEF IInv, vars, TypeOK, LocksOK, ExecOK, ExecResultsOK, OwnersOK, Holds, RecordsOK,
       WaitResultsOK

\* What a process does inside the kernel by itself keeps the invariant.
LEMMA ProceedInv ==
  ASSUME IInv, NEW p \in Proc, Proceed(p)
  PROVE  IInv'
BY ExecNoPageStep, ExecLockStep, CreateStep, CreateFailStep, ExecReturnStep, LoadStep,
   LoadUpStep, LoadTestStep, WaitReturnStep, ExitLockStep, ExitChildStep, ExitNotifyStep,
   ExitEndStep DEF Proceed

\* Every step of every process keeps the invariant.
LEMMA NextInv == IInv /\ Next => IInv'
BY ProceedInv, ExecuteStep, WaitStep, WaitMissStep, ExitStep, KillStep DEF Next

\* The invariant holds in every reachable state, whatever fails.
THEOREM Invariance == Spec => []IInv
<1>1. IInv /\ [Next]_vars => IInv'
  BY NextInv, StutterInv
<1>. QED  BY InitInv, <1>1, PTL DEF Spec

-----------------------------------------------------------------------------
\* The variables of Process keep their types: sema_exec and the semaphore of a
\* record are never upped twice.
THEOREM TypeCorrect == Spec => []TypeOK
<1>1. IInv => TypeOK
  BY DEF IInv
<1>. QED  BY Invariance, <1>1, PTL

\* process_execute returns the child's tid exactly when its load succeeded,
\* however many processes exec at once.
THEOREM ExecResult == Spec => []ExecHonest
<1>1. IInv => ExecHonest
  BY ProcAssumption DEF IInv, ExecResultsOK, ExecHonest
<1>. QED  BY Invariance, <1>1, PTL

\* process_wait returns the status its child passed to exit.
THEOREM WaitStatus == Spec => []StatusRight
<1>1. IInv => StatusRight
  BY DEF IInv, WaitResultsOK, StatusRight
<1>. QED  BY Invariance, <1>1, PTL

\* process_wait returns the status of a child once.
THEOREM WaitedOnce == Spec => []WaitOnce
<1>1. IInv => WaitOnce
  BY DEF IInv, WaitResultsOK, WaitOnce
<1>. QED  BY Invariance, <1>1, PTL

\* An exit record has one owner, and is allocated as long as it has one.
THEOREM RecordOwner == Spec => []RecordOwned
<1>1. IInv => RecordOwned
  BY DEF IInv, OwnersOK, RecordsOK, RecordOwned
<1>. QED  BY Invariance, <1>1, PTL

\* The exits of parent and child, in any order, free the record exactly once
\* when the parent did not wait.
THEOREM RecordFreedOnce == Spec => []ReapedByOne
<1>1. IInv => ReapedByOne
  BY DEF IInv, RecordsOK, ReapedByOne
<1>. QED  BY Invariance, <1>1, PTL
=============================================================================
