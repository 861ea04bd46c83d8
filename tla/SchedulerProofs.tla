--------------------------- MODULE SchedulerProofs -------------------------
(***************************************************************************)
(* Locks exclude, for every finite set of threads, all locks, semaphores   *)
(* and priorities, and also when the timer may interrupt the code that     *)
(* keeps locks and donations (PreemptAnywhere), which TLC's runs leave     *)
(* out.                                                                    *)
(***************************************************************************)
EXTENDS Scheduler, FiniteSetTheorems, TLAPS

(* The inductive invariant.  LockExclusion speaks of holders and of the    *)
(* threads between sema_down and the assignment to holder; that the step   *)
(* that lets a lock go is taken by its holder needs where threads are in   *)
(* lock_release.                                                           *)
LockInv ==
  /\ DOMAIN pc = Thread /\ value \in [Sema -> Nat] /\ holder \in [Lock -> Thread \cup {NULL}]
  /\ \A t \in Thread :
       /\ pc[t].at = "down" => pc[t].on \in Sema
       /\ pc[t].at \in {"donate", "own"} => pc[t].on \in Lock
       /\ pc[t].at = "release" => pc[t].on \in Lock /\ holder[pc[t].on] = t
  /\ LockExclusion

\* The owners of a lock are counted.
LEMMA OwnersFinite == \A l : IsFiniteSet(Owners(l)) /\ Cardinality(Owners(l)) \in Nat
<1>1. \A l : Owners(l) \in SUBSET Thread
  BY DEF Owners
<1> QED
  BY <1>1, SchedulerConstants, FS_Subset, FS_CardinalityType

\* Two threads never own a lock, and none does while its semaphore is up.
LEMMA OneOwner ==
  ASSUME LockInv, NEW l \in Lock
  PROVE  /\ \A t, u \in Owners(l) : t = u
         /\ value[l] # 0 => Owners(l) = {} /\ value[l] = 1
         /\ Owners(l) # {} => value[l] = 0
<1>1. value[l] \in Nat /\ value[l] + Cardinality(Owners(l)) = 1
  BY DEF LockInv, LockExclusion, Sema
<1>2. Cardinality(Owners(l)) \in Nat /\ IsFiniteSet(Owners(l))
  BY OwnersFinite
<1>3. ASSUME NEW t \in Owners(l)
      PROVE  value[l] = 0 /\ Owners(l) = {t}
  <2>1. Cardinality(Owners(l)) # 0
    BY <1>2, <1>3, FS_EmptySet
  <2>2. value[l] = 0 /\ Cardinality(Owners(l)) = 1
    BY <1>1, <1>2, <2>1
  <2>3. {t} \in SUBSET Owners(l) /\ Cardinality({t}) = 1
    BY FS_Singleton
  <2> QED
    BY <1>2, <2>2, <2>3, FS_Subset
<1>4. ASSUME value[l] # 0
      PROVE  Owners(l) = {} /\ value[l] = 1
  BY <1>1, <1>2, <1>3, <1>4, FS_EmptySet
<1> QED
  BY <1>3, <1>4

\* A step that moves a thread to a place where it does not own a lock that it
\* did not own, and touches neither semaphores nor holders.
LEMMA MoveOn ==
  ASSUME LockInv, NEW t \in Thread, NEW r, pc' = [pc EXCEPT ![t] = r],
         pc[t].at # "own", r.at # "own",
         r.at = "down" => r.on \in Sema, r.at = "donate" => r.on \in Lock,
         r.at = "release" => r.on \in Lock /\ holder[r.on] = t,
         UNCHANGED holder, value' \in [Sema -> Nat], \A l \in Lock : value'[l] = value[l]
  PROVE  LockInv'
<1>1. DOMAIN pc' = Thread /\ \A u \in Thread : pc'[u] = IF u = t THEN r ELSE pc[u]
  BY DEF LockInv
<1>2. \A l \in Lock : Owners(l)' = Owners(l)
  BY <1>1 DEF Owners
<1>3. LockExclusion'
  BY <1>2 DEF LockInv, LockExclusion
<1> QED
  BY <1>1, <1>3 DEF LockInv

\* Steps that change neither a semaphore, a holder nor a program counter.
LEMMA Stutters ==
  ASSUME LockInv, UNCHANGED <<holder, pc>>, value' \in [Sema -> Nat],
         \A l \in Lock : value'[l] = value[l]
  PROVE  LockInv'
<1>1. \A l \in Lock : Owners(l)' = Owners(l)
  BY DEF Owners
<1> QED
  BY <1>1 DEF LockInv, LockExclusion

\* The semaphore of a lock goes down: sema_down and lock_try_acquire.
LEMMA TakeStep ==
  ASSUME LockInv, NEW t \in Thread, NEW l \in Lock, NEW r, r.at = "own", r.on = l,
         pc[t].at # "own", value[l] # 0, value' = [value EXCEPT ![l] = @ - 1],
         pc' = [pc EXCEPT ![t] = r], UNCHANGED holder
  PROVE  LockInv'
<1>1. DOMAIN pc' = Thread /\ \A u \in Thread : pc'[u] = IF u = t THEN r ELSE pc[u]
  BY DEF LockInv
<1>2. Owners(l) = {} /\ value[l] = 1 /\ l \in Sema /\ value \in [Sema -> Nat]
  BY OneOwner DEF LockInv, Sema
<1>3. value' \in [Sema -> Nat] /\ value'[l] = 0 /\ \A s \in Sema : s # l => value'[s] = value[s]
  BY <1>2
<1>4. Owners(l)' = {t}
  BY <1>1, <1>2 DEF Owners
<1>5. \A m \in Lock : m # l => Owners(m)' = Owners(m)
  BY <1>1 DEF Owners
<1>6. LockExclusion'
  <2>1. ASSUME NEW m \in Lock PROVE value'[m] + Cardinality(Owners(m)') = 1
    <3>1. CASE m = l
      <4>1. Cardinality({t}) = 1
        BY FS_Singleton
      <4>2. Cardinality(Owners(m)') = 1
        BY <1>4, <3>1, <4>1
      <4>3. value'[m] = 0
        BY <1>3, <3>1
      <4> QED
        BY <4>2, <4>3
    <3>2. CASE m # l
      <4>1. value[m] + Cardinality(Owners(m)) = 1
        BY DEF LockInv, LockExclusion
      <4>2. value'[m] = value[m]
        BY <1>3, <3>2 DEF Sema
      <4> QED
        BY <1>5, <3>2, <4>1, <4>2
    <3> QED
      BY <3>1, <3>2
  <2> QED
    BY <2>1 DEF LockExclusion
<1> QED
  BY <1>1, <1>3, <1>6 DEF LockInv

\* sema_down of the running thread, for a lock or on its own.
LEMMA DownStep ==
  ASSUME LockInv, NEW t \in Thread, NEW s \in Sema, pc[t].at # "own", sema_down(t, s),
         UNCHANGED holder
  PROVE  LockInv'
<1>0. value \in [Sema -> Nat]
  BY DEF LockInv
<1>1. CASE value[s] = 0
  <2> DEFINE r == [at |-> "down", on |-> s, pri |-> -1]
  <2>1. pc' = [pc EXCEPT ![t] = r] /\ UNCHANGED value
    BY <1>1 DEF sema_down, Goto
  <2>2. r.at = "down" /\ r.on = s
    OBVIOUS
  <2> HIDE DEF r
  <2> QED
    BY <1>0, <2>1, <2>2, MoveOn, Zenon
<1>2. CASE value[s] # 0 /\ s \in Lock
  <2> DEFINE r == [at |-> "own", on |-> s, pri |-> -1]
  <2>1. pc' = [pc EXCEPT ![t] = r] /\ value' = [value EXCEPT ![s] = @ - 1]
    BY <1>2 DEF sema_down, Goto
  <2>2. r.at = "own" /\ r.on = s
    OBVIOUS
  <2> HIDE DEF r
  <2> QED
    BY <1>2, <2>1, <2>2, TakeStep, Zenon
<1>3. CASE value[s] # 0 /\ s \notin Lock
  <2>1. pc' = [pc EXCEPT ![t] = Running] /\ value' = [value EXCEPT ![s] = @ - 1]
    BY <1>3 DEF sema_down
  <2>2. Running.at = "run"
    BY DEF Running
  <2>3. value[s] - 1 \in Nat
    BY <1>0, <1>3
  <2>4. value' \in [Sema -> Nat]
    BY <1>0, <2>1, <2>3
  <2>5. \A l \in Lock : value'[l] = value[l]
    BY <1>0, <1>3, <2>1 DEF Sema
  <2> QED
    BY <2>1, <2>2, <2>4, <2>5, MoveOn, Zenon
<1> QED
  BY <1>1, <1>2, <1>3

\* The holder is set: the thread owned the lock before.
LEMMA OwnStep ==
  ASSUME LockInv, NEW t \in Thread, Own(t)
  PROVE  LockInv'
<1>0. PICK l \in Lock : l = pc[t].on
  BY DEF LockInv, Own, At
<1>1. l \in Lock /\ t \in Owners(l)
  BY <1>0 DEF Own, At, Owners
<1>2. \A u \in Owners(l) : u = t
  BY <1>1, OneOwner
<1>3. /\ holder' = [holder EXCEPT ![l] = t] /\ pc' = [pc EXCEPT ![t] = Running]
      /\ pc[t].at = "own" /\ UNCHANGED value
  BY <1>0 DEF Own, At
<1>4. \A u \in Thread : u # t => holder[l] # u /\ ~(pc[u].at = "own" /\ pc[u].on = l)
  BY <1>2 DEF Owners
<1>5. /\ DOMAIN pc' = Thread /\ \A u \in Thread : pc'[u] = IF u = t THEN Running ELSE pc[u]
      /\ holder' \in [Lock -> Thread \cup {NULL}]
      /\ \A m \in Lock : holder'[m] = IF m = l THEN t ELSE holder[m]
  BY <1>1, <1>3 DEF LockInv
<1>6. Running.at = "run"
  BY DEF Running
<1>7. Owners(l)' = {t}
  BY <1>1, <1>4, <1>5, <1>6 DEF Owners
<1>8. Owners(l) = {t}
  BY <1>1, <1>2
<1>9. \A m \in Lock : m # l => Owners(m)' = Owners(m)
  BY <1>0, <1>3, <1>5, <1>6 DEF Owners
<1>10. LockExclusion'
  <2>1. \A m \in Lock : Owners(m)' = Owners(m)
    BY <1>7, <1>8, <1>9
  <2> QED
    BY <1>3, <2>1 DEF LockInv, LockExclusion
<1>11. \A u \in Thread : pc'[u].at = "release" => pc'[u].on \in Lock /\ holder'[pc'[u].on] = u
  BY <1>4, <1>5, <1>6 DEF LockInv
<1> QED
  BY <1>3, <1>5, <1>6, <1>10, <1>11 DEF LockInv

\* lock_release lets the lock go: its holder does, and nobody else owned it.
LEMMA ReleaseStep ==
  ASSUME LockInv, NEW t \in Thread, Release(t)
  PROVE  LockInv'
<1>0. PICK l \in Lock : l = pc[t].on /\ holder[l] = t /\ pc[t].at = "release"
  BY DEF LockInv, Release, At
<1> DEFINE r == [at |-> "released", on |-> NULL, pri |-> pc[t].pri]
<1>1. l \in Lock /\ holder[l] = t /\ pc[t].at = "release"
  BY <1>0
<1>2. /\ holder' = [holder EXCEPT ![l] = NULL] /\ pc' = [pc EXCEPT ![t] = r]
      /\ value' = [value EXCEPT ![l] = @ + 1]
  BY <1>0 DEF Release, Goto, sema_up
<1>3. r.at = "released"
  OBVIOUS
<1>4. t \in Owners(l)
  BY <1>1 DEF Owners
<1>5. /\ \A u \in Thread : u # t => ~(pc[u].at = "own" /\ pc[u].on = l)
      /\ value[l] = 0
  <2>1. \A u \in Owners(l) : u = t
    BY <1>1, <1>4, OneOwner
  <2>2. value[l] = 0
    BY <1>1, <1>4, OneOwner
  <2> QED
    BY <2>1, <2>2 DEF Owners
<1> HIDE DEF r
<1>6. /\ DOMAIN pc' = Thread /\ \A u \in Thread : pc'[u] = IF u = t THEN r ELSE pc[u]
      /\ holder' \in [Lock -> Thread \cup {NULL}]
      /\ \A m \in Lock : holder'[m] = IF m = l THEN NULL ELSE holder[m]
  BY <1>1, <1>2 DEF LockInv
<1>7. l \in Sema /\ value \in [Sema -> Nat]
  BY <1>1 DEF LockInv, Sema
<1>8. value' \in [Sema -> Nat] /\ value'[l] = 1 /\ \A s \in Sema : s # l => value'[s] = value[s]
  BY <1>2, <1>5, <1>7
<1>9. Owners(l)' = {}
  BY <1>1, <1>3, <1>5, <1>6, SchedulerConstants DEF Owners
<1>10. \A m \in Lock : m # l => Owners(m)' = Owners(m)
  BY <1>1, <1>3, <1>6 DEF Owners
<1>11. LockExclusion'
  <2>1. ASSUME NEW m \in Lock PROVE value'[m] + Cardinality(Owners(m)') = 1
    <3>1. CASE m = l
      BY <1>8, <1>9, <3>1, FS_EmptySet
    <3>2. CASE m # l
      <4>1. value[m] + Cardinality(Owners(m)) = 1
        BY DEF LockInv, LockExclusion
      <4>2. value'[m] = value[m]
        BY <1>8, <3>2 DEF Sema
      <4> QED
        BY <1>10, <3>2, <4>1, <4>2
    <3> QED
      BY <3>1, <3>2
  <2> QED
    BY <2>1 DEF LockExclusion
<1>12. \A u \in Thread : pc'[u].at = "release" => pc'[u].on \in Lock /\ holder'[pc'[u].on] = u
  BY <1>1, <1>3, <1>6 DEF LockInv
<1> QED
  BY <1>3, <1>6, <1>8, <1>11, <1>12 DEF LockInv

\* Every operation of the running thread keeps the invariant.
LEMMA ThreadStep ==
  ASSUME LockInv, NEW t \in Thread, Step(t)
  PROVE  LockInv'
<1>0. value \in [Sema -> Nat] /\ Lock \subseteq Sema /\ Semaphore \subseteq Sema
  BY DEF LockInv, Sema
<1>1. ASSUME UNCHANGED <<value, holder, pc>> PROVE LockInv'
  BY <1>0, <1>1, Stutters
<1>2. ASSUME NEW r, pc' = [pc EXCEPT ![t] = r], pc[t].at # "own", r.at # "own",
             r.at = "down" => r.on \in Sema, r.at = "donate" => r.on \in Lock,
             r.at = "release" => r.on \in Lock /\ holder[r.on] = t,
             UNCHANGED <<value, holder>>
      PROVE  LockInv'
  BY <1>0, <1>2, MoveOn, Zenon
<1>3. ASSUME NEW where, NEW what, NEW p, Goto(t, where, what, p), pc[t].at # "own", where # "own",
             where = "down" => what \in Sema, where = "donate" => what \in Lock,
             where = "release" => what \in Lock /\ holder[what] = t,
             UNCHANGED <<value, holder>>
      PROVE  LockInv'
  <2> DEFINE r == [at |-> where, on |-> what, pri |-> p]
  <2>1. pc' = [pc EXCEPT ![t] = r] /\ r.at = where /\ r.on = what
    BY <1>3 DEF Goto
  <2> HIDE DEF r
  <2> QED
    BY <1>2, <1>3, <2>1, Zenon
<1>4. ASSUME pc' = [pc EXCEPT ![t] = Running], pc[t].at # "own", UNCHANGED <<value, holder>>
      PROVE  LockInv'
  <2>1. Running.at = "run"
    BY DEF Running
  <2> QED
    BY <1>2, <1>4, <2>1, Zenon
<1>5. ASSUME NEW l \in Lock, lock_acquire(t, l) PROVE LockInv'
  <2>1. CASE Goto(t, "donate", l, -1)
    BY <1>3, <1>5, <2>1 DEF lock_acquire, At
  <2>2. CASE Goto(t, "down", l, -1)
    BY <1>0, <1>3, <1>5, <2>2 DEF lock_acquire, At
  <2> QED
    BY <1>5, <2>1, <2>2 DEF lock_acquire
<1>6. ASSUME NEW l \in Lock, lock_try_acquire(t, l) PROVE LockInv'
  <2> DEFINE r == [at |-> "own", on |-> l, pri |-> -1]
  <2>1. r.at = "own" /\ r.on = l /\ pc' = [pc EXCEPT ![t] = r]
    BY <1>6 DEF lock_try_acquire, Goto
  <2> HIDE DEF r
  <2>2. /\ pc[t].at # "own" /\ value[l] # 0 /\ value' = [value EXCEPT ![l] = @ - 1]
        /\ UNCHANGED holder
    BY <1>0, <1>6 DEF lock_try_acquire, At
  <2> QED
    BY <2>1, <2>2, TakeStep, Zenon
<1>7. ASSUME NEW l \in Lock, lock_release(t, l) PROVE LockInv'
  <2>1. pc[t].at = "run" /\ holder[l] = t /\ UNCHANGED <<value, holder>>
    BY <1>7 DEF lock_release, At
  <2>2. \E p : Goto(t, "release", l, p)
    BY <1>7 DEF lock_release
  <2> QED
    BY <1>3, <2>1, <2>2
<1>8. ASSUME Donate(t) PROVE LockInv'
  <2>1. pc[t].at = "donate" /\ Goto(t, "down", pc[t].on, -1) /\ UNCHANGED <<value, holder>>
    BY <1>8 DEF Donate, At
  <2>2. pc[t].on \in Sema
    BY <1>0, <2>1 DEF LockInv
  <2> QED
    BY <1>3, <2>1, <2>2
<1>9. ASSUME SemaDown(t) PROVE LockInv'
  <2>1. CASE \E s \in Semaphore : At(t, "run") /\ sema_down(t, s)
    BY <1>0, <1>9, <2>1, DownStep DEF SemaDown, At
  <2>2. CASE At(t, "down") /\ sema_down(t, pc[t].on)
    <3>1. pc[t].on \in Sema /\ pc[t].at # "own" /\ UNCHANGED holder
      BY <1>9, <2>2 DEF LockInv, SemaDown, At
    <3> QED
      BY <2>2, <3>1, DownStep
  <2> QED
    BY <1>9, <2>1, <2>2 DEF SemaDown
<1>10. ASSUME Released(t) \/ Created(t) \/ Sleep(t) PROVE LockInv'
  BY <1>4, <1>10, Zenon DEF Released, Created, Sleep, At
<1>11. ASSUME NEW s \in Semaphore, SemaUp(t, s) PROVE LockInv'
  <2>1. value' = [value EXCEPT ![s] = @ + 1] /\ UNCHANGED <<holder, pc>>
    BY <1>11 DEF SemaUp, sema_up
  <2>2. value' \in [Sema -> Nat]
    BY <1>0, <2>1
  <2>3. \A l \in Lock : value'[l] = value[l]
    BY <1>0, <2>1, SchedulerConstants
  <2> QED
    BY <2>1, <2>2, <2>3, Stutters
<1>12. ASSUME NEW p, thread_set_priority(t, p) PROVE LockInv'
  BY <1>1, <1>12 DEF thread_set_priority
<1>13. ASSUME NEW new, NEW p, thread_create(t, new, p) PROVE LockInv'
  BY <1>3, <1>13 DEF thread_create, At
<1>14. ASSUME thread_exit(t) PROVE LockInv'
  BY <1>1, <1>14 DEF thread_exit
<1>15. ASSUME NEW n, timer_sleep(t, n) PROVE LockInv'
  BY <1>3, <1>15 DEF timer_sleep, At
<1> QED
  BY <1>5, <1>6, <1>7, <1>8, <1>9, <1>10, <1>11, <1>12, <1>13, <1>14, <1>15, OwnStep, ReleaseStep
     DEF Step

\* The invariant holds of every state the scheduler reaches, whatever the
\* priorities and wherever the timer interrupts.
THEOREM LockInvariant == Spec => []LockInv
<1>1. Init => LockInv
  <2> SUFFICES ASSUME Init PROVE LockInv
    OBVIOUS
  <2>1. \A t \in Thread : pc[t] = Running /\ Running.at = "run"
    BY DEF Init, Running
  <2>2. DOMAIN pc = Thread /\ value \in [Sema -> Nat] /\ holder \in [Lock -> Thread \cup {NULL}]
    BY DEF Init
  <2>3. ASSUME NEW l \in Lock PROVE value[l] + Cardinality(Owners(l)) = 1
    <3>1. Owners(l) = {}
      <4>1. holder[l] = NULL /\ NULL \notin Thread
        BY SchedulerConstants DEF Init
      <4> QED
        BY <2>1, <4>1 DEF Owners
    <3>2. value[l] = 1
      BY DEF Init, Sema
    <3> QED
      BY <3>1, <3>2, FS_EmptySet
  <2> QED
    BY <2>1, <2>2, <2>3 DEF LockInv, LockExclusion
<1>2. LockInv /\ [Next]_vars => LockInv'
  <2> SUFFICES ASSUME LockInv, [Next]_vars PROVE LockInv'
    OBVIOUS
  <2>0. value \in [Sema -> Nat] /\ Semaphore \subseteq Sema /\ Lock \subseteq Sema
    BY DEF LockInv, Sema
  <2>1. ASSUME UNCHANGED <<value, holder, pc>> PROVE LockInv'
    BY <2>0, <2>1, Stutters
  <2>2. ASSUME idle PROVE LockInv'
    BY <2>1, <2>2 DEF idle
  <2>3. ASSUME NEW slice_over, timer_interrupt(slice_over) PROVE LockInv'
    BY <2>1, <2>3 DEF timer_interrupt
  <2>4. ASSUME NEW s \in Semaphore, Interrupt(s) PROVE LockInv'
    <3>1. value' = [value EXCEPT ![s] = @ + 1] /\ UNCHANGED <<holder, pc>>
      BY <2>4 DEF Interrupt, sema_up
    <3>2. value' \in [Sema -> Nat]
      BY <2>0, <3>1
    <3>3. \A l \in Lock : value'[l] = value[l]
      BY <2>0, <3>1, SchedulerConstants
    <3> QED
      BY <3>1, <3>2, <3>3, Stutters
  <2>5. ASSUME UNCHANGED vars PROVE LockInv'
    BY <2>1, <2>5 DEF vars
  <2> QED
    BY <2>2, <2>3, <2>4, <2>5, ThreadStep DEF Next
<1> QED
  BY <1>1, <1>2, PTL DEF Spec

\* lock_acquire and lock_try_acquire admit one thread at a time, also in the
\* window before the holder is recorded: LockExclusion of the run sched, for
\* all threads, locks, semaphores and priorities.
THEOREM LocksExclude == Spec => []LockExclusion
<1>1. LockInv => LockExclusion
  BY DEF LockInv
<1> QED
  BY <1>1, LockInvariant, PTL

=============================================================================
