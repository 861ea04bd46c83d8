----------------------------- MODULE Scheduler -----------------------------
(***************************************************************************)
(* The priority scheduler of threads/thread.c, the semaphores and locks of *)
(* threads/synch.c, and priority donation between the holders of locks.    *)
(*                                                                         *)
(* One CPU: only the running thread takes steps.  A step is the code a     *)
(* thread runs with interrupts off, or the code between two points where a *)
(* timer interrupt could take the CPU away; Tick is that interrupt.  The   *)
(* scheduler's own data is the record k, and the C functions that change   *)
(* it are functions from such records to records, so that an operation     *)
(* composes them in the order in which the code calls them.                *)
(***************************************************************************)
EXTENDS Integers, Sequences, FiniteSets, SequencesExt, FiniteSetsExt

CONSTANTS
  Thread,           \* every thread but the idle thread
  Main, Idle,       \* initial_thread and idle_thread
  Lock, Semaphore,  \* locks, and semaphores that are not inside a lock
  PRI_MAX,          \* 63 in thread.h
  PRI_DEFAULT,      \* 31 in thread.h
  MaxValue,         \* bound: no semaphore is raised above this value
  MaxSleep,         \* bound: no thread sleeps for more ticks than this
  LockOrder,        \* the order in which threads take locks
  PreemptAnywhere,  \* may the timer interrupt the donation code?
  NULL

PRI_MIN == 0
Pri == PRI_MIN .. PRI_MAX
Sema == Lock \cup Semaphore    \* a lock is known by the semaphore inside it

ASSUME SchedulerConstants ==
  /\ IsFiniteSet(Thread) /\ Main \in Thread /\ Idle \notin Thread /\ NULL \notin Lock \cup Thread
  /\ Lock \cap Semaphore = {} /\ PRI_DEFAULT \in Pri /\ MaxValue \in Nat /\ MaxSleep \in Nat
  /\ PreemptAnywhere \in BOOLEAN

VARIABLES
  k,               \* cur, status, priority, ready_list, highest_priority, ready_threads
  value, waiters,  \* struct semaphore
  holder, donated, \* struct lock
  old_priority,    \* the priority before donation, or -1
  donation_list,   \* the threads that have been donated to
  donation_locks,  \* per thread, the locks it was given a donation for
  sleep_queue,     \* the threads asleep in timer_sleep
  remaining,       \* ticks until a sleeper's time is over: length - elapsed, or 0
  pc               \* where each thread is, and what it is working on

vars == <<k, value, waiters, holder, donated, old_priority,
          donation_list, donation_locks, sleep_queue, remaining, pc>>
sleeping == <<sleep_queue, remaining>>
donation == <<donated, old_priority, donation_list, donation_locks>>

Running == [at |-> "run", on |-> NULL, pri |-> -1]
Goto(t, where, what, p) == pc' = [pc EXCEPT ![t] = [at |-> where, on |-> what, pri |-> p]]

-----------------------------------------------------------------------------
(* thread.c on the record k.                                               *)

Levels(q) == {p \in Pri : q.ready_list[p] # <<>>}

(* The first thread of the highest nonempty list, or the idle thread.      *)
(* highest_priority becomes the next list's level only when the list taken *)
(* from is now empty and another one is not.                               *)
next_thread_to_run(q) ==
  IF Levels(q) = {}
  THEN [q EXCEPT !.cur = Idle, !.highest_priority = PRI_MIN]
  ELSE LET top == Max(Levels(q))
           popped == [q EXCEPT !.cur = Head(q.ready_list[top]), !.ready_list[top] = Tail(@)]
           lower == Levels(q) \ {top}
       IN IF popped.ready_list[top] = <<>> /\ lower # {}
          THEN [popped EXCEPT !.highest_priority = Max(lower)]
          ELSE popped

schedule(q) == LET next == next_thread_to_run(q) IN [next EXCEPT !.status[next.cur] = "running"]

thread_yield(q) ==
  schedule(IF q.cur = Idle
           THEN [q EXCEPT !.status[Idle] = "ready"]
           ELSE [q EXCEPT !.status[q.cur] = "ready",
                          !.ready_list[q.priority[q.cur]] = Append(@, q.cur)])

thread_block(q) ==
  schedule([q EXCEPT !.status[q.cur] = "blocked",
                     !.ready_threads = IF q.cur = Idle THEN @ ELSE @ - 1])

(* thread_unblock up to where it turns interrupts back on ...              *)
MakeReady(q, t) ==
  [q EXCEPT !.status[t] = "ready", !.ready_threads = @ + 1,
            !.ready_list[q.priority[t]] = Append(@, t)]

(* ... and its test for a preemption; an interrupt handler never yields.   *)
PreemptFor(q, p, in_intr) ==
  IF p > q.highest_priority
  THEN LET raised == [q EXCEPT !.highest_priority = p]
       IN IF in_intr THEN raised ELSE thread_yield(raised)
  ELSE q

thread_unblock(q, t, in_intr) == PreemptFor(MakeReady(q, t), q.priority[t], in_intr)

thread_set_priority_without_lower(q, p) ==
  LET set == [q EXCEPT !.priority[q.cur] = p]
      found == Levels(set) \cup {PRI_MIN}
  IN IF p < q.highest_priority
     THEN thread_yield([set EXCEPT !.highest_priority = Max(found)])
     ELSE set

-----------------------------------------------------------------------------
(* sema_up: raise the value, and unblock the first waiter of the highest   *)
(* priority.                                                               *)
Chosen(s) ==
  LET w == waiters[s]
  IN CHOOSE i \in 1..Len(w) :
       /\ \A j \in 1..Len(w) : k.priority[w[j]] <= k.priority[w[i]]
       /\ \A j \in 1..(i - 1) : k.priority[w[j]] < k.priority[w[i]]

UpWithoutWaking(s, in_intr) ==
  value' = [value EXCEPT ![s] = @ + 1] /\ UNCHANGED <<k, waiters>>

sema_up(s, in_intr) ==
  /\ value' = [value EXCEPT ![s] = @ + 1]
  /\ IF waiters[s] = <<>>
     THEN UNCHANGED <<k, waiters>>
     ELSE /\ waiters' = [waiters EXCEPT ![s] = RemoveAt(@, Chosen(s))]
          /\ k' = thread_unblock(k, waiters[s][Chosen(s)], in_intr)

(* sema_down: one turn of its loop.  A thread that finds the value zero    *)
(* waits, and tests again when it is next scheduled.                       *)
sema_down(t, s) ==
  IF value[s] = 0
  THEN /\ waiters' = [waiters EXCEPT ![s] = Append(@, t)]
       /\ k' = thread_block(k)
       /\ Goto(t, "down", s, -1)
       /\ UNCHANGED value
  ELSE /\ value' = [value EXCEPT ![s] = @ - 1]
       /\ IF s \in Lock THEN Goto(t, "own", s, -1) ELSE pc' = [pc EXCEPT ![t] = Running]
       /\ UNCHANGED <<k, waiters>>

-----------------------------------------------------------------------------
(* Donation.  A donated thread that is itself blocked on a lock its holder *)
(* was given a donation for passes the priority on, and so on.             *)
Passed(d) == {holder[l] : l \in {m \in Lock : /\ d \in Range(waiters[m])
                                              /\ \E x \in Range(donation_list) :
                                                   m \in Range(donation_locks[x])}}

Chain(t) ==
  LET reach[n \in 0..Cardinality(Thread)] ==
        IF n = 0 THEN {t} ELSE reach[n - 1] \cup UNION {Passed(d) : d \in reach[n - 1]}
  IN reach[Cardinality(Thread)]

RelistTwice(q, t, p) == [q EXCEPT !.ready_list[p] = Append(@, t)]

Relist(q, t, p) ==
  LET unlisted == [i \in Pri |-> SelectSeq(q.ready_list[i], LAMBDA x : x # t)]
  IN [q EXCEPT !.ready_list = [unlisted EXCEPT ![p] = Append(@, t)]]

(* Every thread on the chain gets the donor's priority; only T, the holder *)
(* of the lock itself, is recorded and moved to its new ready list.        *)
donate_priority_to(l) ==
  LET t == holder[l]
      mine == k.priority[k.cur]
      raised == [k EXCEPT !.priority = [x \in Thread |-> IF x \in Chain(t) THEN mine ELSE @[x]]]
  IN /\ donated' = [donated EXCEPT ![l] = TRUE]
     /\ old_priority' = [x \in Thread |-> IF x \in Chain(t) /\ old_priority[x] = -1
                                          THEN k.priority[x] ELSE old_priority[x]]
     /\ donation_list' = IF t \in Range(donation_list) THEN donation_list
                         ELSE Append(donation_list, t)
     /\ donation_locks' = IF t \in Range(donation_list) /\ l \in Range(donation_locks[t])
                          THEN donation_locks
                          ELSE [donation_locks EXCEPT ![t] = Append(@, l)]
     /\ k' = IF k.status[t] = "ready" THEN Relist(raised, t, mine) ELSE raised

(* return_priority: the priority to go back to when l is released.         *)
return_priority(t, l) ==
  LET rest == SelectSeq(donation_locks[t], LAMBDA m : m # l)
      waiting == UNION {Range(waiters[m]) : m \in Range(rest)}
  IN IF rest = <<>> THEN old_priority[t]
     ELSE Max({PRI_MIN} \cup {k.priority[w] : w \in waiting})

ForgetDonationKeepingFlag(t, l) ==
  LET rest == SelectSeq(donation_locks[t], LAMBDA m : m # l)
  IN /\ donation_locks' = [donation_locks EXCEPT ![t] = rest]
     /\ IF rest = <<>>
        THEN /\ old_priority' = [old_priority EXCEPT ![t] = -1]
             /\ donation_list' = SelectSeq(donation_list, LAMBDA x : x # t)
        ELSE UNCHANGED <<old_priority, donation_list>>
     /\ UNCHANGED donated

(* ... and its effect on the records of donations.                         *)
ForgetDonation(t, l) ==
  LET rest == SelectSeq(donation_locks[t], LAMBDA m : m # l)
  IN /\ donated' = [donated EXCEPT ![l] = FALSE]
     /\ donation_locks' = [donation_locks EXCEPT ![t] = rest]
     /\ IF rest = <<>>
        THEN /\ old_priority' = [old_priority EXCEPT ![t] = -1]
             /\ donation_list' = SelectSeq(donation_list, LAMBDA x : x # t)
        ELSE UNCHANGED <<old_priority, donation_list>>

-----------------------------------------------------------------------------
(* The operations of the running thread.                                   *)

At(t, where) == k.cur = t /\ t # Idle /\ pc[t].at = where
Held(t) == {l \in Lock : holder[l] = t}

(* lock_acquire: the test whether to donate ...                            *)
lock_acquire(t, l) ==
  /\ At(t, "run") /\ holder[l] # t
  /\ \A m \in Held(t) : LockOrder[m] < LockOrder[l]
  /\ Goto(t, IF holder[l] # NULL /\ k.priority[holder[l]] < k.priority[t]
             THEN "donate" ELSE "down", l, -1)
  /\ UNCHANGED <<k, value, waiters, holder, donation, sleeping>>

(* ... the donation ...                                                    *)
Donate(t) ==
  /\ At(t, "donate") /\ holder[pc[t].on] # NULL
  /\ donate_priority_to(pc[t].on)
  /\ Goto(t, "down", pc[t].on, -1)
  /\ UNCHANGED <<value, waiters, holder, sleeping>>

(* ... sema_down, of a lock or on its own ...                              *)
SemaDown(t) ==
  /\ \/ \E s \in Semaphore : At(t, "run") /\ Held(t) = {} /\ sema_down(t, s)
     \/ At(t, "down") /\ sema_down(t, pc[t].on)
  /\ UNCHANGED <<holder, donation, sleeping>>

(* ... and the holder is set after sema_down has returned.                 *)
Own(t) ==
  /\ At(t, "own")
  /\ holder' = [holder EXCEPT ![pc[t].on] = t]
  /\ pc' = [pc EXCEPT ![t] = Running]
  /\ UNCHANGED <<k, value, waiters, donation, sleeping>>

TryWithoutTaking(t, l) ==
  /\ At(t, "run") /\ holder[l] # t /\ value[l] > 0
  /\ Goto(t, "own", l, -1)
  /\ UNCHANGED <<k, value, waiters, holder, donation, sleeping>>

lock_try_acquire(t, l) ==
  /\ At(t, "run") /\ holder[l] # t /\ value[l] > 0
  /\ value' = [value EXCEPT ![l] = @ - 1]
  /\ Goto(t, "own", l, -1)
  /\ UNCHANGED <<k, waiters, holder, donation, sleeping>>

(* lock_release: take the lock out of the donation records ...             *)
lock_release(t, l) ==
  /\ At(t, "run") /\ holder[l] = t
  /\ IF old_priority[t] # -1 /\ donated[l]
     THEN Goto(t, "release", l, return_priority(t, l)) /\ ForgetDonation(t, l)
     ELSE Goto(t, "release", l, -1) /\ UNCHANGED donation
  /\ UNCHANGED <<k, value, waiters, holder, sleeping>>

(* ... let it go, which may give the CPU to the thread that gets it ...    *)
Release(t) ==
  /\ At(t, "release")
  /\ holder' = [holder EXCEPT ![pc[t].on] = NULL]
  /\ sema_up(pc[t].on, FALSE)
  /\ Goto(t, "released", NULL, pc[t].pri)
  /\ UNCHANGED <<donation, sleeping>>

(* ... and go back to the old priority.                                    *)
Released(t) ==
  /\ At(t, "released")
  /\ k' = IF pc[t].pri > -1 THEN thread_set_priority_without_lower(k, pc[t].pri) ELSE k
  /\ pc' = [pc EXCEPT ![t] = Running]
  /\ UNCHANGED <<value, waiters, holder, donation, sleeping>>

SemaUp(t, s) ==
  /\ At(t, "run") /\ value[s] < MaxValue
  /\ sema_up(s, FALSE)
  /\ UNCHANGED <<holder, donation, sleeping, pc>>

thread_set_priority(t, p) ==
  /\ At(t, "run")
  /\ IF donation_locks[t] # <<>>
     THEN old_priority' = [old_priority EXCEPT ![t] = p] /\ UNCHANGED k
     ELSE k' = thread_set_priority_without_lower(k, p) /\ UNCHANGED old_priority
  /\ UNCHANGED <<value, waiters, holder, donated, donation_list, donation_locks, sleeping, pc>>

(* thread_create: the new thread is put on its ready list; the test for a  *)
(* preemption comes after interrupts are back on, and reads the new        *)
(* thread's page even if that thread has already exited and freed it.      *)
thread_create(t, new, p) ==
  /\ At(t, "run") /\ k.status[new] = "none"
  /\ k' = MakeReady([k EXCEPT !.priority[new] = p], new)
  /\ Goto(t, "created", new, -1)
  /\ UNCHANGED <<value, waiters, holder, donation, sleeping>>

Created(t) ==
  /\ At(t, "created")
  /\ \E p \in IF k.status[pc[t].on] = "dying" THEN Pri ELSE {k.priority[pc[t].on]} :
       k' = PreemptFor(k, p, FALSE)
  /\ pc' = [pc EXCEPT ![t] = Running]
  /\ UNCHANGED <<value, waiters, holder, donation, sleeping>>

(* thread_exit: the next thread's schedule_tail frees the page.            *)
thread_exit(t) ==
  /\ At(t, "run") /\ t # Main /\ Held(t) = {}
  /\ k' = schedule([k EXCEPT !.status[t] = "dying", !.priority[t] = PRI_DEFAULT,
                           !.ready_threads = @ - 1])
  /\ UNCHANGED <<value, waiters, holder, donation, sleeping, pc>>

(* The idle thread blocks as soon as it runs.                              *)
idle ==
  /\ k.cur = Idle /\ k' = thread_block(k)
  /\ UNCHANGED <<value, waiters, holder, donation, sleeping, pc>>

(* timer_sleep reads the clock ...                                         *)
timer_sleep(t, n) ==
  /\ At(t, "run")
  /\ remaining' = [remaining EXCEPT ![t] = n]
  /\ Goto(t, "sleep", NULL, -1)
  /\ UNCHANGED <<k, value, waiters, holder, donation, sleep_queue>>

SleepUnchecked(t) ==
  /\ At(t, "sleep")
  /\ pc' = [pc EXCEPT ![t] = Running]
  /\ sleep_queue' = Append(sleep_queue, t) /\ k' = thread_block(k)
  /\ UNCHANGED <<value, waiters, holder, donation, remaining>>

(* ... and, with interrupts off, reads it again before it blocks.          *)
Sleep(t) ==
  /\ At(t, "sleep")
  /\ pc' = [pc EXCEPT ![t] = Running]
  /\ IF remaining[t] > 0
     THEN sleep_queue' = Append(sleep_queue, t) /\ k' = thread_block(k)
     ELSE UNCHANGED <<sleep_queue, k>>
  /\ UNCHANGED <<value, waiters, holder, donation, remaining>>

(* update_sleep_queue: unblock, in the queue's order, who has slept enough.*)
WakeAll(q, awake) == FoldLeft(LAMBDA acc, t : thread_unblock(acc, t, TRUE), q, awake)

(* timer_interrupt: thread_tick asks for a yield at the end of the time    *)
(* slice, which happens after update_sleep_queue, when the interrupt       *)
(* returns.  Interrupts are on except inside the steps above; the code     *)
(* that keeps locks and donations runs with them on.                       *)
InterruptsOn == {"run", "down", "sleep", "created"}
                \cup IF PreemptAnywhere THEN {"donate", "own", "release", "released"} ELSE {}

timer_interrupt(slice_over) ==
  LET left == [t \in Thread |-> IF remaining[t] > 0 THEN remaining[t] - 1 ELSE 0]
      woken == WakeAll(k, SelectSeq(sleep_queue, LAMBDA t : left[t] = 0))
  IN /\ k.cur # Idle => pc[k.cur].at \in InterruptsOn
     /\ remaining' = left
     /\ sleep_queue' = SelectSeq(sleep_queue, LAMBDA t : left[t] > 0)
     /\ k' = IF slice_over THEN thread_yield(woken) ELSE woken
     /\ UNCHANGED <<value, waiters, holder, donation, pc>>

(* A device's interrupt handler ends a wait.                               *)
Interrupt(s) ==
  /\ value[s] < MaxValue
  /\ sema_up(s, TRUE)
  /\ UNCHANGED <<holder, donation, sleeping, pc>>

Init ==
  /\ k = [cur |-> Main,
          status |-> [t \in Thread \cup {Idle} |-> CASE t = Main -> "running" []
                                                        t = Idle -> "blocked" []
                                                        OTHER -> "none"],
          priority |-> [t \in Thread |-> PRI_DEFAULT],
          ready_list |-> [p \in Pri |-> <<>>],
          highest_priority |-> PRI_DEFAULT,
          ready_threads |-> 1]
  /\ value = [s \in Sema |-> IF s \in Lock THEN 1 ELSE 0]
  /\ waiters = [s \in Sema |-> <<>>]
  /\ holder = [l \in Lock |-> NULL] /\ donated = [l \in Lock |-> FALSE]
  /\ old_priority = [t \in Thread |-> -1]
  /\ donation_list = <<>> /\ donation_locks = [t \in Thread |-> <<>>]
  /\ sleep_queue = <<>> /\ remaining = [t \in Thread |-> 0]
  /\ pc = [t \in Thread |-> Running]

Step(t) ==
  \/ \E l \in Lock : lock_acquire(t, l) \/ lock_try_acquire(t, l) \/ lock_release(t, l)
  \/ Donate(t) \/ SemaDown(t) \/ Own(t) \/ Release(t) \/ Released(t)
  \/ \E s \in Semaphore : SemaUp(t, s)
  \/ \E p \in Pri : thread_set_priority(t, p)
  \/ \E new \in Thread, p \in Pri : thread_create(t, new, p)
  \/ Created(t) \/ thread_exit(t) \/ Sleep(t)
  \/ \E n \in 0..MaxSleep : timer_sleep(t, n)

Next == \/ \E t \in Thread : Step(t)
        \/ idle
        \/ \E slice_over \in BOOLEAN : timer_interrupt(slice_over)
        \/ \E s \in Semaphore : Interrupt(s)

Spec == Init /\ [][Next]_vars

-----------------------------------------------------------------------------
Where == {"run", "sleep", "donate", "down", "own", "release", "released", "created"}

(* Every variable has its type.                                            *)
SchedTypeOK ==
  /\ k.cur \in Thread \cup {Idle}
  /\ k.status \in [Thread \cup {Idle} -> {"none", "running", "ready", "blocked", "dying"}]
  /\ k.priority \in [Thread -> Pri] /\ k.ready_list \in [Pri -> Seq(Thread)]
  /\ k.highest_priority \in Pri /\ k.ready_threads \in Nat
  /\ value \in [Sema -> 0..MaxValue + 1] /\ waiters \in [Sema -> Seq(Thread)]
  /\ holder \in [Lock -> Thread \cup {NULL}] /\ donated \in [Lock -> BOOLEAN]
  /\ old_priority \in [Thread -> Pri \cup {-1}]
  /\ donation_list \in Seq(Thread) /\ donation_locks \in [Thread -> Seq(Lock)]
  /\ pc \in [Thread -> [at : Where, on : Sema \cup Thread \cup {NULL}, pri : Pri \cup {-1}]]

(* A thread's one list element is in one place at a time: a ready thread   *)
(* is once on one ready list, a blocked one is once among the waiters of   *)
(* one semaphore or in the sleep queue, the running thread is on no list   *)
(* and is the only one marked running.                                     *)
Times(t, q) == Cardinality({i \in DOMAIN q : q[i] = t})
TimesIn(t, lists) == MapThenSumSet(LAMBDA x : Times(t, lists[x]), DOMAIN lists)
OnOneList ==
  \A t \in Thread :
     /\ TimesIn(t, k.ready_list) = IF k.status[t] = "ready" THEN 1 ELSE 0
     /\ TimesIn(t, waiters) + Times(t, sleep_queue) = IF k.status[t] = "blocked" THEN 1 ELSE 0
     /\ k.status[t] = "running" <=> t = k.cur

(* ready_threads, which thread_block asserts to be positive and the load   *)
(* average is computed from, counts the ready and the running threads.     *)
ReadyCounted ==
  k.ready_threads = Cardinality({t \in Thread : k.status[t] \in {"ready", "running"}})

(* Locks exclude: of the value of a lock's semaphore and the threads past  *)
(* its sema_down and not past its sema_up there is one in all, also in the *)
(* window in which the semaphore is taken and the holder not yet set.      *)
Owners(l) == {t \in Thread : holder[l] = t \/ (pc[t].at = "own" /\ pc[t].on = l)}
LockExclusion == \A l \in Lock : value[l] + Cardinality(Owners(l)) = 1

(* No wakeup is lost: when a semaphore is up and threads wait for it, one  *)
(* that was woken is on its way to take it, though others may overtake it. *)
NoLostWakeup ==
  \A s \in Sema : value[s] > 0 /\ waiters[s] # <<>> =>
     \E t \in Thread : /\ pc[t].at = "down" /\ pc[t].on = s
                       /\ k.status[t] \in {"ready", "running"}

(* The records of donations agree: a thread is on donation_list, and has   *)
(* its old priority saved, exactly while it has donation locks; those are  *)
(* the donated locks it holds, each once (a lock has one list element).    *)
DonationRecords ==
  /\ \A t \in Thread :
       /\ Times(t, donation_list) = IF donation_locks[t] = <<>> THEN 0 ELSE 1
       /\ old_priority[t] = -1 <=> donation_locks[t] = <<>>
  /\ \A l \in Lock, t \in Thread :
       Times(l, donation_locks[t]) = IF donated[l] /\ holder[l] = t THEN 1 ELSE 0

(* Sleepers wake in the tick in which their time is over, also when the    *)
(* clock advanced between timer_sleep's two readings of it.                *)
WokenOnTime == \A t \in Range(sleep_queue) : remaining[t] > 0


(* What the comment on thread_unblock promises: a thread that the running  *)
(* thread unblocks, and whose priority is higher than the running thread's *)
(* own, gets the CPU at once.                                              *)
UnblockPreempts ==
  [][\A t, u \in Thread, s \in Semaphore :
       SemaUp(t, s) /\ k.status[u] = "blocked" /\ k'.status[u] = "ready"
       => k.priority[u] <= k.priority[t]]_vars
=============================================================================
