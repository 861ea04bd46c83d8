---------------------------- MODULE MCScheduler ----------------------------
(* Small instances of Scheduler.  mix says what the threads of a behaviour   *)
(* use: two nested locks, or a lock, a semaphore and the timer.             *)
EXTENDS Scheduler, TLC

CONSTANTS mainThread, threadA, threadB, lockA, lockB, semaA

VARIABLE mix

Order == (lockA :> 1) @@ (lockB :> 2)
Workers == Permutations(Thread \ {Main})

Mixes == {{"run", lockA, lockB}, {"run", "sleep", lockA, semaA}}
Used(t) == {IF pc[t].at = "sleep" THEN "sleep" ELSE "run",
            IF pc[t].on \in Sema THEN pc[t].on ELSE "run"}
InMix == /\ \A t \in Thread : Used(t) \subseteq mix
         /\ semaA \notin mix => value[semaA] = 0

MCInit == Init /\ mix \in Mixes
MCNext == Next /\ UNCHANGED mix
MCSpec == MCInit /\ [][MCNext]_<<vars, mix>>

(* However blocking, waking, donating and exiting interleave, every thread  *)
(* is on the one list its status says and ready_threads counts the threads  *)
(* that are ready or running.                                               *)
ListsConsistent == SchedTypeOK /\ OnOneList /\ ReadyCounted
=============================================================================
