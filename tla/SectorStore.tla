---------------------------- MODULE SectorStore ----------------------------
(***************************************************************************)
(* What the buffer cache promises its clients (the comments of             *)
(* cache_get_block and writeback in filesys/cache.c): per sector, access   *)
(* for one exclusive user or several shared ones, and contents that only a *)
(* user of the sector changes, wherever they are kept.  The contents of a  *)
(* freed sector are nobody's concern until it is used again.               *)
(***************************************************************************)
CONSTANTS Thread, Sector, Value

VARIABLES
  store,   \* contents of every sector, as a client would see them
  user,    \* user[t][s]: access of thread t to sector s
  free     \* sectors that belong to no file

storeVars == <<store, user, free>>

StoreInit == /\ store \in [Sector -> Value]
             /\ user = [t \in Thread |-> [s \in Sector |-> "none"]]
             /\ free = {}

Compatible(t, s, mode) ==
  \A u \in Thread \ {t} :
    IF mode = "exclusive" THEN user[u][s] = "none" ELSE user[u][s] # "exclusive"

Acquire(t, s, mode) == /\ user[t][s] = "none"
                       /\ Compatible(t, s, mode)
                       /\ user' = [user EXCEPT ![t][s] = mode]
                       /\ UNCHANGED free

Release(t, s) == /\ user[t][s] # "none"
                 /\ user' = [user EXCEPT ![t][s] = "none"]
                 /\ UNCHANGED free

Write(t, s, v) == /\ user[t][s] # "none"
                  /\ store' = [store EXCEPT ![s] = v]
                  /\ free' \in {free, free \ {s}}
                  /\ UNCHANGED user

Free(t, s) == /\ user[t][s] = "exclusive"
              /\ free' = free \cup {s}
              /\ UNCHANGED <<store, user>>

\* Whatever else happens, the contents of the sectors in use stay.
Keeps == /\ store' \in [Sector -> Value]
         /\ \A s \in Sector \ free : store'[s] = store[s]

StoreNext ==
  \/ /\ \E t \in Thread, s \in Sector :
          \/ \E mode \in {"shared", "exclusive"} : Acquire(t, s, mode)
          \/ Release(t, s)
     /\ Keeps
  \/ \E t \in Thread, s \in Sector : Free(t, s) \/ \E v \in Value : Write(t, s, v)
  \/ Keeps /\ UNCHANGED <<user, free>>

StoreSpec == StoreInit /\ [][StoreNext]_storeVars
=============================================================================
