----------------------------- MODULE HashTable -----------------------------
(***************************************************************************)
(* The hash tables of lib/kernel/hash.c.  Buckets are sequences, as the    *)
(* lists of KernelList are; an element is a key with a name of its own.    *)
(* The sizes of the code, at least 4 buckets and 2 elements in each at     *)
(* best, are constants.                                                    *)
(***************************************************************************)
EXTENDS Integers, Sequences, FiniteSets, SequencesExt, Bitwise

CONSTANTS
  HashKey,      \* keys; a key is its own hash value
  Twin,         \* names that tell elements with equal keys apart
  MIN_BUCKETS, BEST_ELEMS_PER_BUCKET

VARIABLES
  buckets, elem_cnt,
  table_holds,   \* the elements that should be in the table
  returned,      \* what the last call returned, and what it should have
  iter           \* the elements an iteration has seen, or <<>> before it

hashVars == <<buckets, elem_cnt, table_holds, returned, iter>>

HashElem == [key : HashKey, twin : Twin]
NoElem == [key |-> -1, twin |-> ""]
bucket_cnt(b) == Len(b)

-----------------------------------------------------------------------------
find_bucket(b, e) == (e.key & (bucket_cnt(b) - 1)) + 1
find_elem(b, e) ==
  LET found == {i \in DOMAIN b[find_bucket(b, e)] : b[find_bucket(b, e)][i].key = e.key}
  IN IF found = {} THEN NoElem ELSE b[find_bucket(b, e)][CHOOSE i \in found : \A j \in found : i <= j]
insert_elem(b, e) == [b EXCEPT ![find_bucket(b, e)] = <<e>> \o @]
remove_elem(b, e) == [b EXCEPT ![find_bucket(b, e)] = SelectSeq(@, LAMBDA x : x # e)]

turn_off_least_1bit(x) == x & (x - 1)
is_power_of_2(x) == x # 0 /\ turn_off_least_1bit(x) = 0
RECURSIVE PowerBelow(_)
PowerBelow(x) == IF is_power_of_2(x) THEN x ELSE PowerBelow(turn_off_least_1bit(x))
NewCount(cnt) ==
  LET c == cnt \div BEST_ELEMS_PER_BUCKET IN PowerBelow(IF c < MIN_BUCKETS THEN MIN_BUCKETS ELSE c)

(* rehash: each element moves to the front of its new bucket, if there is  *)
(* memory for the buckets.                                                 *)
RehashInPlace(b, cnt, memory) ==
  LET n == NewCount(cnt)
  IN IF n = bucket_cnt(b) \/ ~memory THEN b
     ELSE [i \in 1..n |-> IF i <= bucket_cnt(b) THEN b[i] ELSE <<>>]
rehash(b, cnt, memory) ==
  LET n == NewCount(cnt)
  IN IF n = bucket_cnt(b) \/ ~memory THEN b
     ELSE FoldLeft(LAMBDA new, e : insert_elem(new, e), [i \in 1..n |-> <<>>], FlattenSeq(b))

-----------------------------------------------------------------------------
Equals(e) == {x \in table_holds : x.key = e.key}
Expected(e) == IF Equals(e) = {} THEN NoElem ELSE CHOOSE x \in Equals(e) : TRUE

hash_insert(e, memory) ==
  LET old == find_elem(buckets, e)
      cnt == IF old = NoElem THEN elem_cnt + 1 ELSE elem_cnt
  IN /\ e \notin table_holds /\ elem_cnt' = cnt
     /\ buckets' = rehash(IF old = NoElem THEN insert_elem(buckets, e) ELSE buckets, cnt, memory)
     /\ table_holds' = IF Equals(e) = {} THEN table_holds \cup {e} ELSE table_holds
     /\ returned' = <<old, Expected(e)>> /\ iter' = <<>>

hash_replace(e, memory) ==
  LET old == find_elem(buckets, e)
      cnt == IF old = NoElem THEN elem_cnt + 1 ELSE elem_cnt
      without == IF old = NoElem THEN buckets ELSE remove_elem(buckets, old)
  IN /\ e \notin table_holds /\ elem_cnt' = cnt
     /\ buckets' = rehash(insert_elem(without, e), cnt, memory)
     /\ table_holds' = (table_holds \ Equals(e)) \cup {e}
     /\ returned' = <<old, Expected(e)>> /\ iter' = <<>>

hash_delete(e, memory) ==
  LET found == find_elem(buckets, e)
  IN /\ IF found = NoElem THEN UNCHANGED <<buckets, elem_cnt>>
        ELSE /\ elem_cnt' = elem_cnt - 1
             /\ buckets' = rehash(remove_elem(buckets, found), elem_cnt - 1, memory)
     /\ table_holds' = table_holds \ Equals(e)
     /\ returned' = <<found, Expected(e)>> /\ iter' = <<>>

hash_clear ==
  /\ buckets' = [i \in DOMAIN buckets |-> <<>>] /\ elem_cnt' = 0
  /\ table_holds' = {} /\ iter' = <<>> /\ UNCHANGED returned

(* hash_first and the calls of hash_next up to the end: bucket by bucket.  *)
hash_next ==
  /\ iter = <<>> /\ elem_cnt > 0
  /\ iter' = FlattenSeq(buckets)
  /\ UNCHANGED <<buckets, elem_cnt, table_holds, returned>>

HashInit ==
  /\ buckets = [i \in 1..MIN_BUCKETS |-> <<>>] /\ elem_cnt = 0
  /\ table_holds = {} /\ returned = <<NoElem, NoElem>> /\ iter = <<>>

HashNext ==
  \/ \E e \in HashElem, memory \in BOOLEAN :
       hash_insert(e, memory) \/ hash_replace(e, memory) \/ hash_delete(e, memory)
  \/ hash_clear \/ hash_next

-----------------------------------------------------------------------------
(* Through any calls, and any failures to allocate the buckets of a new    *)
(* size, the table holds exactly what was put in, each element in the      *)
(* bucket a search looks in; every call returns the equal element that was *)
(* there; an iteration sees each element once.                             *)
HashExact ==
  /\ elem_cnt = Cardinality(table_holds)
  /\ \A e \in HashElem : e \in table_holds <=> find_elem(buckets, e) = e
  /\ Len(FlattenSeq(buckets)) = elem_cnt
  /\ is_power_of_2(bucket_cnt(buckets)) /\ bucket_cnt(buckets) >= MIN_BUCKETS
  /\ returned[1] = returned[2]
  /\ iter # <<>> => ToSet(iter) = table_holds /\ Len(iter) = elem_cnt
=============================================================================
