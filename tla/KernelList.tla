----------------------------- MODULE KernelList ----------------------------
(***************************************************************************)
(* The doubly linked lists of lib/kernel/list.c, pointer by pointer: next  *)
(* and prev of the elements and of the heads and tails of two lists.       *)
(* A sequence stands beside each list for what it should hold.             *)
(***************************************************************************)
EXTENDS Integers, Sequences, FiniteSets, SequencesExt

CONSTANTS
  Elem,    \* list elements, positive numbers
  Rank     \* the order LESS compares by

ListIds == {"list", "duplicates"}

VARIABLES
  heap,     \* heap.next and heap.prev
  holds     \* the elements each list should hold, in order

listVars == <<heap, holds>>

head(l) == IF l = "list" THEN -1 ELSE -2
tail(l) == IF l = "list" THEN -3 ELSE -4
Node == Elem \cup {head(l) : l \in ListIds} \cup {tail(l) : l \in ListIds}
less(a, b) == Rank[a] < Rank[b]

-----------------------------------------------------------------------------
(* The operations, as what they make of the heap h.                        *)
SetNext(h, n, m) == [h EXCEPT !.next[n] = m]
SetPrev(h, n, m) == [h EXCEPT !.prev[n] = m]

list_init(h, l) == SetPrev(SetNext(h, head(l), tail(l)), tail(l), head(l))

list_insert(h, before, e) ==
  LET p == h.prev[before]
  IN SetPrev(SetNext(SetNext(SetPrev(h, e, p), e, before), p, e), before, e)

list_splice(h, before, first, end) ==
  IF first = end THEN h
  ELSE LET last == h.prev[end]
           cut == SetPrev(SetNext(h, h.prev[first], h.next[last]), h.next[last], h.prev[first])
           p == cut.prev[before]
       IN SetPrev(SetNext(SetNext(SetPrev(cut, first, p), last, before), p, first), before, last)

list_remove(h, e) == SetPrev(SetNext(h, h.prev[e], h.next[e]), h.next[e], h.prev[e])
list_push_front(h, l, e) == list_insert(h, h.next[head(l)], e)
list_push_back(h, l, e) == list_insert(h, tail(l), e)
list_empty(h, l) == h.next[head(l)] = tail(l)

(* list_reverse swaps the pointers of each element, then those of the ends.*)
RECURSIVE SwapFrom(_, _, _)
SwapFrom(h, e, l) ==
  IF e = tail(l) THEN h
  ELSE LET g == SetPrev(SetNext(h, e, h.prev[e]), e, h.next[e])
       IN SwapFrom(g, g.prev[e], l)
list_reverse(h, l) ==
  IF list_empty(h, l) THEN h
  ELSE LET g == SwapFrom(h, h.next[head(l)], l)
           k == SetPrev(SetNext(g, head(l), g.prev[tail(l)]), tail(l), g.next[head(l)])
           first == k.next[head(l)]
           last == k.prev[tail(l)]
       IN SetNext(SetPrev(k, first, k.next[last]), last, k.prev[first])

(* The natural merge sort.                                                 *)
RECURSIVE find_end_of_run(_, _, _)
find_end_of_run(h, a, b) ==
  LET n == h.next[a] IN IF n # b /\ ~less(n, h.prev[n]) THEN find_end_of_run(h, n, b) ELSE n

RECURSIVE inplace_merge(_, _, _, _)
inplace_merge(h, a0, a1b0, b1) ==
  IF a0 = a1b0 \/ a1b0 = b1 THEN h
  ELSE IF ~less(a1b0, a0) THEN inplace_merge(h, h.next[a0], a1b0, b1)
  ELSE LET n == h.next[a1b0] IN inplace_merge(list_splice(h, a0, h.prev[n], n), a0, n, b1)

(* One pass merges pairs of runs and counts them.                          *)
RECURSIVE Pass(_, _, _, _)
Pass(h, l, a0, cnt) ==
  IF a0 = tail(l) THEN [h |-> h, cnt |-> cnt]
  ELSE LET a1b0 == find_end_of_run(h, a0, tail(l))
       IN IF a1b0 = tail(l) THEN [h |-> h, cnt |-> cnt + 1]
          ELSE LET b1 == find_end_of_run(h, a1b0, tail(l))
               IN Pass(inplace_merge(h, a0, a1b0, b1), l, b1, cnt + 1)
RECURSIVE list_sort(_, _)
list_sort(h, l) ==
  LET r == Pass(h, l, h.next[head(l)], 0) IN IF r.cnt > 1 THEN list_sort(r.h, l) ELSE r.h

RECURSIVE FirstAfter(_, _, _, _)
FirstAfter(h, l, x, e) ==
  IF e = tail(l) THEN e ELSE IF less(x, e) THEN e ELSE FirstAfter(h, l, x, h.next[e])
list_insert_ordered(h, l, x) == list_insert(h, FirstAfter(h, l, x, h.next[head(l)]), x)

RECURSIVE UniqueFrom(_, _, _, _)
UniqueFrom(h, l, dup, e) ==
  LET n == h.next[e]
  IN IF n = tail(l) THEN h
     ELSE IF ~less(e, n) /\ ~less(n, e)
          THEN UniqueFrom(list_push_back(list_remove(h, n), dup, n), l, dup, e)
          ELSE UniqueFrom(h, l, dup, n)
list_unique(h, l, dup) == IF list_empty(h, l) THEN h ELSE UniqueFrom(h, l, dup, h.next[head(l)])

RECURSIVE MaxFrom(_, _, _, _)
MaxFrom(h, l, m, e) == IF e = tail(l) THEN m ELSE MaxFrom(h, l, IF less(m, e) THEN e ELSE m, h.next[e])
list_max(h, l) == LET m == h.next[head(l)] IN IF m = tail(l) THEN m ELSE MaxFrom(h, l, m, h.next[m])

RECURSIVE MinFrom(_, _, _, _)
MinFrom(h, l, m, e) == IF e = tail(l) THEN m ELSE MinFrom(h, l, IF less(e, m) THEN e ELSE m, h.next[e])
list_min(h, l) == LET m == h.next[head(l)] IN IF m = tail(l) THEN m ELSE MinFrom(h, l, m, h.next[m])

-----------------------------------------------------------------------------
(* What the sequences should become.                                       *)
Before(s, a, b) ==
  \E i \in DOMAIN s, j \in DOMAIN s : s[i] = a /\ s[j] = b /\ (less(a, b) \/ (~less(b, a) /\ i < j))
StableSort(s) == CHOOSE r \in SetToAllKPermutations(ToSet(s)) :
                   Len(r) = Len(s) /\ \A i \in DOMAIN r, j \in DOMAIN r : i < j => Before(s, r[i], r[j])
InOrder(s) == \A i \in 1..(Len(s) - 1) : ~less(s[i + 1], s[i])
Equal(a, b) == ~less(a, b) /\ ~less(b, a)
Firsts(s) == {i \in DOMAIN s : i = 1 \/ ~Equal(s[i - 1], s[i])}
Pick(s, I) == SelectSeq(s, LAMBDA x : \E i \in I : s[i] = x)

Held == UNION {ToSet(holds[l]) : l \in ListIds}
Do(h, l, s) == heap' = h /\ holds' = [holds EXCEPT ![l] = s]

ListPush(l, e) ==
  /\ e \notin Held
  /\ \/ Do(list_push_front(heap, l, e), l, <<e>> \o holds[l])
     \/ Do(list_push_back(heap, l, e), l, Append(holds[l], e))
     \/ /\ InOrder(holds[l])
        /\ LET k == Cardinality({i \in DOMAIN holds[l] : ~less(e, holds[l][i])})
           IN Do(list_insert_ordered(heap, l, e), l, InsertAt(holds[l], k + 1, e))

ListRemove(l, e) == /\ e \in ToSet(holds[l])
                    /\ Do(list_remove(heap, e), l, SelectSeq(holds[l], LAMBDA x : x # e))

ListSplice(i, j, k) ==
  LET s == holds["list"]
      d == holds["duplicates"]
      NthOf(q, n, l) == IF n > Len(q) THEN tail(l) ELSE q[n]
  IN /\ i <= j /\ j <= Len(s) + 1 /\ k <= Len(d) + 1
     /\ heap' = list_splice(heap, NthOf(d, k, "duplicates"), NthOf(s, i, "list"), NthOf(s, j, "list"))
     /\ holds' = [list |-> SubSeq(s, 1, i - 1) \o SubSeq(s, j, Len(s)),
                  duplicates |-> SubSeq(d, 1, k - 1) \o SubSeq(s, i, j - 1) \o SubSeq(d, k, Len(d))]

ListReorder(l) ==
  \/ Do(list_reverse(heap, l), l, Reverse(holds[l]))
  \/ Do(list_sort(heap, l), l, StableSort(holds[l]))

ListUnique ==
  LET s == holds["list"]
  IN /\ heap' = list_unique(heap, "list", "duplicates")
     /\ holds' = [list |-> Pick(s, Firsts(s)),
                  duplicates |-> holds["duplicates"] \o Pick(s, DOMAIN s \ Firsts(s))]

NoLinks == [next |-> [n \in Node |-> n], prev |-> [n \in Node |-> n]]
ListInit ==
  /\ heap = list_init(list_init(NoLinks, "list"), "duplicates")
  /\ holds = [l \in ListIds |-> <<>>]

ListNext ==
  \/ \E l \in ListIds, e \in Elem : ListPush(l, e) \/ ListRemove(l, e)
  \/ \E i \in 1..Cardinality(Elem)+1, j \in 1..Cardinality(Elem)+1, k \in 1..Cardinality(Elem)+1 : ListSplice(i, j, k)
  \/ \E l \in ListIds : ListReorder(l)
  \/ ListUnique

-----------------------------------------------------------------------------
RECURSIVE Forward(_, _, _)
Forward(e, l, n) == IF e = tail(l) \/ n = 0 THEN <<>> ELSE <<e>> \o Forward(heap.next[e], l, n - 1)
RECURSIVE Backward(_, _, _)
Backward(e, l, n) == IF e = head(l) \/ n = 0 THEN <<>> ELSE <<e>> \o Backward(heap.prev[e], l, n - 1)
Bound == Cardinality(Node)

(* Through any sequence of calls both chains of a list hold the elements   *)
(* the calls should leave, in order: removal, splicing, reversal, the      *)
(* stable sort, ordered insertion and unique included; and the first of    *)
(* the largest, and of the smallest, is what list_max and list_min return. *)
ListsExact ==
  \A l \in ListIds :
    LET s == holds[l]
    IN /\ Forward(heap.next[head(l)], l, Bound) = s
       /\ Backward(heap.prev[tail(l)], l, Bound) = Reverse(s)
       /\ s # <<>> =>
            /\ list_max(heap, l) = Pick(s, {i \in DOMAIN s : \A j \in DOMAIN s : ~less(s[i], s[j])})[1]
            /\ list_min(heap, l) = Pick(s, {i \in DOMAIN s : \A j \in DOMAIN s : ~less(s[j], s[i])})[1]
=============================================================================
