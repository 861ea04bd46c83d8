------------------------------ MODULE StdLib -------------------------------
(***************************************************************************)
(* lib/stdlib.c: the heap sort behind qsort, the binary search behind      *)
(* bsearch, and atoi.  Elements are numbers compared by value; the bytes   *)
(* do_swap exchanges one by one are one element here.                      *)
(***************************************************************************)
EXTENDS Integers, Sequences, FiniteSets, SequencesExt

CONSTANTS
  MaxCount,      \* elements an array may have
  Value,         \* values of the elements
  IntMax         \* the largest int

VARIABLES
  array,
  given,         \* the array before the last sort
  sorted         \* whether the array was sorted

stdlibVars == <<array, given, sorted>>

-----------------------------------------------------------------------------
do_compare(a, i, j) == a[i] - a[j]
do_swap(a, i, j) == [a EXCEPT ![i] = a[j], ![j] = a[i]]

RECURSIVE heapify_left(_, _, _)
heapify_left(a, i, cnt) ==
  LET left == 2 * i
      max == IF left <= cnt /\ do_compare(a, left, i) > 0 THEN left ELSE i
  IN IF max = i THEN a ELSE heapify_left(do_swap(a, i, max), max, cnt)

RECURSIVE heapify(_, _, _)
heapify(a, i, cnt) ==
  LET left == 2 * i
      right == 2 * i + 1
      m == IF left <= cnt /\ do_compare(a, left, i) > 0 THEN left ELSE i
      max == IF right <= cnt /\ do_compare(a, right, m) > 0 THEN right ELSE m
  IN IF max = i THEN a ELSE heapify(do_swap(a, i, max), max, cnt)

RECURSIVE BuildHeap(_, _)
BuildHeap(a, i) == IF i = 0 THEN a ELSE BuildHeap(heapify(a, i, Len(a)), i - 1)
RECURSIVE SortHeap(_, _)
SortHeap(a, i) == IF i <= 1 THEN a ELSE SortHeap(heapify(do_swap(a, 1, i), 1, i - 1), i - 1)
sort(a) == SortHeap(BuildHeap(a, Len(a) \div 2), Len(a))

(* first and last count elements from 0; the result is an index from 1,    *)
(* or 0 for a null pointer.                                                *)
RECURSIVE SearchBetween(_, _, _, _)
SearchBetween(a, key, first, last) ==
  LET middle == first + (last - first) \div 2
      cmp == key - a[middle + 1]
  IN IF first >= last THEN 0
     ELSE IF cmp < 0 THEN SearchBetween(a, key, first, middle)
     ELSE IF cmp > 0 THEN SearchBetween(a, key, middle + 1, last)
     ELSE middle + 1
binary_search(a, key) == SearchBetween(a, key, 0, Len(a))

(* A string is a sequence of character codes without the null byte.        *)
isdigit(c) == c \in 48..57
Space == 32
Plus == 43
Minus == 45
RECURSIVE SkipSpace(_)
SkipSpace(s) == IF s # <<>> /\ s[1] = Space THEN SkipSpace(Tail(s)) ELSE s
RECURSIVE ParseDigits(_, _)
ParseDigits(s, value) ==
  IF s # <<>> /\ isdigit(s[1]) THEN ParseDigits(Tail(s), value * 10 - (s[1] - 48)) ELSE value
atoi(str) ==
  LET s == SkipSpace(str)
      negative == s # <<>> /\ s[1] = Minus
      signed == s # <<>> /\ s[1] \in {Plus, Minus}
      value == ParseDigits(IF signed THEN Tail(s) ELSE s, 0)
  IN IF negative THEN value ELSE -value

-----------------------------------------------------------------------------
qsort == /\ ~sorted /\ array' = sort(array) /\ given' = array /\ sorted' = TRUE

StdlibInit == array \in SeqOf(Value, MaxCount) /\ given = array /\ sorted = FALSE
StdlibNext == qsort

-----------------------------------------------------------------------------
(* Sorting leaves the same elements in order; the search then finds an     *)
(* element with the key exactly when there is one.                         *)
SortsAndFinds ==
  sorted =>
    /\ \A v \in Value : Cardinality({i \in DOMAIN array : array[i] = v})
                       = Cardinality({i \in DOMAIN given : given[i] = v})
    /\ \A i \in 1..(Len(array) - 1) : array[i] <= array[i + 1]
    /\ \A key \in Value :
         LET i == binary_search(array, key)
         IN IF key \in ToSet(array) THEN i # 0 /\ array[i] = key ELSE i = 0

(* atoi reads back every int, the least one, whose negation is not an int, *)
(* included, and no value on the way is less than it.                      *)
Decimal(n) == IF n < 10 THEN <<48 + n>> ELSE <<48 + n \div 10, 48 + (n % 10)>>
ReadsBack ==
  \A n \in 0..(IntMax + 1) : \A rest \in {<<>>, <<120>>, <<Space>>} :
    /\ atoi(<<Space, Minus>> \o Decimal(n) \o rest) = -n
    /\ n <= IntMax => atoi(Decimal(n) \o rest) = n /\ atoi(<<Plus>> \o Decimal(n) \o rest) = n
=============================================================================
