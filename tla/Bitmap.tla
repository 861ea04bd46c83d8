------------------------------- MODULE Bitmap ------------------------------
(***************************************************************************)
(* The bitmaps of lib/kernel/bitmap.c: an array of elements of ELEM_BITS   *)
(* bits each, the last of which may have bits to spare.  The set of the    *)
(* numbers of the bits that should be true stands beside it.               *)
(***************************************************************************)
EXTENDS Integers, Sequences, FiniteSets, FiniteSetsExt, Bitwise

CONSTANTS
  ELEM_BITS,
  BitCounts     \* sizes bitmap_create is called with

VARIABLES
  bit_cnt, bits,
  marked,       \* the bits that should be true
  file,         \* the elements a file holds, and the bits saved with them
  answer        \* what the last call returned, and what it should have

bitmapVars == <<bit_cnt, bits, marked, file, answer>>

BITMAP_ERROR == -1
ElemValues == 0..(2^ELEM_BITS - 1)

elem_idx(i) == i \div ELEM_BITS
bit_mask(i) == 2^(i % ELEM_BITS)
ElemCnt(cnt) == (cnt + ELEM_BITS - 1) \div ELEM_BITS
last_mask ==
  LET last_bits == bit_cnt % ELEM_BITS
  IN IF last_bits # 0 THEN 2^last_bits - 1 ELSE 2^ELEM_BITS - 1

-----------------------------------------------------------------------------
bitmap_mark(b, i) == [b EXCEPT ![elem_idx(i)] = @ | bit_mask(i)]
bitmap_reset(b, i) == [b EXCEPT ![elem_idx(i)] = @ & (2^ELEM_BITS - 1 - bit_mask(i))]
bitmap_set(b, i, value) == IF value THEN bitmap_mark(b, i) ELSE bitmap_reset(b, i)
bitmap_test(b, i) == (b[elem_idx(i)] & bit_mask(i)) # 0

bitmap_set_multiple(b, start, cnt, value) ==
  LET Upto[n \in 0..cnt] == IF n = 0 THEN b ELSE bitmap_set(Upto[n - 1], start + n - 1, value)
  IN Upto[cnt]
bitmap_count(start, cnt, value) ==
  LET Upto[n \in 0..cnt] ==
        IF n = 0 THEN 0 ELSE Upto[n - 1] + (IF bitmap_test(bits, start + n - 1) = value THEN 1 ELSE 0)
  IN Upto[cnt]
bitmap_contains(start, cnt, value) == \E i \in start..(start + cnt - 1) : bitmap_test(bits, i) = value
bitmap_all(start, cnt) == ~bitmap_contains(start, cnt, FALSE)

bitmap_scan(start, cnt, value) ==
  LET groups == {i \in start..(bit_cnt - cnt) : ~bitmap_contains(i, cnt, ~value)}
  IN IF cnt <= bit_cnt /\ groups # {} THEN Min(groups) ELSE BITMAP_ERROR

-----------------------------------------------------------------------------
Bits == 0..(bit_cnt - 1)
Spans == {<<start, cnt>> \in (0..bit_cnt) \X (0..bit_cnt) : start + cnt <= bit_cnt}
Becomes(s, cnt, value) ==
  IF value THEN marked \cup (s..(s + cnt - 1)) ELSE marked \ (s..(s + cnt - 1))

(* malloc leaves anything in the elements; set_all clears the bits.        *)
bitmap_create(cnt) ==
  \E junk \in [0..(ElemCnt(cnt) - 1) -> ElemValues] :
    /\ bit_cnt' = cnt /\ bits' = bitmap_set_multiple(junk, 0, cnt, FALSE)
    /\ marked' = {} /\ answer' = <<TRUE, TRUE>> /\ file' = [elems |-> <<>>, set |-> {}, cnt |-> 0]

bitmap_flip(i) ==
  /\ bits' = [bits EXCEPT ![elem_idx(i)] = @ ^^ bit_mask(i)]
  /\ marked' = IF i \in marked THEN marked \ {i} ELSE marked \cup {i}
  /\ UNCHANGED <<bit_cnt, file, answer>>

SetMultiple(start, cnt, value) ==
  /\ bits' = bitmap_set_multiple(bits, start, cnt, value)
  /\ marked' = Becomes(start, cnt, value)
  /\ UNCHANGED <<bit_cnt, file, answer>>

bitmap_scan_and_flip(start, cnt, value) ==
  LET idx == bitmap_scan(start, cnt, value)
      Free == {i \in start..(bit_cnt - cnt) : \A k \in i..(i + cnt - 1) : (k \in marked) = value}
  IN /\ bits' = IF idx # BITMAP_ERROR THEN bitmap_set_multiple(bits, idx, cnt, ~value) ELSE bits
     /\ marked' = IF Free = {} THEN marked ELSE Becomes(Min(Free), cnt, ~value)
     /\ answer' = <<idx, IF Free = {} THEN BITMAP_ERROR ELSE Min(Free)>>
     /\ UNCHANGED <<bit_cnt, file>>

bitmap_write ==
  /\ file' = [elems |-> bits, set |-> marked, cnt |-> bit_cnt]
  /\ UNCHANGED <<bit_cnt, bits, marked, answer>>

(* The file was written by bitmap_write from a bitmap of the same size.    *)
bitmap_read ==
  /\ file.cnt = bit_cnt /\ bit_cnt > 0
  /\ bits' = [file.elems EXCEPT ![ElemCnt(bit_cnt) - 1] = @ & last_mask]
  /\ marked' = file.set
  /\ UNCHANGED <<bit_cnt, file, answer>>

BitmapInit ==
  /\ bit_cnt = 0 /\ bits = [i \in {} |-> 0] /\ marked = {}
  /\ file = [elems |-> <<>>, set |-> {}, cnt |-> 0] /\ answer = <<TRUE, TRUE>>

BitmapNext ==
  \/ bit_cnt = 0 /\ \E cnt \in BitCounts : bitmap_create(cnt)
  \/ \E i \in Bits : bitmap_flip(i)
  \/ \E span \in Spans, value \in BOOLEAN : SetMultiple(span[1], span[2], value)
  \/ \E start \in 0..bit_cnt, cnt \in 0..(bit_cnt + 1), value \in BOOLEAN :
       bitmap_scan_and_flip(start, cnt, value)
  \/ bitmap_write \/ bitmap_read

-----------------------------------------------------------------------------
(* Whatever lay in the spare bits of the last element, the bits of a       *)
(* bitmap are those the calls set, counted and scanned right, and the      *)
(* first group at or after a start is the one found and flipped.           *)
BitmapExact ==
  /\ answer[1] = answer[2]
  /\ \A i \in Bits : bitmap_test(bits, i) <=> i \in marked
  /\ \A span \in Spans :
       LET inside == span[1]..(span[1] + span[2] - 1)
       IN /\ bitmap_count(span[1], span[2], TRUE) = Cardinality(marked \cap inside)
          /\ bitmap_contains(span[1], span[2], TRUE) <=> marked \cap inside # {}
          /\ bitmap_all(span[1], span[2]) <=> inside \subseteq marked
=============================================================================
