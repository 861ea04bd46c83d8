----------------------------- MODULE StringLib -----------------------------
(***************************************************************************)
(* lib/string.c over a small memory: a pointer is an address of it, NULL   *)
(* is -1, and a string is the bytes from its pointer up to a null byte.    *)
(***************************************************************************)
EXTENDS Integers, Sequences, FiniteSets, SequencesExt, FiniteSetsExt

CONSTANTS
  MemSize,       \* bytes of memory
  Byte,          \* values of a byte, 0 among them
  Delims         \* the delimiters tokens are separated by, none of them 0

VARIABLES
  mem,
  save_ptr,      \* where strtok_r goes on, or NULL
  origin,        \* the string being tokenized, as it was
  tokens         \* the tokens returned so far

stringVars == <<mem, save_ptr, origin, tokens>>

NULL == -1
Addr == 0..(MemSize - 1)
IsString(p) == \E q \in p..(MemSize - 1) : mem[q] = 0

-----------------------------------------------------------------------------
(* The loops of the source, as recursion on the bytes left.                *)
RECURSIVE memcpy(_, _, _, _)
memcpy(m, dst, src, size) ==
  IF size = 0 THEN m ELSE memcpy([m EXCEPT ![dst] = m[src]], dst + 1, src + 1, size - 1)

RECURSIVE CopyDown(_, _, _, _)
CopyDown(m, dst, src, size) ==
  IF size = 0 THEN m
  ELSE CopyDown([m EXCEPT ![dst + size - 1] = m[src + size - 1]], dst, src, size - 1)
memmove_up(m, dst, src, size) == memcpy(m, dst, src, size)
memmove(m, dst, src, size) ==
  IF dst < src THEN memcpy(m, dst, src, size) ELSE CopyDown(m, dst, src, size)

RECURSIVE memset(_, _, _, _)
memset(m, dst, value, size) ==
  IF size = 0 THEN m ELSE memset([m EXCEPT ![dst] = value], dst + 1, value, size - 1)

RECURSIVE memcmp(_, _, _, _)
memcmp(m, a, b, size) ==
  IF size = 0 THEN 0
  ELSE IF m[a] # m[b] THEN IF m[a] > m[b] THEN 1 ELSE -1
  ELSE memcmp(m, a + 1, b + 1, size - 1)

RECURSIVE strcmp(_, _, _)
strcmp(m, a, b) ==
  IF m[a] # 0 /\ m[a] = m[b] THEN strcmp(m, a + 1, b + 1)
  ELSE IF m[a] < m[b] THEN -1 ELSE IF m[a] > m[b] THEN 1 ELSE 0

RECURSIVE memchr(_, _, _, _)
memchr(m, block, ch, size) ==
  IF size = 0 THEN NULL ELSE IF m[block] = ch THEN block ELSE memchr(m, block + 1, ch, size - 1)

RECURSIVE strchr(_, _, _)
strchr(m, s, c) == IF m[s] = c THEN s ELSE IF m[s] = 0 THEN NULL ELSE strchr(m, s + 1, c)

RECURSIVE strrchr(_, _, _, _)
strrchr(m, s, c, p) == IF m[s] = 0 THEN p ELSE strrchr(m, s + 1, c, IF m[s] = c THEN s ELSE p)

RECURSIVE strlen(_, _)
strlen(m, p) == IF m[p] = 0 THEN 0 ELSE 1 + strlen(m, p + 1)

RECURSIVE strnlen(_, _, _)
strnlen(m, p, maxlen) == IF m[p] = 0 \/ maxlen = 0 THEN 0 ELSE 1 + strnlen(m, p + 1, maxlen - 1)

RECURSIVE strspn(_, _, _)
strspn(m, s, skip) == IF m[s] = 0 \/ strchr(m, skip, m[s]) = NULL THEN 0 ELSE 1 + strspn(m, s + 1, skip)

RECURSIVE strcspn(_, _, _)
strcspn(m, s, stop) == IF m[s] = 0 \/ strchr(m, stop, m[s]) # NULL THEN 0 ELSE 1 + strcspn(m, s + 1, stop)

RECURSIVE strpbrk(_, _, _)
strpbrk(m, s, stop) ==
  IF m[s] = 0 THEN NULL ELSE IF strchr(m, stop, m[s]) # NULL THEN s ELSE strpbrk(m, s + 1, stop)

strstr(m, haystack, needle) ==
  LET h == strlen(m, haystack)
      n == strlen(m, needle)
      found == {i \in 0..(h - n) : memcmp(m, haystack + i, needle, n) = 0}
  IN IF found = {} THEN NULL ELSE haystack + Min(found)

(* The copies say what they return, and the memory they leave.             *)
strlcpy(m, dst, src, size) ==
  LET src_len == strlen(m, src)
      dst_len == IF src_len < size - 1 THEN src_len ELSE size - 1
  IN IF size = 0 THEN m ELSE [memcpy(m, dst, src, dst_len) EXCEPT ![dst + dst_len] = 0]

strlcat(m, dst, src, size) ==
  LET src_len == strlen(m, src)
      dst_len == strlen(m, dst)
      copy_cnt == IF src_len < size - dst_len - 1 THEN src_len ELSE size - dst_len - 1
  IN IF size = 0 \/ dst_len >= size THEN m
     ELSE [memcpy(m, dst + dst_len, src, copy_cnt) EXCEPT ![dst + dst_len + copy_cnt] = 0]

-----------------------------------------------------------------------------
Text(m, p) == [i \in 1..strlen(m, p) |-> m[p + i - 1]]
NoTokens == save_ptr = NULL /\ tokens = <<>>

Moved(dst, src, size) ==
  /\ NoTokens /\ dst + size <= MemSize /\ src + size <= MemSize
  /\ mem' = memmove(mem, dst, src, size) /\ UNCHANGED <<save_ptr, origin, tokens>>
Cleared(dst, value, size) ==
  /\ NoTokens /\ dst + size <= MemSize
  /\ mem' = memset(mem, dst, value, size) /\ UNCHANGED <<save_ptr, origin, tokens>>

(* strtok_r from s: delimiters are skipped, the token's end is made a null *)
(* byte.                                                                   *)
RECURSIVE SkipDelims(_, _)
SkipDelims(m, s) == IF m[s] \in Delims THEN SkipDelims(m, s + 1) ELSE s
RECURSIVE TokenEnd(_, _)
TokenEnd(m, s) == IF m[s] \in Delims \cup {0} THEN s ELSE TokenEnd(m, s + 1)
strtok_r(s) ==
  LET token == SkipDelims(mem, s)
      end == TokenEnd(mem, token)
  IN IF mem[token] = 0
     THEN save_ptr' = NULL /\ tokens' = <<>> /\ origin' = <<>> /\ UNCHANGED mem
     ELSE LET cut == IF mem[end] # 0 THEN [mem EXCEPT ![end] = 0] ELSE mem
          IN /\ mem' = cut
             /\ save_ptr' = IF mem[end] # 0 THEN end + 1 ELSE end
             /\ tokens' = Append(tokens, Text(cut, token))
             /\ origin' = IF save_ptr = NULL THEN Text(mem, s) ELSE origin

StringInit == mem \in [Addr -> Byte] /\ save_ptr = NULL /\ origin = <<>> /\ tokens = <<>>

StringNext ==
  \/ \E dst \in Addr, src \in Addr, size \in 1..2 : Moved(dst, src, size)
  \/ \E dst \in Addr, value \in Byte, size \in 1..2 : Cleared(dst, value, size)
  \/ \E s \in Addr : NoTokens /\ IsString(s) /\ strtok_r(s)
  \/ save_ptr # NULL /\ strtok_r(save_ptr)

-----------------------------------------------------------------------------
(* A copy leaves at the destination what lay at the source before it,      *)
(* where the two overlap as where they do not, and nothing else changes.   *)
CopiesRight ==
  \A dst \in Addr, src \in Addr, size \in 0..MemSize :
    dst + size <= MemSize /\ src + size <= MemSize =>
      memmove(mem, dst, src, size) =
        [a \in Addr |-> IF a \in dst..(dst + size - 1) THEN mem[src + a - dst] ELSE mem[a]]

First(S) == IF S = {} THEN NULL ELSE Min(S)
ChrsOf(p) == ToSet(Text(mem, p))
SearchesRight ==
  \A p \in Addr : IsString(p) =>
    LET end == p + strlen(mem, p)
    IN /\ \A c \in Byte :
            /\ strchr(mem, p, c) = First({q \in p..end : mem[q] = c})
            /\ strrchr(mem, p, c, NULL) = Max({NULL} \cup {q \in p..(end - 1) : mem[q] = c})
            /\ memchr(mem, p, c, end - p) = First({q \in p..(end - 1) : mem[q] = c})
       /\ \A n \in 0..MemSize : strnlen(mem, p, n) = Min({end - p, n})
       /\ \A r \in Addr : IsString(r) =>
            /\ strcmp(mem, p, r) = 0 <=> Text(mem, p) = Text(mem, r)
            /\ strcmp(mem, p, r) = -strcmp(mem, r, p)
            /\ strcspn(mem, p, r) = Min({end - p} \cup {q - p : q \in {x \in p..(end - 1) : mem[x] \in ChrsOf(r)}})
            /\ strspn(mem, p, r) = Min({end - p} \cup {q - p : q \in {x \in p..(end - 1) : mem[x] \notin ChrsOf(r)}})
            /\ strpbrk(mem, p, r) = First({q \in p..(end - 1) : mem[q] \in ChrsOf(r)})
            /\ strstr(mem, p, r) = First({q \in p..end : IsPrefix(Text(mem, r), Text(mem, q))})

(* strlcpy and strlcat end with a null byte inside the SIZE bytes and      *)
(* truncate only what does not fit.                                        *)
BoundedRight ==
  \A dst \in Addr, src \in Addr, size \in 1..MemSize :
    LET text == Text(mem, src)
        old == Text(mem, dst)
        Cut(t) == SubSeq(t, 1, Min({Len(t), size - 1}))
    IN /\ (IsString(src) /\ dst + size <= src) =>
            LET m == strlcpy(mem, dst, src, size)
            IN Text(m, dst) = Cut(text) /\ \A a \in Addr \ (dst..(dst + size - 1)) : m[a] = mem[a]
       /\ (IsString(src) /\ dst + size <= src /\ \E q \in dst..(dst + size - 1) : mem[q] = 0) =>
            LET m == strlcat(mem, dst, src, size)
            IN Text(m, dst) = Cut(old \o text) /\ \A a \in Addr \ (dst..(dst + size - 1)) : m[a] = mem[a]

(* The tokens returned so far are the first maximal runs of characters     *)
(* that are not delimiters, and the rest are still to come.                *)
TokensRight ==
  LET P == {i \in DOMAIN origin : origin[i] \notin Delims}
      starts == SetToSortSeq({i \in P : i - 1 \notin P}, <)
      End(i) == Max({j \in P : i..j \subseteq P})
      runs == [k \in DOMAIN starts |-> SubSeq(origin, starts[k], End(starts[k]))]
  IN /\ IsPrefix(tokens, runs)
     /\ (save_ptr # NULL /\ Len(tokens) = Len(runs)) => mem[SkipDelims(mem, save_ptr)] = 0

(* The functions of string.c do what their comments say of every string.   *)
StringsExact == CopiesRight /\ SearchesRight /\ BoundedRight /\ TokensRight
=============================================================================
