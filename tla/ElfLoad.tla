------------------------------ MODULE ElfLoad ------------------------------
(***************************************************************************)
(* load of userprog/process.c: the program headers of an executable, its   *)
(* segments page by page, the stack page and the arguments on it.          *)
(* Addresses are numbers below AddrSpace and wrap there; the byte of the   *)
(* file at offset i is i + 1, and 0 is the byte zeroing leaves.  Pointers  *)
(* have WORD bytes of RADIX values; only the low byte of a stack address   *)
(* can be zero.                                                            *)
(***************************************************************************)
EXTENDS Integers, Sequences, FiniteSets, FiniteSetsExt, TLC

CONSTANTS
  PGSIZE, PHYS_BASE, AddrSpace,
  FileLength,
  Headers,         \* sequences of program headers executables have
  CommandLines,    \* sequences of argument lengths
  WORD, RADIX,
  StackTop,        \* PHYS_BASE where the arguments are concerned
  MaxJunk          \* bound: nonzero bytes after the addresses in load's array

VARIABLES
  phdrs, at_phdr,       \* the headers, and the next one
  segment,              \* load_segment's variables, or NoSegment
  image,                \* user pages: bytes and whether they are writable
  pages,                \* pages held: allocated and not freed
  argument_lengths, stack, esp,
  load_state            \* "loading", "loaded" or "failed"

loadVars == <<phdrs, at_phdr, segment, image, pages, argument_lengths, stack, esp, load_state>>

NoSegment == [ofs |-> -1]
ROUND_UP(x) == ((x + PGSIZE - 1) \div PGSIZE) * PGSIZE
is_user_vaddr(a) == a < PHYS_BASE

-----------------------------------------------------------------------------
validate_segment(p) ==
  LET end == (p.p_vaddr + p.p_memsz) % AddrSpace
  IN /\ p.p_offset % PGSIZE = p.p_vaddr % PGSIZE
     /\ p.p_offset <= FileLength
     /\ p.p_memsz >= p.p_filesz /\ p.p_memsz # 0
     /\ is_user_vaddr(p.p_vaddr) /\ is_user_vaddr(end)
     /\ end >= p.p_vaddr
     /\ p.p_vaddr >= PGSIZE

FailLoad ==
  /\ load_state' = "failed"
  /\ UNCHANGED <<phdrs, at_phdr, segment, image, argument_lengths, stack, esp>>

(* One turn of the loop over the program headers.                          *)
ReadPhdr(short) ==
  LET p == phdrs[at_phdr]
      page_offset == p.p_vaddr % PGSIZE
      read_bytes == IF p.p_filesz > 0 THEN page_offset + p.p_filesz ELSE 0
  IN /\ load_state = "loading" /\ segment = NoSegment /\ at_phdr <= Len(phdrs)
     /\ IF \/ short \/ p.p_type \in {"dynamic", "interp", "shlib"}
           \/ p.p_type = "load" /\ ~validate_segment(p)
        THEN FailLoad /\ UNCHANGED pages
        ELSE /\ at_phdr' = at_phdr + 1
             /\ segment' =
                  IF p.p_type # "load" THEN NoSegment
                  ELSE [ofs |-> (p.p_offset \div PGSIZE) * PGSIZE, upage |-> p.p_vaddr \div PGSIZE,
                        read_bytes |-> read_bytes,
                        zero_bytes |-> ROUND_UP(page_offset + p.p_memsz) - read_bytes,
                        writable |-> p.writable]
             /\ UNCHANGED <<phdrs, image, pages, argument_lengths, stack, esp, load_state>>

(* One turn of load_segment's loop.  memory and tables: whether there is a *)
(* page, and room for a page table.                                        *)
load_segment(memory, tables) ==
  LET g == segment
      page_read == IF g.read_bytes < PGSIZE THEN g.read_bytes ELSE PGSIZE
      page_zero == PGSIZE - page_read
      bytes == [i \in 0..(PGSIZE - 1) |-> IF i < page_read THEN g.ofs + i + 1 ELSE 0]
      mapped == g.upage \in DOMAIN image
  IN /\ load_state = "loading" /\ segment # NoSegment
     /\ IF ~memory \/ g.ofs + page_read > FileLength \/ mapped \/ ~tables
        THEN FailLoad /\ UNCHANGED pages
        ELSE /\ image' = image @@ (g.upage :> [bytes |-> bytes, writable |-> g.writable])
             /\ pages' = pages + 1
             /\ segment' = IF g.read_bytes + g.zero_bytes = PGSIZE THEN NoSegment
                           ELSE [g EXCEPT !.ofs = @ + page_read, !.upage = @ + 1,
                                          !.read_bytes = @ - page_read, !.zero_bytes = @ - page_zero]
             /\ UNCHANGED <<phdrs, at_phdr, argument_lengths, stack, esp, load_state>>

-----------------------------------------------------------------------------
(* The arguments, from the last byte of the stack down.                    *)
RECURSIVE Addresses(_, _)
Addresses(lengths, top) ==
  IF lengths = <<>> THEN <<>>
  ELSE LET a == top - (lengths[1] + 1) IN <<a>> \o Addresses(Tail(lengths), a)

StringBytes(k, a, len) == [x \in a..(a + len) |-> <<"char", k, x - a>>]
PointerBytes(p, a) == [x \in a..(a + WORD - 1) |-> <<"pointer", p, x - a>>]

(* strlen of the array of addresses: it ends at a zero byte.               *)
AddressBytes(addresses, junk) ==
  LET zero == {k \in DOMAIN addresses : addresses[k] % RADIX = 0}
  IN IF zero # {} THEN WORD * (Min(zero) - 1) ELSE WORD * Len(addresses) + junk

(* memcpy of the addresses over what lies there.                           *)
RECURSIVE PutPointers(_, _, _)
PutPointers(s, addresses, a) ==
  IF addresses = <<>> THEN s
  ELSE PutPointers(PointerBytes(addresses[1], a) @@ s, Tail(addresses), a + WORD)

setup_arguments(lengths, junk) ==
  LET addresses == Addresses(lengths, StackTop)
      low == IF lengths = <<>> THEN StackTop ELSE addresses[Len(addresses)]
      offset == WORD - ((StackTop - low) % WORD)
      aligned == low - (IF offset < WORD THEN offset ELSE 0)
      argv == aligned - (AddressBytes(addresses, junk) + WORD)
      Written[k \in 0..Len(lengths)] ==
        IF k = 0 THEN [x \in {} |-> x] ELSE Written[k - 1] @@ StringBytes(k, addresses[k], lengths[k])
      placed == PutPointers(Written[Len(lengths)], addresses, argv)
  IN [stack |-> (argv - 2 * WORD :> <<"argc", Len(lengths)>>) @@ PointerBytes(argv, argv - WORD) @@ placed,
      esp |-> argv - 3 * WORD]

SetupStack(memory, junk) ==
  LET top == PHYS_BASE \div PGSIZE - 1
      made == setup_arguments(argument_lengths, junk)
  IN /\ load_state = "loading" /\ segment = NoSegment /\ at_phdr > Len(phdrs)
     /\ IF ~memory \/ top \in DOMAIN image THEN FailLoad /\ UNCHANGED pages
        ELSE /\ image' = image @@ (top :> [bytes |-> [i \in 0..(PGSIZE - 1) |-> 0], writable |-> TRUE])
             /\ pages' = pages + 1 /\ load_state' = "loaded"
             /\ stack' = made.stack /\ esp' = made.esp
             /\ UNCHANGED <<phdrs, at_phdr, segment, argument_lengths>>

LoadInit ==
  /\ phdrs \in Headers /\ at_phdr = 1 /\ segment = NoSegment
  /\ image = [p \in {} |-> 0] /\ pages = 0
  /\ argument_lengths \in CommandLines /\ stack = [x \in {} |-> 0] /\ esp = 0
  /\ load_state = "loading"

LoadNext ==
  \/ \E short \in BOOLEAN : ReadPhdr(short)
  \/ \E memory \in BOOLEAN, tables \in BOOLEAN : load_segment(memory, tables)
  \/ \E memory \in BOOLEAN, junk \in 0..MaxJunk : SetupStack(memory, junk)

-----------------------------------------------------------------------------
ByteAt(a) == image[a \div PGSIZE].bytes[a % PGSIZE]

(* A program that is loaded has each byte of each loadable segment at its  *)
(* address, read from the file or zero, writable when its segment is;      *)
(* page 0 and the kernel's pages are never mapped; and each page held is   *)
(* mapped, at every failure too.                                           *)
ImageExact ==
  /\ pages = Cardinality(DOMAIN image)
  /\ DOMAIN image \subseteq 1..(PHYS_BASE \div PGSIZE - 1)
  /\ load_state = "loaded" =>
       \A i \in DOMAIN phdrs : phdrs[i].p_type = "load" =>
         LET p == phdrs[i]
         IN \A a \in p.p_vaddr..(p.p_vaddr + p.p_memsz - 1) :
              /\ ByteAt(a) = (IF a - p.p_vaddr < p.p_filesz THEN p.p_offset + a - p.p_vaddr + 1 ELSE 0)
              /\ image[a \div PGSIZE].writable = p.writable

Pointer(a, p) == \A x \in a..(a + WORD - 1) : x \in DOMAIN stack /\ stack[x] = <<"pointer", p, x - a>>
ArgumentsWhole ==
  LET argc == Len(argument_lengths)
      addresses == Addresses(argument_lengths, StackTop)
      argv == esp + 3 * WORD
  IN /\ stack[esp + WORD] = <<"argc", argc>> /\ Pointer(esp + 2 * WORD, argv)
     /\ \A k \in 1..argc :
          /\ Pointer(argv + WORD * (k - 1), addresses[k])
          /\ \A x \in 0..argument_lengths[k] : stack[addresses[k] + x] = <<"char", k, x>>
     /\ \A x \in 0..(WORD - 1) : (argv + WORD * argc + x) \notin DOMAIN stack

(* The new program finds argc, argv, each argument whole and a null        *)
(* pointer after the last, unless an argument begins at an address whose   *)
(* low byte is zero.                                                       *)
ArgumentsPassed ==
  (load_state = "loaded" /\ \A k \in DOMAIN argument_lengths :
     Addresses(argument_lengths, StackTop)[k] % RADIX # 0) => ArgumentsWhole

(* The comment on the array of addresses in load: the addresses of the     *)
(* arguments are placed on the stack with a null pointer after them,       *)
(* whatever the arguments are.                                             *)
ArgumentsAlways == load_state = "loaded" => ArgumentsWhole
=============================================================================
