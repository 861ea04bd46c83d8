---------------------------- MODULE MCSequential ----------------------------
(* Code that runs to completion in one thread, side by side: the library    *)
(* and the start of the kernel and of a program.  part says which of them a *)
(* behaviour is about, and the others stay as they began.                   *)
EXTENDS KernelList, HashTable, Bitmap, StringLib, StdLib, Arithmetic, Stdio, Archive, ElfLoad, Boot

VARIABLE part

-----------------------------------------------------------------------------
(* Lists of equal and of different elements.                                *)
ByTens == [e \in Elem |-> e \div 10]

(* Formats: every flag, both signs, the edges of the types.                 *)
SmallTypes == [CHAR |-> 4, SHORT |-> 8, INT |-> 13]
SomeFlags == {{}, {"0", "+"}, {" ", "'"}, {"#", "0"}, {"#", "-", "0"}, {"'", "+"}}
SomeWidths == {0, 6, -7}
SomePrecisions == {-1, 0, 3}
SomeArguments == {0, 1234, -1, -4096}
SomeStrings == {<<>>, <<"a", "b">>, <<"a", "b", "c", "d", "e">>}

(* Archives the host may have left: a good one, one with a wrong checksum,  *)
(* one with a digit that is not octal, one with a type not understood, one  *)
(* cut short.                                                               *)
Header(name, type, size) == [HeaderFor(name, type, size) EXCEPT !.kind = "header"]
Data(bytes) == [kind |-> "data", bytes |-> bytes]
OnScratch(s) == [i \in 0..(ScratchSize - 1) |-> IF i < Len(s) THEN s[i + 1] ELSE Data(<<7, 7>>)]
SomeArchives ==
  LET a == <<"a">>
  IN {[sectors |-> OnScratch(<<Header(<<"..", "/", "/", "a">>, "regular", 3), Data(<<1, 2>>), Data(<<3, 0>>),
                               Header(<<"d">>, "directory", 0),
                               Header(<<"b">>, "regular", 2), Data(<<4, 5>>), Zeros, Zeros>>),
       files |-> (a :> <<1, 2, 3>>) @@ (<<"b">> :> <<4, 5>>)],
      [sectors |-> OnScratch(<<[Header(a, "regular", 1) EXCEPT !.chksum = @ + 1], Data(<<1, 2>>), Zeros, Zeros>>),
       files |-> (a :> <<1>>)],
      [sectors |-> OnScratch(<<[Header(a, "regular", 1) EXCEPT !.size = <<3, 9, NUL>>], Data(<<1, 2>>), Zeros>>),
       files |-> (a :> <<1>>)],
      [sectors |-> OnScratch(<<Header(a, "regular", 0), Header(a, "link", 0), Zeros>>),
       files |-> (a :> <<>>)],
      [sectors |-> OnScratch(<<Header(a, "regular", 17)>>), files |-> (a :> <<>>)]}
SomeFiles ==
  {<<>>, <<"b">> :> <<9>>, <<"c">> :> <<6, 6, 6, 6>>,
   (<<"c">> :> <<6>>) @@ (<<"..", "/", "e">> :> <<7, 8, 9>>) @@ (<<"a", "/", "b", "/", "e">> :> <<7, 8, 9>>)}

(* Program headers, two to a program: segments that fit and segments that   *)
(* validate_segment must refuse.                                            *)
Phdr(type, offset, vaddr, filesz, memsz, w) ==
  [p_type |-> type, p_offset |-> offset, p_vaddr |-> vaddr, p_filesz |-> filesz, p_memsz |-> memsz, writable |-> w]
Loadable ==
  {Phdr("load", 1, 5, 3, 3, FALSE), Phdr("load", 5, 9, 2, 5, TRUE), Phdr("load", 0, 4, 0, 3, TRUE),
   Phdr("load", 1, 5, 7, 10, TRUE), Phdr("note", 0, 0, 0, 0, FALSE)}
Refused ==
  {Phdr("load", 4, 0, 1, 1, TRUE), Phdr("load", 3, 15, 1, 18, TRUE), Phdr("load", 2, 9, 1, 1, TRUE),
   Phdr("load", 6, 6, 4, 4, TRUE), Phdr("interp", 0, 0, 0, 0, FALSE)}
SomeHeaders == {<<a, b>> : a \in Loadable, b \in Loadable \cup Refused}
SomeCommandLines == {<<2>>, <<1, 2>>, <<3, 1, 1>>, <<2, 4, 3>>, <<2, 5, 3, 2>>}

(* Kernel command lines, and the devices found.                             *)
Word(name, value, len) == [name |-> name, value |-> value, len |-> len]
Plainly(name, len) == Word(name, NoName, len)
OptionWords ==
  {<<>>, <<Plainly("-q", 2)>>, <<Plainly("-f", 2), Plainly("-r", 2)>>,
   <<Word("-filesys", "hda2", 13), Word("-ul", "7", 5)>>, <<Word("-scratch", "hdx", 12)>>,
   <<Plainly("-rs", 3)>>, <<Plainly("-h", 2)>>, <<Plainly("-x", 2)>>,
   <<Word("-rs", "3", 5), Plainly("-mlfqs", 6), Plainly("-q", 2)>>}
ActionWords ==
  {<<>>, <<Plainly("ls", 2)>>, <<Plainly("run", 3), Plainly("prog", 4), Plainly("cat", 3), Plainly("f", 20)>>,
   <<Plainly("extract", 7), Plainly("rm", 2)>>, <<Plainly("-q", 2)>>,
   <<Plainly("append", 6), Plainly("f", 40), Plainly("ls", 2)>>}
KernelLines == {o \o a : o \in OptionWords, a \in ActionWords}
Device(name, type) == [name |-> name, type |-> type]
SomeDevices ==
  {<<>>, <<Device("hda1", "scratch"), Device("hda2", "filesys")>>,
   <<Device("hda1", "filesys"), Device("hda2", "filesys")>>}

-----------------------------------------------------------------------------
(* The parts that may begin in several states begin in one of them where    *)
(* they are not the part the behaviour is about.                            *)
SequentialInit ==
  /\ part \in {"list", "hash", "bitmap", "string", "stdlib", "arithmetic", "stdio", "archive", "load", "boot"}
  /\ ListInit /\ HashInit /\ BitmapInit
  /\ StringInit /\ (part # "string" => \A a \in Addr : mem[a] = 0)
  /\ StdlibInit /\ (part # "stdlib" => array = <<>>)
  /\ ArithInit /\ (part # "arithmetic" => acc = 0)
  /\ StdioInit /\ (part # "stdio" => buf_size = 0)
  /\ ArchiveInit /\ (part # "archive" => files = <<>> /\ scratch[1].kind = "header")
  /\ LoadInit /\ (part # "load" => phdrs = CHOOSE h \in Headers : TRUE) /\ (part # "load" => argument_lengths = <<2>>)
  /\ BootInit /\ (part # "boot" => words = <<>> /\ devices = <<>>)

Still(p, vars) == IF part = p THEN TRUE ELSE UNCHANGED vars
SequentialNext ==
  /\ CASE part = "list" -> ListNext [] part = "hash" -> HashNext [] part = "bitmap" -> BitmapNext
       [] part = "string" -> StringNext [] part = "stdlib" -> StdlibNext [] part = "arithmetic" -> ArithNext
       [] part = "stdio" -> StdioNext [] part = "archive" -> ArchiveNext
       [] part = "load" -> LoadNext [] part = "boot" -> BootNext
  /\ Still("list", listVars) /\ Still("hash", hashVars) /\ Still("bitmap", bitmapVars)
  /\ Still("string", stringVars) /\ Still("stdlib", stdlibVars) /\ Still("arithmetic", arithVars)
  /\ Still("stdio", stdioVars) /\ Still("archive", archiveVars)
  /\ Still("load", loadVars) /\ Still("boot", bootVars)
  /\ UNCHANGED part

sequentialVars ==
  <<part, listVars, hashVars, bitmapVars, stringVars, stdlibVars, arithVars, stdioVars, archiveVars, loadVars, bootVars>>
SequentialSpec == SequentialInit /\ [][SequentialNext]_sequentialVars

-----------------------------------------------------------------------------
(* The containers hold what the calls put into them: a list whose links     *)
(* agree both ways, a hash table that finds each element in its bucket      *)
(* while it grows and shrinks, a bitmap whose words and scans agree with    *)
(* the set of its bits (lib/kernel/list.c, hash.c, bitmap.c).               *)
ContainersExact ==
  /\ part = "list" => ListsExact
  /\ part = "hash" => HashExact
  /\ part = "bitmap" => BitmapExact

(* Strings, numbers and their texts: each routine of lib/string.c,          *)
(* lib/stdlib.c, lib/arithmetic.c and lib/stdio.c computes its definition   *)
(* for every bounded input, overlap, overflow and truncation included.      *)
ComputesExactly ==
  /\ part = "string" => StringsExact
  /\ part = "stdlib" => SortsAndFinds /\ ReadsBack
  /\ part = "arithmetic" => DivisionExact
  /\ part = "stdio" => FormatsExact

(* Starting up: main's steps find what they use, an archive gives the files *)
(* it was made from, and a program is loaded as its headers say with the    *)
(* arguments of its command line (threads/init.c, filesys/fsutil.c,         *)
(* userprog/process.c).                                                     *)
StartsRight ==
  /\ part = "boot" => BootsInOrder
  /\ part = "archive" => ArchiveExact
  /\ part = "load" => ImageExact /\ ArgumentsPassed
=============================================================================
