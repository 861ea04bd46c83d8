------------------------------ MODULE Archive ------------------------------
(***************************************************************************)
(* The ustar archives of lib/ustar.c, and the actions of filesys/fsutil.c  *)
(* that extract one from the scratch device into the file system, append   *)
(* files to one, and delete a file.  A sector is zeros, a header or data;  *)
(* a file name is a sequence of "/", "." , ".." and proper names; the file *)
(* system is what filesys_create, open, read, write and remove make of it. *)
(***************************************************************************)
EXTENDS Integers, Sequences, FiniteSets, SequencesExt, TLC

CONSTANTS
  ScratchSize,          \* sectors of the scratch device
  BLOCK_SECTOR_SIZE,
  OctalDigits,          \* digits of a size field
  INT_MAX, ULONG_MAX,
  NameRoom,             \* tokens a header's name has room for
  HostArchives,         \* what the host may have put on the scratch device
  HostFiles             \* files the file system may hold at the start

VARIABLES
  scratch,
  files,                \* the file system: a function from names
  extract_sector, append_sector,   \* the static variables of the two actions
  reading,              \* the file being extracted, or the phase
  expected,             \* the files the host's archive holds
  appended,             \* the files appended, in order
  ar_panic

archiveVars == <<scratch, files, extract_sector, append_sector, reading, expected, appended, ar_panic>>

Zeros == [kind |-> "zeros"]
NUL == -1

-----------------------------------------------------------------------------
(* A field of octal digits; snprintf's %0<n>o fills it.                    *)
OctalField(n) ==
  [i \in 1..OctalDigits |-> (n \div 8^(OctalDigits - i)) % 8] \o <<NUL>>

RECURSIVE ParseFrom(_, _, _)
ParseFrom(s, ofs, value) ==
  IF ofs > Len(s) THEN NUL
  ELSE IF s[ofs] \in 0..7
       THEN IF value > ULONG_MAX \div 8 THEN NUL ELSE ParseFrom(s, ofs + 1, s[ofs] + value * 8)
  ELSE IF s[ofs] = NUL /\ ofs > 1 THEN value ELSE NUL
parse_octal_field(s) == ParseFrom(s, 1, 0)

(* The sum of what the header holds, without the field of the sum itself.  *)
calculate_chksum(h) ==
  Len(h.name) + FoldLeft(LAMBDA sum, d : sum + d + 1, 0, h.size) + (IF h.typeflag = "regular" THEN 1 ELSE 2)

RECURSIVE strip_antisocial_prefixes(_)
strip_antisocial_prefixes(name) ==
  IF name # <<>> /\ name[1] = "/" THEN strip_antisocial_prefixes(Tail(name))
  ELSE IF Len(name) > 1 /\ name[1] \in {".", ".."} /\ name[2] = "/"
       THEN strip_antisocial_prefixes(SubSeq(name, 3, Len(name)))
  ELSE IF name = <<>> \/ name = <<"..">> THEN <<".">> ELSE name

HeaderFor(name, type, size) ==
  LET h == [kind |-> "header", name |-> name, size |-> OctalField(size), typeflag |-> type, magic |-> TRUE]
  IN h @@ [chksum |-> calculate_chksum(h)]
TooLong == [kind |-> "too long"]
ustar_make_header(file_name, type, size) ==
  LET name == strip_antisocial_prefixes(file_name)
  IN IF Len(name) > NameRoom THEN TooLong ELSE HeaderFor(name, type, size)

(* A data sector is no header: its magic does not match.                   *)
ustar_parse_trusting(h) ==
  IF h = Zeros THEN [type |-> "eof"]
  ELSE IF h.kind # "header" THEN [type |-> "error"]
  ELSE [type |-> h.typeflag, name |-> h.name, size |-> parse_octal_field(h.size)]
ustar_parse_header(h) ==
  LET size == parse_octal_field(h.size)
  IN IF h = Zeros THEN [type |-> "eof"]
     ELSE IF \/ h.kind # "header" \/ ~h.magic
             \/ h.chksum # calculate_chksum(h)
             \/ Len(h.name) > NameRoom
             \/ h.typeflag \notin {"regular", "directory"}
             \/ h.typeflag = "regular" /\ (size = NUL \/ size > INT_MAX)
          THEN [type |-> "error"]
     ELSE [type |-> h.typeflag, name |-> strip_antisocial_prefixes(h.name),
           size |-> IF h.typeflag = "regular" THEN size ELSE 0]

-----------------------------------------------------------------------------
Quiet == reading = [phase |-> "idle"] /\ ~ar_panic
Panics == ar_panic' = TRUE /\ UNCHANGED <<scratch, files, extract_sector, append_sector, reading, expected, appended>>
Sectors(n) == (n + BLOCK_SECTOR_SIZE - 1) \div BLOCK_SECTOR_SIZE

(* fsutil_extract: the loop reads a header; nothing was appended before it.*)
fsutil_extract ==
  /\ Quiet /\ extract_sector = 0 /\ append_sector = 0
  /\ reading' = [phase |-> "header"]
  /\ UNCHANGED <<scratch, files, extract_sector, append_sector, expected, appended, ar_panic>>

(* block_read panics past the end of the device; filesys_create fails when *)
(* the file exists, and may fail for want of space.                        *)
ReadHeader ==
  LET h == ustar_parse_header(scratch[extract_sector])
  IN /\ reading.phase = "header" /\ ~ar_panic
     /\ \/ (extract_sector >= ScratchSize \/ h.type = "error") /\ Panics
        \/ /\ extract_sector < ScratchSize /\ h.type # "error"
           /\ extract_sector' = extract_sector + 1
           /\ CASE h.type = "eof" -> reading' = [phase |-> "erase"] /\ UNCHANGED <<files, ar_panic>>
                [] h.type = "directory" -> UNCHANGED <<reading, files, ar_panic>>
                [] OTHER ->
                     IF h.name \in DOMAIN files
                     THEN ar_panic' = TRUE /\ UNCHANGED <<reading, files>>
                     ELSE /\ files' = files @@ (h.name :> [i \in 1..h.size |-> 0])
                          /\ reading' = IF h.size = 0 THEN [phase |-> "header"]
                                        ELSE [phase |-> "copy", name |-> h.name, size |-> h.size, pos |-> 0]
                          /\ UNCHANGED ar_panic
           /\ UNCHANGED <<scratch, append_sector, expected, appended>>

CopySector ==
  /\ reading.phase = "copy" /\ ~ar_panic
  /\ \/ extract_sector >= ScratchSize /\ Panics
     \/ /\ extract_sector < ScratchSize
        /\ LET chunk == IF reading.size > BLOCK_SECTOR_SIZE THEN BLOCK_SECTOR_SIZE ELSE reading.size
               data == scratch[extract_sector]
           IN /\ files' = [files EXCEPT ![reading.name] =
                             [i \in DOMAIN @ |-> IF i - reading.pos \in 1..chunk /\ data.kind = "data"
                                                 THEN data.bytes[i - reading.pos] ELSE @[i]]]
              /\ extract_sector' = extract_sector + 1
              /\ reading' = IF reading.size = chunk THEN [phase |-> "header"]
                            ELSE [reading EXCEPT !.size = @ - chunk, !.pos = @ + chunk]
        /\ UNCHANGED <<scratch, append_sector, expected, appended, ar_panic>>

EraseArchive ==
  /\ reading.phase = "erase" /\ ~ar_panic
  /\ scratch' = [scratch EXCEPT ![0] = Zeros, ![1] = Zeros]
  /\ reading' = [phase |-> "idle"]
  /\ UNCHANGED <<files, extract_sector, append_sector, expected, appended, ar_panic>>

(* fsutil_append.  The end marker is written to one sector twice, the      *)
(* second time from one byte further on: its last byte is whatever follows *)
(* the buffer.                                                             *)
DataSector(bytes, k) ==
  [kind |-> "data",
   bytes |-> [i \in 1..BLOCK_SECTOR_SIZE |->
                LET n == k * BLOCK_SECTOR_SIZE + i IN IF n <= Len(bytes) THEN bytes[n] ELSE 0]]
fsutil_append(name) ==
  LET bytes == files[name]
      h == ustar_make_header(name, "regular", Len(bytes))
      end == append_sector + 1 + Sectors(Len(bytes))
  IN /\ Quiet /\ name \in DOMAIN files
     /\ \/ h = TooLong /\ Panics
        \/ /\ h # TooLong
           /\ \E marker \in {Zeros, [kind |-> "junk"]} :
                scratch' = [s \in 0..(ScratchSize - 1) |->
                              IF s = append_sector THEN h
                              ELSE IF s \in append_sector + 1..(end - 1) THEN DataSector(bytes, s - append_sector - 1)
                              ELSE IF s = end THEN marker ELSE scratch[s]]
           /\ expected' = [n \in {} |-> <<>>]
           /\ IF end >= ScratchSize THEN ar_panic' = TRUE /\ UNCHANGED <<append_sector, appended>>
              ELSE /\ append_sector' = end /\ UNCHANGED ar_panic
                   /\ appended' = Append(appended, <<strip_antisocial_prefixes(name), bytes>>)
           /\ UNCHANGED <<files, extract_sector, reading>>

fsutil_rm(name) ==
  /\ Quiet
  /\ IF name \in DOMAIN files
     THEN /\ files' = [n \in DOMAIN files \ {name} |-> files[n]]
          /\ expected' = [n \in DOMAIN expected \ {name} |-> expected[n]]
          /\ UNCHANGED <<scratch, extract_sector, append_sector, reading, appended, ar_panic>>
     ELSE Panics

(* The kernel starts again on the same disks.                              *)
Restart ==
  /\ reading.phase = "idle" /\ appended = <<>>
  /\ extract_sector' = 0 /\ append_sector' = 0 /\ ar_panic' = FALSE
  /\ UNCHANGED <<scratch, files, reading, expected, appended>>

ArchiveInit ==
  /\ \E a \in HostArchives : scratch = a.sectors /\ expected = a.files
  /\ files \in HostFiles /\ extract_sector = 0 /\ append_sector = 0
  /\ reading = [phase |-> "idle"] /\ appended = <<>> /\ ar_panic = FALSE

ArchiveNext ==
  \/ fsutil_extract \/ ReadHeader \/ CopySector \/ EraseArchive \/ Restart
  \/ \E name \in DOMAIN files \cup DOMAIN expected : fsutil_append(name) \/ fsutil_rm(name)

-----------------------------------------------------------------------------
(* What a reader of the archive finds from sector s on, for n files.       *)
RECURSIVE Members(_, _)
Members(s, n) ==
  LET h == ustar_parse_header(scratch[s])
      cnt == Sectors(h.size)
      All == FlattenSeq([k \in 1..cnt |-> scratch[s + k].bytes])
  IN IF n = 0 THEN <<>> ELSE <<<<h.name, SubSeq(All, 1, h.size)>>>> \o Members(s + 1 + cnt, n - 1)

(* An extraction that reaches the end of an archive leaves each of its     *)
(* regular files in the file system byte for byte, under a name that does  *)
(* not climb out of the directory, and a second one after a restart        *)
(* changes nothing; an archive made by appends reads back as the files     *)
(* appended, in order, with their lengths.                                 *)
ArchiveExact ==
  /\ (Quiet /\ extract_sector > 0) => \A n \in DOMAIN expected : n \in DOMAIN files /\ files[n] = expected[n]
  /\ reading.phase = "copy" => reading.name[1] # "/" /\ (Len(reading.name) > 1 => reading.name[1] # "..")
  /\ Members(0, Len(appended)) = appended

(* fsutil_append's comment: the archive ends with two consecutive sectors  *)
(* full of zeros.                                                          *)
EndMarked ==
  (appended # <<>> /\ append_sector + 1 < ScratchSize) =>
     scratch[append_sector] = Zeros /\ scratch[append_sector + 1] = Zeros
=============================================================================
