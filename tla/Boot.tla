-------------------------------- MODULE Boot -------------------------------
(***************************************************************************)
(* The start of the kernel in threads/init.c: main's steps in order, the   *)
(* words of the command line, the options before the actions, the block    *)
(* devices cast in their roles, the actions, and devices/shutdown.c.  A    *)
(* word is a name, the value after its "=" if any, and its length.         *)
(***************************************************************************)
EXTENDS Integers, Sequences, FiniteSets, SequencesExt, FiniteSetsExt

CONSTANTS
  CommandLine,       \* the sequences of words the loader may pass
  LOADER_ARGS_LEN,
  Devices,           \* the sequences of [name, type] that may be registered
  NoName             \* a null pointer for a name or a value

VARIABLES
  step,              \* how many of main's steps are done
  ready,             \* the subsystems that are initialised
  words,             \* the command line not consumed yet
  options,           \* what parse_options stored
  devices, role,     \* block devices in probe order, and block_by_role
  ran,               \* the actions invoked, with their arguments
  outcome,           \* "up", "panic", "off", "reboot" or "idle"
  flushed            \* filesys_done has run since the last action

bootVars == <<step, ready, words, options, devices, role, ran, outcome, flushed>>

(* main, and what the functions it calls use of the ones before.           *)
Steps ==
  <<"bss_init", "read_command_line", "parse_options", "thread_init", "console_init",
    "palloc_init", "malloc_init", "paging_init", "tss_init", "gdt_init",
    "intr_init", "timer_init", "kbd_init", "pci_init", "input_init", "exception_init", "syscall_init",
    "thread_start", "serial_init_queue", "timer_calibrate", "usb_init", "usb_storage_init", "ide_init",
    "locate_block_devices", "cache_init", "filesys_init", "cur_dir", "run_actions", "shutdown">>
Needs(s) ==
  CASE s \in {"malloc_init", "paging_init", "tss_init"} -> {"palloc_init"}
    [] s = "palloc_init" -> {"parse_options"}          \* user_page_limit
    [] s = "console_init" -> {"thread_init"}           \* locks have holders
    [] s = "gdt_init" -> {"tss_init"}
    [] s \in {"timer_init", "kbd_init", "exception_init", "syscall_init"} -> {"intr_init"}
    [] s = "pci_init" -> {"malloc_init", "paging_init", "intr_init"}
    [] s = "thread_start" -> {"thread_init", "palloc_init", "intr_init", "timer_init", "gdt_init"}
    [] s = "serial_init_queue" -> {"intr_init", "input_init"}
    [] s = "timer_calibrate" -> {"timer_init", "thread_start"}
    [] s \in {"usb_init", "ide_init"} -> {"malloc_init", "thread_start", "timer_calibrate", "pci_init"}
    [] s = "locate_block_devices" -> {"ide_init", "usb_storage_init", "parse_options"}
    [] s = "cache_init" -> {"malloc_init", "thread_start"}
    [] s = "filesys_init" -> {"locate_block_devices", "cache_init"}
    [] s = "run_actions" -> {"filesys_init", "syscall_init", "cur_dir"}
    [] OTHER -> {}

NoOptions == [how |-> "none", format |-> FALSE, filesys |-> NoName, scratch |-> NoName,
              mlfqs |-> FALSE, limit |-> NoName, seed |-> NoName]
Panic == outcome' = "panic"

-----------------------------------------------------------------------------
(* The words' bytes lie one after the other, each with its null byte.      *)
WordStart(w, i) == FoldLeft(LAMBDA sum, x : sum + x.len + 1, 0, SubSeq(w, 1, i - 1))
read_command_line ==
  IF \E i \in DOMAIN words : WordStart(words, i) >= LOADER_ARGS_LEN THEN Panic ELSE UNCHANGED outcome

IsOption(w) == w.name \in {"-h", "-q", "-r", "-f", "-filesys", "-scratch", "-rs", "-mlfqs", "-ul", "-x"}
OptionCount(w) == Cardinality({i \in DOMAIN w : \A j \in 1..i : IsOption(w[j])})
StoreOption(o, w) ==
  CASE w.name = "-q" -> [o EXCEPT !.how = "off"]
    [] w.name = "-r" -> [o EXCEPT !.how = "reboot"]
    [] w.name = "-f" -> [o EXCEPT !.format = TRUE]
    [] w.name = "-filesys" -> [o EXCEPT !.filesys = w.value]
    [] w.name = "-scratch" -> [o EXCEPT !.scratch = w.value]
    [] w.name = "-rs" -> [o EXCEPT !.seed = w.value]
    [] w.name = "-mlfqs" -> [o EXCEPT !.mlfqs = TRUE]
    [] w.name = "-ul" -> [o EXCEPT !.limit = w.value]
    [] OTHER -> o

(* atoi asserts that its string is not null.  usage powers off through     *)
(* filesys_done, whose cache_flush takes a lock; thread_init has not run   *)
(* yet, so that lock_acquire's thread_current panics.  The seed ends as    *)
(* the clock's time whatever -rs said: random_init always reinitialises.   *)
parse_options ==
  LET n == OptionCount(words)
      given == SubSeq(words, 1, n)
      bad(w) == w.name \in {"-x", "-h"} \/ (w.name \in {"-rs", "-ul"} /\ w.value = NoName)
  IN IF \E i \in 1..n : bad(given[i])
     THEN Panic /\ UNCHANGED <<words, options>>
     ELSE /\ options' = [FoldLeft(StoreOption, NoOptions, given) EXCEPT !.seed = "time"]
          /\ words' = SubSeq(words, n + 1, Len(words))
          /\ UNCHANGED outcome

(* A device for a role: the one named, or the first of its type.           *)
locate_block_device(r, name) ==
  LET fit == {i \in DOMAIN devices : IF name # NoName THEN devices[i].name = name ELSE devices[i].type = r}
  IN IF fit = {} THEN NoName ELSE devices[Min(fit)].name
Missing(name) == name # NoName /\ \A i \in DOMAIN devices : devices[i].name # name
locate_block_devices ==
  IF Missing(options.filesys) \/ Missing(options.scratch)
  THEN Panic /\ UNCHANGED role
  ELSE /\ role' = [filesys |-> locate_block_device("filesys", options.filesys),
                   scratch |-> locate_block_device("scratch", options.scratch)]
       /\ UNCHANGED outcome

(* filesys_init panics without a file system device.                       *)
filesys_init == IF role.filesys = NoName THEN Panic ELSE UNCHANGED outcome

argc(name) == CASE name \in {"run", "cat", "rm", "append"} -> 2 [] name \in {"ls", "extract"} -> 1 [] OTHER -> 0

(* One turn of run_actions' loop.                                          *)
RunAction ==
  LET n == argc(words[1].name)
  IN /\ words # <<>>
     /\ IF n = 0 \/ n > Len(words) THEN Panic /\ UNCHANGED <<words, ran, flushed>>
        ELSE /\ ran' = Append(ran, [i \in 1..n |-> words[i].name])
             /\ words' = SubSeq(words, n + 1, Len(words)) /\ flushed' = FALSE
             /\ UNCHANGED outcome

(* shutdown_power_off flushes the file system; shutdown_reboot does not.   *)
shutdown ==
  /\ outcome' = IF options.how = "none" THEN "idle" ELSE options.how
  /\ flushed' = (flushed \/ options.how = "off")

-----------------------------------------------------------------------------
Done(s) == step' = step + 1 /\ ready' = ready \cup {s}
Main ==
  LET s == Steps[step + 1]
  IN /\ outcome = "up" /\ step < Len(Steps)
     /\ CASE s = "read_command_line" ->
               read_command_line /\ Done(s) /\ UNCHANGED <<words, options, role, ran, flushed>>
          [] s = "parse_options" -> parse_options /\ Done(s) /\ UNCHANGED <<role, ran, flushed>>
          [] s = "locate_block_devices" ->
               locate_block_devices /\ Done(s) /\ UNCHANGED <<words, options, ran, flushed>>
          [] s = "filesys_init" -> filesys_init /\ Done(s) /\ UNCHANGED <<words, options, role, ran, flushed>>
          [] s = "run_actions" ->
               \/ RunAction /\ UNCHANGED <<step, ready, options, role>>
               \/ words = <<>> /\ Done(s) /\ UNCHANGED <<words, options, role, ran, outcome, flushed>>
          [] s = "shutdown" -> shutdown /\ Done(s) /\ UNCHANGED <<words, options, role, ran>>
          [] OTHER -> Done(s) /\ UNCHANGED <<words, options, role, ran, outcome, flushed>>
     /\ UNCHANGED devices

BootInit ==
  /\ step = 0 /\ ready = {} /\ words \in CommandLine /\ options = NoOptions
  /\ devices \in Devices /\ role = [filesys |-> NoName, scratch |-> NoName]
  /\ ran = <<>> /\ outcome = "up" /\ flushed = TRUE
BootNext == Main

-----------------------------------------------------------------------------
(* No step runs before what it uses is initialised; actions run only on a  *)
(* file system with a device of that type or of the given name, each with  *)
(* the arguments it requires; and a machine that powers off has its file   *)
(* system flushed after the last action.                                   *)
BootsInOrder ==
  /\ (outcome = "up" /\ step < Len(Steps)) => Needs(Steps[step + 1]) \subseteq ready
  /\ ran # <<>> => \E i \in DOMAIN devices :
       /\ devices[i].name = role.filesys
       /\ IF options.filesys # NoName THEN devices[i].name = options.filesys
          ELSE devices[i].type = "filesys" /\ \A j \in 1..(i - 1) : devices[j].type # "filesys"
  /\ \A i \in DOMAIN ran : Len(ran[i]) = argc(ran[i][1])
  /\ outcome = "off" => flushed
  /\ outcome \in {"off", "idle", "reboot"} /\ ran # <<>> => words = <<>>
=============================================================================
