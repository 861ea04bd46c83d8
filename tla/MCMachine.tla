----------------------------- MODULE MCMachine -----------------------------
(* The kernel between the hardware and the threads, side by side:           *)
(* interrupts, devices, memory, the clock and the advanced scheduler.  part *)
(* says which of them a behaviour is about; the others stay as they began.  *)
EXTENDS Interrupts, ByteQueues, Keyboard, Console, BlockDevices, Memory, PageTables, Rtc, Mlfqs, TLC

CONSTANTS w1, w2

VARIABLE part

TwoWorkers == {w1, w2}
OneWorker == {w1}
OtherWorker == {w2}
WorkerSymmetry == Permutations(TwoWorkers)

-----------------------------------------------------------------------------
(* Tabs, wrapping, scrolling and every control character.                   *)
SomeTexts == {<<"a", "tab">>, <<"b", "newline">>, <<"backspace", "formfeed", "return">>}

(* A disk alone, or with a CD drive as slave; a file system partition, a    *)
(* partition that reaches past the end and an empty entry.                  *)
Entry(type, offset, size) == [type |-> type, offset |-> offset, size |-> size]
SomeTables == {<<Entry(33, 1, 1), Entry(131, 1, 2), Entry(35, 0, 0)>>}
SomeSignatures ==
  {[error |-> "ok", ready |-> TRUE, lba |-> "ata"], [error |-> "ok, no slave", ready |-> TRUE, lba |-> "atapi"]}

(* A calendar of three short months.                                        *)
ShortMonths == <<2, 1, 2>>

SomeNices == {-1, 1}

-----------------------------------------------------------------------------
MachineInit ==
  /\ part \in {"interrupts", "bytes", "keyboard", "console", "disks", "memory", "pages", "clock", "mlfqs"}
  /\ IntrInit /\ (part # "interrupts" => job = "first")
  /\ QueueInit /\ KbdInit /\ ConsoleInit
  /\ BlockInit /\ (part # "disks" => \A d \in Devs : hw[d].lba = "ata" /\ hw[d].capacity = 2)
  /\ MemoryInit /\ PageInit
  /\ RtcInit /\ (part # "clock" => clock.sec + clock.min = 0 /\ clock.mday + clock.mon = 2)
  /\ MlfqsInit

Still(p, vars) == IF part = p THEN TRUE ELSE UNCHANGED vars
MachineNext ==
  /\ CASE part = "interrupts" -> IntrNext [] part = "bytes" -> QueueNext [] part = "keyboard" -> KbdNext
       [] part = "console" -> ConsoleNext [] part = "disks" -> BlockNext [] part = "memory" -> MemoryNext
       [] part = "pages" -> PageNext [] part = "clock" -> RtcNext [] part = "mlfqs" -> MlfqsNext
  /\ Still("interrupts", intrVars) /\ Still("bytes", queueVars) /\ Still("keyboard", kbdVars)
  /\ Still("console", consoleVars) /\ Still("disks", blockVars) /\ Still("memory", memoryVars)
  /\ Still("pages", pageVars) /\ Still("clock", rtcVars) /\ Still("mlfqs", mlfqsVars)
  /\ UNCHANGED part

machineVars ==
  <<part, intrVars, queueVars, kbdVars, consoleVars, blockVars, memoryVars, pageVars, rtcVars, mlfqsVars>>
MachineSpec == MachineInit /\ [][MachineNext]_machineVars

-----------------------------------------------------------------------------
(* What goes in and out one byte at a time: bytes leave the serial line and *)
(* reach readers once and in order, keys mean what the keys that are down   *)
(* say, and a thread's console output is not torn (devices/serial.c,        *)
(* input.c, intq.c, kbd.c, vga.c, lib/kernel/console.c).                    *)
InputAndOutput ==
  /\ part = "bytes" => BytesInOrder
  /\ part = "keyboard" => KeysFollowed
  /\ part = "console" => ConsoleSerial

(* No page, block or frame has two owners, however allocations interleave,  *)
(* and no translation outlives the page table entry it was made from        *)
(* (threads/palloc.c, malloc.c, userprog/pagedir.c).                        *)
MemorySound ==
  /\ part = "memory" => MemoryOwned
  /\ part = "pages" => TranslationsTrue

(* The time of day is that of one instant, and the advanced scheduler's     *)
(* figures are those of the threads that ran (devices/rtc.c,                *)
(* threads/thread.c, fixed-point.h).                                        *)
TimeAccounted ==
  /\ part = "clock" => TimeOfAnInstant
  /\ part = "mlfqs" => MlfqsExact
=============================================================================
