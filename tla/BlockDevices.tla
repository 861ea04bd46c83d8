---------------------------- MODULE BlockDevices ---------------------------
(***************************************************************************)
(* Block devices: one ATA channel of devices/ide.c with its two devices,   *)
(* the partitions that devices/partition.c finds on them, and the layer    *)
(* of devices/block.c that threads read and write through.  The disks and  *)
(* their registers are modelled from how the driver uses them.             *)
(***************************************************************************)
EXTENDS Integers, Sequences, FiniteSets

CONSTANTS
  Disker,      \* the threads
  Signature,   \* what a device's registers may say after the reset
  Capacity,    \* the sizes disks may have, in sectors
  TooBig,      \* the size from which a disk is ignored (1 GB in the code)
  Tables,      \* the partition tables disks may have: sequences of entries
  Datum,       \* the contents of a sector; Formatted at first
  Formatted,
  NoDisker

ASSUME BlockConstants == Formatted \in Datum /\ TooBig \in Nat

VARIABLES
  hw,          \* the two devices: signature, capacity and partition table
  media,       \* what is on their sectors
  is_ata, all_blocks,
  channel,     \* lock, expecting_interrupt, completion_wait
  controller,  \* selected device and sector, busy, drq, the command, the line
  caller,      \* what each thread does
  scan,        \* the device that ide_init works on
  panic

blockVars == <<hw, media, is_ata, all_blocks, channel, controller, caller, scan, panic>>

Devs == {0, 1}
NoCall == [op |-> "none"]
Sectors == 0..TooBig-1

-----------------------------------------------------------------------------
(* The controller.  A disk works on its command while busy is set, then    *)
(* raises the interrupt; a write first asks for the data.                  *)
select_sector(d, s) == controller' = [controller EXCEPT !.dev = d, !.sector = s, !.irq = FALSE]
issue_pio_command(cmd) ==
  /\ controller' = [controller EXCEPT !.cmd = cmd, !.busy = (cmd # "write"), !.drq = (cmd = "write")]
  /\ channel' = [channel EXCEPT !.expecting_interrupt = TRUE]

DiskDone(drq) ==
  /\ controller.busy
  /\ controller' = [controller EXCEPT !.busy = FALSE, !.drq = drq /\ controller.cmd # "write", !.irq = TRUE]
  /\ media' = IF controller.cmd = "write"
              THEN [media EXCEPT ![controller.dev][controller.sector] = controller.data] ELSE media
  /\ UNCHANGED <<hw, is_ata, all_blocks, channel, caller, scan, panic>>

(* interrupt_handler: an expected interrupt is acknowledged and ups the    *)
(* semaphore; nothing makes the next one unexpected.                       *)
interrupt_handler ==
  /\ controller.irq /\ ~panic
  /\ IF channel.expecting_interrupt
     THEN channel' = [channel EXCEPT !.completion_wait = @ + 1] ELSE UNCHANGED channel
  /\ controller' = [controller EXCEPT !.irq = FALSE]
  /\ UNCHANGED <<hw, media, is_ata, all_blocks, caller, scan, panic>>

(* The reset may interrupt, before reset_channel has slept 150 ms.         *)
Unexpected ==
  /\ scan = [dev |-> 0, at |-> "type"] /\ ~controller.irq
  /\ controller' = [controller EXCEPT !.irq = TRUE]
  /\ UNCHANGED <<hw, media, is_ata, all_blocks, channel, caller, scan, panic>>

-----------------------------------------------------------------------------
(* check_device_type: does the device answer as an ATA disk, and, for the  *)
(* first, may there be a second?                                           *)
Answers(d) == /\ hw[d].error = "ok" \/ (hw[d].error = "ok, no slave" /\ d = 0)
              /\ hw[d].ready
check_device_type(d) == Answers(d) /\ hw[d].lba \in {"ata", "sata"}
MayHaveSlave == Answers(0) \/ hw[0].error # "ok, no slave"

(* ide_init, one device: reset and type, the identify command, its answer. *)
ide_init ==
  /\ scan.at = "type" /\ scan.dev \in Devs /\ ~controller.irq
  /\ LET ata == check_device_type(scan.dev) /\ (scan.dev = 1 => MayHaveSlave)
     IN /\ is_ata' = [is_ata EXCEPT ![scan.dev] = ata]
        /\ IF ata THEN /\ select_sector(scan.dev, 0)
                       /\ scan' = [scan EXCEPT !.at = "issue"]
           ELSE scan' = [scan EXCEPT !.dev = @ + 1] /\ UNCHANGED controller
  /\ UNCHANGED <<hw, media, all_blocks, channel, caller, panic>>

IdentifyIssue ==
  /\ scan.at = "issue" /\ scan' = [scan EXCEPT !.at = "identify"]
  /\ issue_pio_command("identify")
  /\ UNCHANGED <<hw, media, is_ata, all_blocks, caller, panic>>

(* found_partition: start and size in sectors of the device; the sum wraps *)
(* at 2^32, which sizes here never reach.                                  *)
BlockType(t) == CASE t = 32 -> "kernel" [] t = 33 -> "filesys" [] t = 34 -> "scratch" [] t = 35 -> "swap"
             [] OTHER -> "foreign"
found_unchecked(d, e) == {[dev |-> d, start |-> e.offset, size |-> e.size, type |-> BlockType(e.type)]}
found_partition(d, e) ==
  IF e.offset >= hw[d].capacity \/ e.offset + e.size > hw[d].capacity THEN {}
  ELSE {[dev |-> d, start |-> e.offset, size |-> e.size, type |-> BlockType(e.type)]}

(* read_partition_table on a table without extended partitions.            *)
read_partition_table(d) ==
  UNION {found_partition(d, hw[d].table[i]) :
           i \in {j \in 1..Len(hw[d].table) : hw[d].table[j].size # 0 /\ hw[d].table[j].type # 0}}

(* identify_ata_device goes on: a disk that gives no data or is too big is *)
(* none; another is registered, with its partitions.                       *)
identify_ata_device ==
  /\ scan.at = "identify" /\ channel.completion_wait > 0 /\ ~controller.busy
  /\ channel' = [channel EXCEPT !.completion_wait = @ - 1]
  /\ LET ok == controller.drq /\ hw[scan.dev].capacity < TooBig
     IN /\ is_ata' = [is_ata EXCEPT ![scan.dev] = ok]
        /\ all_blocks' = IF ~ok THEN all_blocks
                         ELSE all_blocks
                              \cup {[dev |-> scan.dev, start |-> 0, size |-> hw[scan.dev].capacity, type |-> "raw"]}
                              \cup read_partition_table(scan.dev)
  /\ controller' = [controller EXCEPT !.drq = FALSE]
  /\ scan' = [dev |-> scan.dev + 1, at |-> "type"]
  /\ UNCHANGED <<hw, media, caller, panic>>

-----------------------------------------------------------------------------
(* block_read, block_write: the sector is checked, a partition's one moved *)
(* to its place and checked again, and the driver's function called.       *)
check_sector(b, s) == s < b.size
block_access(t, op, b, s, v) ==
  /\ scan.dev = 2 /\ caller[t] = NoCall /\ ~panic
  /\ op = "write" => b.type # "foreign"
  /\ check_sector(b, s)
  /\ IF ~check_sector([size |-> hw[b.dev].capacity], b.start + s)
     THEN panic' = TRUE /\ UNCHANGED caller
     ELSE /\ caller' = [caller EXCEPT ![t] = [op |-> op, dev |-> b.dev, sector |-> b.start + s, data |-> v,
                                              at |-> "lock"]]
          /\ UNCHANGED panic
  /\ UNCHANGED <<hw, media, is_ata, all_blocks, channel, controller, scan>>

BlkNow(t, at) == caller[t].op # "none" /\ caller[t].at = at /\ ~panic
BlkGoes(t, at) == caller' = [caller EXCEPT ![t].at = at]

(* ide_read and ide_write: the channel's lock, the device and sector, the  *)
(* command.                                                                *)
ChannelLock(t) ==
  /\ BlkNow(t, "lock") /\ channel.lock = NoDisker
  /\ channel' = [channel EXCEPT !.lock = t]
  /\ BlkGoes(t, "select")
  /\ UNCHANGED <<hw, media, is_ata, all_blocks, controller, scan, panic>>

SelectSector(t) ==
  /\ BlkNow(t, "select") /\ ~controller.busy /\ ~controller.drq
  /\ select_sector(caller[t].dev, caller[t].sector)
  /\ BlkGoes(t, "issue")
  /\ UNCHANGED <<hw, media, is_ata, all_blocks, channel, scan, panic>>

IssueCommand(t) ==
  /\ BlkNow(t, "issue")
  /\ issue_pio_command(caller[t].op)
  /\ BlkGoes(t, IF caller[t].op = "read" THEN "wait" ELSE "data")
  /\ UNCHANGED <<hw, media, is_ata, all_blocks, scan, panic>>

(* A write gives its data when the disk asks, then waits for the disk.     *)
output_sector(t) ==
  /\ BlkNow(t, "data") /\ ~controller.busy
  /\ IF controller.drq
     THEN /\ controller' = [controller EXCEPT !.data = caller[t].data, !.busy = TRUE, !.drq = FALSE]
          /\ BlkGoes(t, "wait") /\ UNCHANGED panic
     ELSE panic' = TRUE /\ UNCHANGED <<controller, caller>>
  /\ UNCHANGED <<hw, media, is_ata, all_blocks, channel, scan>>

(* sema_down, and what follows it up to the release of the lock.           *)
Completed(t) ==
  /\ BlkNow(t, "wait") /\ channel.completion_wait > 0
  /\ channel' = [channel EXCEPT !.completion_wait = @ - 1]
  /\ BlkGoes(t, IF caller[t].op = "read" THEN "input" ELSE "unlock")
  /\ UNCHANGED <<hw, media, is_ata, all_blocks, controller, scan, panic>>

input_sector(t) ==
  /\ BlkNow(t, "input") /\ ~controller.busy
  /\ IF controller.drq
     THEN /\ controller' = [controller EXCEPT !.drq = FALSE]
          /\ caller' = [caller EXCEPT ![t].data = media[controller.dev][controller.sector], ![t].at = "unlock"]
          /\ UNCHANGED panic
     ELSE panic' = TRUE /\ UNCHANGED <<controller, caller>>
  /\ UNCHANGED <<hw, media, is_ata, all_blocks, channel, scan>>

ChannelUnlock(t) ==
  /\ BlkNow(t, "unlock")
  /\ channel' = [channel EXCEPT !.lock = NoDisker]
  /\ caller' = [caller EXCEPT ![t] = NoCall]
  /\ UNCHANGED <<hw, media, is_ata, all_blocks, controller, scan, panic>>

BlockInit ==
  /\ hw \in [Devs -> {[error |-> s.error, ready |-> s.ready, lba |-> s.lba, capacity |-> c, table |-> tb] :
                        s \in Signature, c \in Capacity, tb \in Tables}]
  /\ media = [d \in Devs |-> [s \in Sectors |-> Formatted]]
  /\ is_ata = [d \in Devs |-> FALSE] /\ all_blocks = {}
  /\ channel = [lock |-> NoDisker, expecting_interrupt |-> FALSE, completion_wait |-> 0]
  /\ controller = [dev |-> 0, sector |-> 0, cmd |-> "none", busy |-> FALSE, drq |-> FALSE, irq |-> FALSE,
                   data |-> Formatted]
  /\ caller = [t \in Disker |-> NoCall]
  /\ scan = [dev |-> 0, at |-> "type"] /\ panic = FALSE

BlockNext ==
  \/ \E drq \in BOOLEAN : DiskDone(drq)
  \/ interrupt_handler \/ Unexpected \/ ide_init \/ IdentifyIssue \/ identify_ata_device
  \/ \E t \in Disker :
       \/ \E b \in all_blocks, s \in Sectors :
            \/ block_access(t, "read", b, s, Formatted)
            \/ \E v \in Datum : block_access(t, "write", b, s, v)
       \/ ChannelLock(t) \/ SelectSector(t) \/ IssueCommand(t) \/ output_sector(t)
       \/ Completed(t) \/ input_sector(t) \/ ChannelUnlock(t)

BlockSpec == BlockInit /\ [][BlockNext]_blockVars

-----------------------------------------------------------------------------
(* Two threads never mix their commands on the channel: when nobody holds  *)
(* its lock the disk rests and no completion is left over for the next     *)
(* command; a read that returns has the sector it asked for, as the disk   *)
(* holds it, and a write that returns is on the disk.  No block reaches    *)
(* past its device.                                                        *)
BlocksIntact ==
  /\ \A b \in all_blocks : is_ata[b.dev] /\ b.start + b.size <= hw[b.dev].capacity
  /\ scan.dev = 2 /\ channel.lock = NoDisker /\ ~panic =>
       channel.completion_wait = 0 /\ ~controller.busy /\ ~controller.drq /\ ~controller.irq
  /\ \A t \in Disker :
       caller[t].op # "none" /\ caller[t].at = "unlock" =>
         /\ channel.lock = t
         /\ caller[t].data = media[caller[t].dev][caller[t].sector]
=============================================================================
