----------------------------- MODULE ByteQueues ----------------------------
(***************************************************************************)
(* Bytes in and out of the kernel: the interrupt queues of devices/intq.c, *)
(* the input buffer of devices/input.c and the serial port of              *)
(* devices/serial.c.  Bytes are numbered in the order they enter a queue   *)
(* or the receiver.  Kernel code that runs with interrupts off is one      *)
(* step, which ends where the thread blocks.  The UART is modelled from    *)
(* how the code uses its registers.                                        *)
(***************************************************************************)
EXTENDS Integers, Sequences, FiniteSets

CONSTANTS
  Writer, Reader,  \* threads that call serial_putc and input_getc
  INTQ_BUFSIZE,
  MaxOut, MaxIn,   \* bounds: bytes that go out and come in
  Nobody

ASSUME QueueConstants == INTQ_BUFSIZE > 1 /\ Writer \cap Reader = {}

VARIABLES
  txq, buffer,     \* the queues
  mode, ier,       \* the driver's mode, the interrupts it enabled
  thr, rbr,        \* the byte in the transmitter and in the receiver, or 0
  out, in,         \* how many bytes were queued to go out, and came in
  line, keys,      \* the bytes on the wire, and the bytes that were read
  stage,           \* where each thread is
  asserted         \* an assertion failed

queueVars == <<txq, buffer, mode, ier, thr, rbr, out, in, line, keys, stage, asserted>>

QueueUser == Writer \cup Reader

-----------------------------------------------------------------------------
(* intq.c                                                                  *)
intq_init == [buf |-> [p \in 0..INTQ_BUFSIZE-1 |-> 0], head |-> 0, tail |-> 0,
              not_full |-> Nobody, not_empty |-> Nobody, lock |-> Nobody]
next(pos) == (pos + 1) % INTQ_BUFSIZE
intq_empty(q) == q.head = q.tail
intq_full(q) == next(q.head) = q.tail

(* What intq_getc and intq_putc do when they need not wait; the thread     *)
(* they signal is woken.                                                   *)
Got(q) == [q EXCEPT !.tail = next(@), !.not_full = Nobody]
Put(q, byte) == [q EXCEPT !.buf[q.head] = byte, !.head = next(@), !.not_empty = Nobody]
SignalThread(waiter) == stage' = [t \in QueueUser |-> IF t = waiter THEN "woken" ELSE stage[t]]

(* The waiting loops: the queue's lock, then wait.  The lock is taken when *)
(* it is free; a thread that slept for it may find that it need not wait,  *)
(* which wait asserts.                                                     *)
MayTry(q, t) == stage[t] = "idle" \/ stage[t] = "woken" \/ (stage[t] = "lock" /\ q.lock = Nobody)
WaitFull(q, t) == IF q.lock # Nobody THEN q ELSE [q EXCEPT !.lock = t, !.not_full = t]
WaitEmpty(q, t) == IF q.lock # Nobody THEN q ELSE [q EXCEPT !.lock = t, !.not_empty = t]
BlockOn(q, t) == stage' = [stage EXCEPT ![t] = IF q.lock # Nobody THEN "lock" ELSE "blocked"]
QueueUnlocked(q, t) == IF stage[t] = "woken" THEN [q EXCEPT !.lock = Nobody] ELSE q

-----------------------------------------------------------------------------
(* serial.c                                                                *)
write_ier(tx, inp) ==
  ier' = (IF ~intq_empty(tx) THEN {"XMIT"} ELSE {}) \cup (IF ~intq_full(inp) THEN {"RECV"} ELSE {})
NotifyNobody(inp) == UNCHANGED ier
serial_notify(inp) == IF mode = "QUEUE" THEN write_ier(txq, inp) ELSE UNCHANGED ier

(* putc_poll waits for the transmitter, whose byte is then on the wire.    *)
putc_poll(byte) == line' = (IF thr # 0 THEN Append(line, thr) ELSE line) /\ thr' = byte

init_poll == mode = "UNINIT" /\ mode' = "POLL" /\ ier' = {} /\ txq' = intq_init

serial_init_queue ==
  /\ mode = "POLL" /\ mode' = "QUEUE"
  /\ write_ier(txq, buffer)
  /\ UNCHANGED <<txq, buffer, thr, rbr, out, in, line, keys, stage, asserted>>

(* The first byte makes the port ready for polling; until the queue is     *)
(* used every byte is polled out.                                          *)
serial_putc_poll ==
  /\ mode # "QUEUE" /\ out < MaxOut /\ out' = out + 1
  /\ IF mode = "UNINIT" THEN init_poll ELSE UNCHANGED <<mode, ier, txq>>
  /\ putc_poll(out + 1)
  /\ UNCHANGED <<buffer, rbr, in, keys, stage, asserted>>

(* A thread queues a byte, and waits when the queue is full.               *)
serial_putc(w) ==
  LET q == QueueUnlocked(txq, w)
  IN /\ mode = "QUEUE" /\ out < MaxOut /\ MayTry(q, w)
     /\ IF stage[w] = "lock" /\ ~intq_full(q)
        THEN asserted' = TRUE /\ UNCHANGED <<txq, stage, out, ier>>
        ELSE IF intq_full(q) THEN /\ txq' = WaitFull(q, w) /\ BlockOn(q, w)
                                  /\ UNCHANGED <<asserted, out, ier>>
        ELSE /\ txq' = Put(q, out + 1) /\ out' = out + 1
             /\ stage' = [stage EXCEPT ![w] = "idle"]
             /\ write_ier(txq', buffer) /\ UNCHANGED asserted
     /\ UNCHANGED <<buffer, mode, thr, rbr, in, line, keys>>

(* With interrupts off, as in a handler: no waiting, the first byte of a   *)
(* full queue is polled out.                                               *)
serial_putc_off ==
  LET q == IF intq_full(txq) THEN Got(txq) ELSE txq
  IN /\ mode = "QUEUE" /\ out < MaxOut
     /\ IF intq_full(txq) THEN putc_poll(txq.buf[txq.tail]) /\ SignalThread(txq.not_full)
                          ELSE UNCHANGED <<line, thr, stage>>
     /\ txq' = Put(q, out + 1) /\ out' = out + 1
     /\ write_ier(txq', buffer)
     /\ UNCHANGED <<buffer, mode, rbr, in, keys, asserted>>

(* One turn of the loop of serial_flush.                                   *)
serial_flush ==
  /\ ~intq_empty(txq)
  /\ putc_poll(txq.buf[txq.tail]) /\ SignalThread(txq.not_full)
  /\ txq' = Got(txq)
  /\ UNCHANGED <<buffer, mode, ier, rbr, out, in, keys, asserted>>

(* The handler receives a byte and sends one, if it can.                   *)
serial_interrupt ==
  LET receives == ~intq_full(buffer) /\ rbr # 0
      sends == ~intq_empty(txq) /\ thr = 0
  IN /\ ("XMIT" \in ier /\ thr = 0) \/ ("RECV" \in ier /\ rbr # 0)
     /\ buffer' = IF receives THEN Put(buffer, rbr) ELSE buffer
     /\ rbr' = IF receives THEN 0 ELSE rbr
     /\ txq' = IF sends THEN Got(txq) ELSE txq
     /\ thr' = IF sends THEN txq.buf[txq.tail] ELSE thr
     /\ stage' = [t \in QueueUser |-> IF (receives /\ t = buffer.not_empty) \/ (sends /\ t = txq.not_full)
                                     THEN "woken" ELSE stage[t]]
     /\ write_ier(txq', buffer')
     /\ UNCHANGED <<mode, out, in, line, keys, asserted>>

(* The wire takes the transmitter's byte, or brings one.                   *)
Transmitted ==
  /\ thr # 0 /\ thr' = 0 /\ line' = Append(line, thr)
  /\ UNCHANGED <<txq, buffer, mode, ier, rbr, out, in, keys, stage, asserted>>

Received ==
  /\ mode = "QUEUE" /\ rbr = 0 /\ in < MaxIn /\ in' = in + 1 /\ rbr' = in + 1
  /\ UNCHANGED <<txq, buffer, mode, ier, thr, out, line, keys, stage, asserted>>

-----------------------------------------------------------------------------
(* input.c: input_getc, which lets the port receive again.                 *)
input_getc(r) ==
  LET q == QueueUnlocked(buffer, r)
  IN /\ mode = "QUEUE" /\ MayTry(q, r)
     /\ IF stage[r] = "lock" /\ ~intq_empty(q)
        THEN asserted' = TRUE /\ UNCHANGED <<buffer, stage, keys, ier>>
        ELSE IF intq_empty(q) THEN /\ buffer' = WaitEmpty(q, r) /\ BlockOn(q, r)
                                   /\ UNCHANGED <<asserted, keys, ier>>
        ELSE /\ keys' = Append(keys, q.buf[q.tail])
             /\ buffer' = Got(q)
             /\ stage' = [stage EXCEPT ![r] = "idle"]
             /\ serial_notify(buffer') /\ UNCHANGED asserted
     /\ UNCHANGED <<txq, mode, thr, rbr, out, in, line>>

QueueInit ==
  /\ txq = intq_init /\ buffer = intq_init
  /\ mode = "UNINIT" /\ ier = {} /\ thr = 0 /\ rbr = 0 /\ out = 0 /\ in = 0
  /\ line = <<>> /\ keys = <<>> /\ stage = [t \in QueueUser |-> "idle"] /\ asserted = FALSE

QueueNext ==
  \/ serial_init_queue \/ serial_putc_poll \/ serial_putc_off \/ serial_flush
  \/ serial_interrupt \/ Transmitted \/ Received
  \/ \E w \in Writer : serial_putc(w)
  \/ \E r \in Reader : input_getc(r)

QueueSpec == QueueInit /\ [][QueueNext]_queueVars

-----------------------------------------------------------------------------
Between(q) == [k \in 1..((q.head - q.tail) % INTQ_BUFSIZE) |-> q.buf[(q.tail + k - 1) % INTQ_BUFSIZE]]
Byte(b) == IF b = 0 THEN <<>> ELSE <<b>>
Upto(n) == [k \in 1..n |-> k]

(* The assertion of wait in intq.c: a thread that goes to sleep on a queue *)
(* finds it empty, or full, as it did when it decided to.                  *)
WaitsForCause == ~asserted

(* No byte is lost, repeated or overtaken on its way out or in, by polling *)
(* or by interrupts; a port with bytes to send has its interrupt enabled,  *)
(* and one with room to receive too; a thread that waits is the one the    *)
(* queue will wake, while there is a reason to; and no thread waits that   *)
(* need not.                                                               *)
BytesInOrder ==
  /\ line \o Byte(thr) \o Between(txq) = Upto(out)
  /\ keys \o Between(buffer) \o Byte(rbr) = Upto(in)
  /\ mode = "QUEUE" => /\ ~intq_empty(txq) => "XMIT" \in ier
                       /\ ~intq_full(buffer) => "RECV" \in ier
  /\ \A w \in Writer : stage[w] = "blocked" => txq.not_full = w /\ intq_full(txq) /\ txq.lock = w
  /\ \A r \in Reader : stage[r] = "blocked" => buffer.not_empty = r /\ intq_empty(buffer) /\ buffer.lock = r
  /\ WaitsForCause
=============================================================================
