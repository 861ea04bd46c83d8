----------------------------- MODULE Interrupts ----------------------------
(***************************************************************************)
(* Interrupt handling: threads/interrupt.c on one CPU with two cascaded    *)
(* 8259A controllers, and thread_yield as the handler calls it.  A thread  *)
(* has a stack of interrupt frames; a frame keeps the vector and the       *)
(* interrupt flag it returns to.  The controllers and the CPU are modelled *)
(* from how the code programs them.                                        *)
(***************************************************************************)
EXTENDS Integers, Sequences, FiniteSets

CONSTANTS
  Job,        \* the threads
  Irq,        \* the lines that devices raise, of 0 .. 15
  Registered, \* the lines that have a handler
  Maskable,   \* the lines that drivers mask and unmask
  MaxDepth    \* bound: interrupt frames on a stack

IRQ_CASCADE0 == 2
IRQ_CASCADE1 == 9
Spurious == {7, 15}
Vec(irq) == 32 + irq
Trap == 48    \* a system call, registered with INTR_ON
Fault == 14   \* a page fault, registered with INTR_OFF

ASSUME InterruptConstants == Irq \subseteq 0..15 /\ Registered \cup Maskable \subseteq Irq /\ MaxDepth \in Nat

VARIABLES
  job,               \* the thread that runs
  intr_level,        \* TRUE iff the CPU takes interrupts
  frames,            \* the interrupt frames of each thread
  in_external_intr, yield_on_return,
  raised,            \* lines whose interrupt was not delivered yet
  in_service,        \* lines that the controllers wait to see acknowledged
  pic_mask,          \* masked lines
  resumed            \* the flag a thread that yielded goes on with

intrVars == <<job, intr_level, frames, in_external_intr, yield_on_return, raised, in_service,
              pic_mask, resumed>>

Frame(vec, level) == [vec |-> vec, level |-> level, at |-> "handler"]
TopFrame == frames[job][Len(frames[job])]
Deep(n) == Len(frames[job]) >= n
External(vec) == vec \in Vec(0)..Vec(15)
PicLine(irq) == IF irq >= 8 THEN {irq, IRQ_CASCADE0} ELSE {irq}

-----------------------------------------------------------------------------
(* A device raises a line; the controller delivers a line that no masked   *)
(* or unacknowledged line stands before.  The gate turns interrupts off.   *)
Raise(irq) ==
  /\ irq \notin raised /\ raised' = raised \cup {irq}
  /\ UNCHANGED <<job, intr_level, frames, in_external_intr, yield_on_return, in_service, pic_mask,
                 resumed>>

(* The start of intr_handler, which makes an external interrupt one.       *)
Enter(vec, off) ==
  /\ Len(frames[job]) < MaxDepth
  /\ frames' = [frames EXCEPT ![job] = Append(@, Frame(vec, intr_level))]
  /\ intr_level' = (intr_level /\ ~off)
  /\ in_external_intr' = (in_external_intr \/ External(vec))
  /\ yield_on_return' = IF External(vec) THEN FALSE ELSE yield_on_return

Deliver(irq) ==
  /\ intr_level /\ irq \in raised
  /\ PicLine(irq) \cap (pic_mask \cup in_service) = {}
  /\ \A i \in in_service : irq < i
  /\ Enter(Vec(irq), TRUE)
  /\ raised' = raised \ {irq} /\ in_service' = in_service \cup PicLine(irq)
  /\ UNCHANGED <<job, pic_mask, resumed>>

(* A spurious interrupt comes without a line in service.                   *)
Spuriously(irq) ==
  /\ intr_level /\ irq \in Spurious \ in_service
  /\ Enter(Vec(irq), TRUE)
  /\ in_service' = in_service \cup (IF irq = 15 THEN {IRQ_CASCADE0} ELSE {})
  /\ UNCHANGED <<job, raised, pic_mask, resumed>>

(* A trap leaves the flag alone; a page fault turns it off.                *)
Internal(vec) ==
  /\ ~in_external_intr
  /\ Enter(vec, vec = Fault)
  /\ UNCHANGED <<job, raised, in_service, pic_mask, resumed>>

-----------------------------------------------------------------------------
(* What code outside external handlers does: intr_enable, intr_disable.    *)
intr_set_level(on) ==
  /\ on => ~in_external_intr
  /\ intr_level' = on
  /\ UNCHANGED <<job, frames, in_external_intr, yield_on_return, raised, in_service, pic_mask,
                 resumed>>

(* What an external handler does besides its device's work.                *)
intr_yield_on_return ==
  /\ in_external_intr /\ TopFrame.at = "handler" /\ TopFrame.vec \in {Vec(irq) : irq \in Registered}
  /\ yield_on_return' = TRUE
  /\ UNCHANGED <<job, intr_level, frames, in_external_intr, raised, in_service, pic_mask, resumed>>

intr_irq_mask(irq) ==
  /\ pic_mask' = pic_mask \cup {irq}
  /\ UNCHANGED <<job, intr_level, frames, in_external_intr, yield_on_return, raised, in_service,
                 resumed>>

(* Unmasking a line of the slave unmasks the cascade too.                  *)
intr_irq_unmask(irq) ==
  /\ pic_mask' = pic_mask \ (IF irq >= 8 THEN {irq, IRQ_CASCADE0, IRQ_CASCADE1} ELSE {irq})
  /\ UNCHANGED <<job, intr_level, frames, in_external_intr, yield_on_return, raised, in_service,
                 resumed>>

(* pic_end_of_interrupt: the master forgets its first line in service, and *)
(* for a line of the slave the slave does.                                 *)
FirstOf(S) == {i \in S : \A j \in S : i <= j}
pic_end_of_interrupt(vec) ==
  LET master == {i \in in_service : i < 8}
      slave == {i \in in_service : i >= 8}
  IN in_service' = in_service \ (FirstOf(master) \cup IF vec >= Vec(8) THEN FirstOf(slave) ELSE {})

(* The end of intr_handler: an external interrupt is over and acknowledged *)
(* before a thread switch.                                                 *)
FinishUnacknowledged ==
  /\ Deep(1) /\ TopFrame.at = "handler"
  /\ frames' = [frames EXCEPT ![job][Len(frames[job])].at = "return"]
  /\ in_external_intr' = FALSE
  /\ IF yield_on_return /\ External(TopFrame.vec) THEN UNCHANGED in_service
     ELSE IF External(TopFrame.vec) THEN pic_end_of_interrupt(TopFrame.vec) ELSE UNCHANGED in_service
  /\ IF External(TopFrame.vec) /\ yield_on_return
     THEN \E j \in Job : job' = j /\ intr_level' = resumed[j] /\ resumed' = [resumed EXCEPT ![job] = FALSE]
     ELSE UNCHANGED <<job, intr_level, resumed>>
  /\ UNCHANGED <<yield_on_return, raised, pic_mask>>

Finish ==
  /\ Deep(1) /\ TopFrame.at = "handler"
  /\ frames' = [frames EXCEPT ![job][Len(frames[job])].at = "return"]
  /\ IF External(TopFrame.vec)
     THEN in_external_intr' = FALSE /\ pic_end_of_interrupt(TopFrame.vec)
     ELSE UNCHANGED <<in_external_intr, in_service>>
  /\ IF External(TopFrame.vec) /\ yield_on_return
     THEN \E j \in Job : /\ job' = j
                         /\ resumed' = [resumed EXCEPT ![job] = FALSE]
                         /\ intr_level' = IF j = job THEN FALSE ELSE resumed[j]
     ELSE UNCHANGED <<job, intr_level, resumed>>
  /\ UNCHANGED <<yield_on_return, raised, pic_mask>>

(* intr_exit: iret takes the flag from the frame.                          *)
Return ==
  /\ Deep(1) /\ TopFrame.at = "return"
  /\ intr_level' = TopFrame.level
  /\ frames' = [frames EXCEPT ![job] = SubSeq(@, 1, Len(@) - 1)]
  /\ UNCHANGED <<job, in_external_intr, yield_on_return, raised, in_service, pic_mask, resumed>>

IntrInit ==
  /\ job \in Job /\ intr_level = TRUE /\ frames = [j \in Job |-> <<>>]
  /\ in_external_intr = FALSE /\ yield_on_return = FALSE
  /\ raised = {} /\ in_service = {} /\ pic_mask = {}
  /\ resumed = [j \in Job |-> TRUE]

IntrNext ==
  \/ \E irq \in Irq : Raise(irq) \/ Deliver(irq)
  \/ \E irq \in Maskable : intr_irq_mask(irq) \/ intr_irq_unmask(irq)
  \/ \E irq \in Spurious : Spuriously(irq)
  \/ \E vec \in {Trap, Fault} : Internal(vec)
  \/ \E on \in BOOLEAN : intr_set_level(on)
  \/ intr_yield_on_return \/ Finish \/ Return

IntrSpec == IntrInit /\ [][IntrNext]_intrVars

-----------------------------------------------------------------------------
(* External interrupts never nest and are never overtaken: while one is    *)
(* handled interrupts are off and its frame is the last; a line waits for  *)
(* its acknowledgement only then, so that no line is cut off for ever when *)
(* the handler switches threads; and every interrupted thread returns to   *)
(* the interrupt flag it had.                                              *)
ExternalAlone ==
  LET active == {f \in 1..Len(frames[job]) : External(frames[job][f].vec) /\ frames[job][f].at = "handler"}
  IN /\ in_external_intr <=> active # {}
     /\ active \subseteq {Len(frames[job])}
     /\ in_external_intr => ~intr_level
     /\ ~in_external_intr => in_service = {}
     /\ \A j \in Job \ {job}, f \in 1..MaxDepth :
          f <= Len(frames[j]) => ~(External(frames[j][f].vec) /\ frames[j][f].at = "handler")
     /\ \A j \in Job, f \in 1..MaxDepth :
          f <= Len(frames[j]) /\ External(frames[j][f].vec) => frames[j][f].level
=============================================================================
