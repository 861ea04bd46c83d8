-------------------------- MODULE InterruptsProofs -------------------------
(***************************************************************************)
(* External interrupts are handled alone, for every set of threads, every  *)
(* set of lines and any depth of nesting of traps and faults.              *)
(***************************************************************************)
EXTENDS Interrupts, SequenceTheorems, TLAPS

FrameType == [vec : Nat, level : BOOLEAN, at : {"handler", "return"}]

\* Frame f of thread j is an external interrupt whose handler runs.
Active(s, f) == External(s[f].vec) /\ s[f].at = "handler"

\* The lines that an interrupt may have put in service.
LinesOf(vec) == IF vec >= Vec(8) THEN {vec - 32, IRQ_CASCADE0} ELSE {vec - 32}

IntrTypeOK ==
  /\ job \in Job /\ frames \in [Job -> Seq(FrameType)]
  /\ intr_level \in BOOLEAN /\ in_external_intr \in BOOLEAN /\ resumed \in [Job -> BOOLEAN]

(* The inductive invariant.  ExternalAlone is not inductive: that nothing  *)
(* is in service after pic_end_of_interrupt needs to know which lines the  *)
(* last frame stands for, and that no frame below it is active needs the   *)
(* same of the frames of all threads.                                      *)
IntrInv ==
  /\ IntrTypeOK
  /\ \A j \in Job : \A f \in 1..Len(frames[j]) :
       /\ Active(frames[j], f) => in_external_intr /\ j = job /\ f = Len(frames[j])
       /\ External(frames[j][f].vec) => frames[j][f].level = TRUE
  /\ in_external_intr =>
       /\ Deep(1) /\ Active(frames[job], Len(frames[job]))
       /\ intr_level = FALSE /\ in_service \subseteq LinesOf(TopFrame.vec)
  /\ ~in_external_intr => in_service = {}

\* A step that neither enters nor leaves an interrupt: intr_set_level, the
\* masks, a line that is raised, intr_yield_on_return.
LEMMA QuietStep ==
  ASSUME IntrInv, UNCHANGED <<job, frames, in_external_intr, in_service, resumed>>,
         intr_level' \in BOOLEAN, in_external_intr => intr_level' = FALSE
  PROVE  IntrInv'
BY DEF IntrInv, IntrTypeOK, Active, Deep, TopFrame

\* Where a frame is after one more is pushed on the stack of a thread.
LEMMA Pushed ==
  ASSUME IntrTypeOK, NEW fr \in FrameType,
         frames' = [frames EXCEPT ![job] = Append(@, fr)]
  PROVE  /\ frames' \in [Job -> Seq(FrameType)]
         /\ \A j \in Job \ {job} : frames'[j] = frames[j]
         /\ Len(frames'[job]) = Len(frames[job]) + 1
         /\ \A f \in 1..Len(frames[job]) : frames'[job][f] = frames[job][f]
         /\ frames'[job][Len(frames[job]) + 1] = fr
<1>1. frames[job] \in Seq(FrameType) /\ job \in Job /\ frames'[job] = Append(frames[job], fr)
  BY DEF IntrTypeOK
<1>2. Append(frames[job], fr) \in Seq(FrameType)
  BY <1>1
<1>3. frames' \in [Job -> Seq(FrameType)] /\ \A j \in Job \ {job} : frames'[j] = frames[j]
  BY <1>2 DEF IntrTypeOK
<1> QED
  BY <1>1, <1>3

\* The start of intr_handler: an external interrupt finds interrupts on, so
\* that no other one is handled.
LEMMA EnterStep ==
  ASSUME IntrInv, NEW vec \in Nat, NEW off \in BOOLEAN, Enter(vec, off), ~in_external_intr,
         External(vec) => intr_level /\ off /\ in_service' \subseteq LinesOf(vec),
         ~External(vec) => UNCHANGED in_service,
         UNCHANGED <<job, resumed>>
  PROVE  IntrInv'
<1> DEFINE fr == Frame(vec, intr_level)
           n == Len(frames[job])
<1>0. IntrTypeOK
  BY DEF IntrInv
<1>1. fr \in FrameType /\ fr.vec = vec /\ fr.level = intr_level /\ fr.at = "handler"
  BY <1>0 DEF Frame, FrameType, IntrTypeOK
<1>2. frames' = [frames EXCEPT ![job] = Append(@, fr)]
  BY DEF Enter
<1> HIDE DEF fr
<1>3. /\ frames' \in [Job -> Seq(FrameType)]
      /\ \A j \in Job \ {job} : frames'[j] = frames[j]
      /\ Len(frames'[job]) = n + 1
      /\ \A f \in 1..n : frames'[job][f] = frames[job][f]
      /\ frames'[job][n + 1] = fr
  BY <1>0, <1>1, <1>2, Pushed, Zenon
<1>4. n \in Nat /\ job \in Job /\ job' = job
  BY <1>0 DEF IntrTypeOK
<1>5. IntrTypeOK'
  BY <1>0, <1>3 DEF IntrTypeOK, Enter
<1>6. /\ in_external_intr' <=> External(vec)
      /\ intr_level' = (intr_level /\ ~off)
  <2>1. in_external_intr' = (in_external_intr \/ External(vec)) /\ intr_level' = (intr_level /\ ~off)
    BY DEF Enter
  <2> QED
    BY <2>1, Zenon
<1>7. ASSUME NEW j \in Job, NEW f \in 1..Len(frames'[j])
      PROVE  /\ Active(frames'[j], f) => in_external_intr' /\ j = job /\ f = Len(frames'[j])
             /\ External(frames'[j][f].vec) => frames'[j][f].level = TRUE
  <2>1. CASE j # job
    BY <1>3, <2>1 DEF IntrInv, Active
  <2>2. CASE j = job /\ f # n + 1
    <3>1. f \in 1..n /\ frames'[job][f] = frames[job][f]
      BY <1>3, <1>4, <2>2
    <3> QED
      BY <1>4, <2>2, <3>1 DEF IntrInv, Active
  <2>3. CASE j = job /\ f = n + 1
    BY <1>0, <1>1, <1>3, <1>6, <2>3 DEF Active, IntrTypeOK
  <2> QED
    BY <2>1, <2>2, <2>3, Zenon
<1>8. ASSUME in_external_intr'
      PROVE  /\ Deep(1)' /\ Active(frames[job], Len(frames[job]))'
             /\ intr_level' = FALSE /\ in_service' \subseteq LinesOf(TopFrame.vec)'
  <2>1. External(vec) /\ TopFrame' = fr /\ Deep(1)'
    BY <1>3, <1>4, <1>6, <1>8 DEF TopFrame, Deep
  <2>2. TopFrame'.vec = vec
    BY <1>1, <2>1
  <2>3. Active(frames[job], Len(frames[job]))'
    BY <1>1, <1>3, <1>4, <2>1 DEF Active
  <2>4. in_service' \subseteq LinesOf(TopFrame.vec)'
    BY <2>1, <2>2 DEF LinesOf
  <2>5. intr_level' = FALSE
    BY <1>6, <2>1, Zenon
  <2> QED
    BY <2>1, <2>3, <2>4, <2>5
<1>9. ~in_external_intr' => in_service' = {}
  BY <1>6 DEF IntrInv
<1>10. \A j \in Job : \A f \in 1..Len(frames'[j]) :
         /\ Active(frames[j], f)' => in_external_intr' /\ j = job' /\ f = Len(frames'[j])
         /\ External(frames'[j][f].vec) => frames'[j][f].level = TRUE
  BY <1>4, <1>7, Zenon DEF Active
<1> QED
  BY <1>5, <1>8, <1>9, <1>10, Zenon DEF IntrInv

\* A device's interrupt, delivered or spurious, puts only its lines in
\* service.
LEMMA DeliverStep ==
  ASSUME IntrInv, NEW irq \in 0..15, Deliver(irq) \/ (irq \in Spurious /\ Spuriously(irq))
  PROVE  IntrInv'
<1>1. ~in_external_intr /\ intr_level
  BY Zenon DEF IntrInv, Deliver, Spuriously
<1>2. in_service = {}
  BY <1>1 DEF IntrInv
<1>3. in_service' \subseteq LinesOf(Vec(irq))
  <2>1. CASE Deliver(irq)
    <3>1. in_service' = PicLine(irq)
      BY <1>2, <2>1 DEF Deliver
    <3> QED
      BY <3>1 DEF PicLine, LinesOf, Vec
  <2>2. CASE irq \in Spurious /\ Spuriously(irq)
    <3>1. in_service' = IF irq = 15 THEN {IRQ_CASCADE0} ELSE {}
      BY <1>2, <2>2 DEF Spuriously
    <3> QED
      BY <3>1 DEF LinesOf, Vec
  <2> QED
    BY <2>1, <2>2
<1>4. Vec(irq) \in Nat /\ External(Vec(irq))
  BY DEF Vec, External
<1>5. Enter(Vec(irq), TRUE) /\ UNCHANGED <<job, resumed>>
  BY Zenon DEF Deliver, Spuriously
<1> QED
  BY <1>1, <1>3, <1>4, <1>5, EnterStep, Zenon

LEMMA InternalStep ==
  ASSUME IntrInv, NEW vec \in {Trap, Fault}, Internal(vec)
  PROVE  IntrInv'
<1>1. vec \in Nat /\ ~External(vec)
  BY DEF Trap, Fault, External, Vec
<1>2. Enter(vec, vec = Fault) /\ ~in_external_intr /\ UNCHANGED <<job, in_service, resumed>>
  BY DEF Internal
<1>3. (vec = Fault) \in BOOLEAN
  OBVIOUS
<1> QED
  BY <1>1, <1>2, <1>3, EnterStep, Zenon

\* pic_end_of_interrupt leaves no line of the interrupt in service.
LEMMA Acknowledged ==
  ASSUME NEW vec \in Vec(0)..Vec(15), in_service \subseteq LinesOf(vec), pic_end_of_interrupt(vec)
  PROVE  in_service' = {}
<1>1. CASE vec < Vec(8)
  <2>1. \A i \in in_service : i = vec - 32 /\ i < 8 /\ i \in Int
    BY <1>1 DEF LinesOf, Vec
  <2>2. \A i \in in_service : i \in FirstOf({k \in in_service : k < 8})
    BY <2>1 DEF FirstOf
  <2> QED
    BY <2>2 DEF pic_end_of_interrupt
<1>2. CASE vec >= Vec(8)
  <2>1. vec - 32 >= 8 /\ vec - 32 \in Int
    BY <1>2 DEF Vec
  <2>2. \A i \in in_service : i = vec - 32 \/ i = 2
    BY <1>2 DEF LinesOf, IRQ_CASCADE0
  <2>3. \A i \in in_service : i < 8 => i \in FirstOf({k \in in_service : k < 8})
    BY <2>1, <2>2 DEF FirstOf
  <2>4. \A i \in in_service : i >= 8 => i \in FirstOf({k \in in_service : k >= 8})
    BY <2>1, <2>2 DEF FirstOf
  <2>5. \A i \in in_service : i < 8 \/ i >= 8
    BY <2>1, <2>2
  <2> QED
    BY <1>2, <2>3, <2>4, <2>5 DEF pic_end_of_interrupt
<1> QED
  BY <1>1, <1>2 DEF Vec

\* The end of intr_handler, with or without a switch of threads.
LEMMA FinishStep ==
  ASSUME IntrInv, Finish
  PROVE  IntrInv'
<1> DEFINE n == Len(frames[job])
           fr == [frames[job][n] EXCEPT !.at = "return"]
<1>0. IntrTypeOK /\ job \in Job /\ n \in Nat \ {0} /\ frames[job] \in Seq(FrameType)
  BY DEF IntrInv, IntrTypeOK, Finish, Deep
<1>1. frames[job][n] \in FrameType
  BY <1>0
<1>2. fr \in FrameType /\ fr.at = "return" /\ fr.vec = frames[job][n].vec /\ fr.level = frames[job][n].level
  BY <1>1 DEF FrameType
<1>3. frames' = [frames EXCEPT ![job] = [@ EXCEPT ![n] = fr]]
  BY DEF Finish
<1> HIDE DEF fr
<1>4. /\ frames' \in [Job -> Seq(FrameType)]
      /\ \A j \in Job \ {job} : frames'[j] = frames[j]
      /\ Len(frames'[job]) = n
      /\ \A f \in 1..n : frames'[job][f] = IF f = n THEN fr ELSE frames[job][f]
  <2>1. [frames[job] EXCEPT ![n] = fr] \in Seq(FrameType)
    BY <1>0, <1>2
  <2> QED
    BY <1>0, <1>3, <2>1 DEF IntrTypeOK
<1>5. job' \in Job /\ intr_level' \in BOOLEAN /\ resumed' \in [Job -> BOOLEAN]
  BY <1>0, Zenon DEF Finish, IntrTypeOK
<1>6. ~in_external_intr' /\ in_external_intr' \in BOOLEAN /\ in_service' = {}
  <2>1. CASE External(TopFrame.vec)
    <3>1. n \in 1..Len(frames[job]) /\ Active(frames[job], n)
      BY <1>0, <2>1 DEF Finish, Active, TopFrame
    <3>2. in_external_intr
      BY <1>0, <3>1 DEF IntrInv
    <3>3. in_service \subseteq LinesOf(TopFrame.vec) /\ TopFrame.vec \in Vec(0)..Vec(15)
      BY <2>1, <3>2 DEF IntrInv, External
    <3>4. pic_end_of_interrupt(TopFrame.vec) /\ in_external_intr' = FALSE
      BY <2>1 DEF Finish
    <3> QED
      BY <3>3, <3>4, Acknowledged, Zenon
  <2>2. CASE ~External(TopFrame.vec)
    <3>1. ~in_external_intr
      BY <2>2 DEF IntrInv, Active, TopFrame
    <3> QED
      BY <1>0, <2>2, <3>1 DEF IntrInv, IntrTypeOK, Finish
  <2> QED
    BY <2>1, <2>2
<1>7. ASSUME NEW j \in Job, NEW f \in 1..Len(frames'[j])
      PROVE  /\ ~Active(frames'[j], f)
             /\ External(frames'[j][f].vec) => frames'[j][f].level = TRUE
  <2>1. CASE j # job
    BY <1>4, <2>1 DEF IntrInv, Active
  <2>2. CASE j = job /\ f # n
    <3>1. f \in 1..Len(frames[job]) /\ frames'[job][f] = frames[job][f]
      BY <1>4, <2>2
    <3> QED
      BY <1>0, <2>2, <3>1 DEF IntrInv, Active
  <2>3. CASE j = job /\ f = n
    BY <1>0, <1>2, <1>4, <2>3 DEF IntrInv, Active
  <2> QED
    BY <2>1, <2>2, <2>3, Zenon
<1>8. \A j \in Job : \A f \in 1..Len(frames'[j]) :
         /\ ~Active(frames[j], f)'
         /\ External(frames'[j][f].vec) => frames'[j][f].level = TRUE
  BY <1>7, Zenon DEF Active
<1>9. IntrTypeOK'
  BY <1>4, <1>5, <1>6 DEF IntrTypeOK
<1> QED
  BY <1>6, <1>8, <1>9 DEF IntrInv

\* intr_exit drops the last frame, which is not active any more.
LEMMA ReturnStep ==
  ASSUME IntrInv, Return
  PROVE  IntrInv'
<1> DEFINE n == Len(frames[job])
           s == SubSeq(frames[job], 1, n - 1)
<1>0. IntrTypeOK /\ job \in Job /\ n \in Nat \ {0} /\ frames[job] \in Seq(FrameType)
  BY DEF IntrInv, IntrTypeOK, Return, Deep
<1>1. s \in Seq(FrameType) /\ Len(s) = n - 1 /\ \A f \in 1..(n - 1) : s[f] = frames[job][f]
  BY <1>0
<1>2. frames' = [frames EXCEPT ![job] = s]
  BY DEF Return
<1> HIDE DEF s
<1>3. frames' \in [Job -> Seq(FrameType)] /\ \A j \in Job : frames'[j] = IF j = job THEN s ELSE frames[j]
  BY <1>0, <1>1, <1>2 DEF IntrTypeOK
<1>4. ~in_external_intr
  BY DEF IntrInv, Return, Active, TopFrame
<1>5. TopFrame.level \in BOOLEAN
  <2>1. frames[job][n] \in FrameType
    BY <1>0
  <2> QED
    BY <2>1 DEF TopFrame, FrameType
<1>6. IntrTypeOK'
  BY <1>0, <1>3, <1>5 DEF IntrTypeOK, Return
<1>7. ASSUME NEW j \in Job, NEW f \in 1..Len(frames'[j])
      PROVE  /\ ~Active(frames'[j], f)
             /\ External(frames'[j][f].vec) => frames'[j][f].level = TRUE
  <2>1. f \in 1..Len(frames[j]) /\ frames'[j][f] = frames[j][f]
    <3>1. CASE j = job
      <4>1. frames'[j] = s
        BY <1>3, <3>1, Zenon
      <4>2. f \in 1..(n - 1) /\ f \in 1..n
        BY <1>0, <1>1, <1>7, <4>1
      <4> QED
        BY <1>1, <3>1, <4>1, <4>2
    <3>2. CASE j # job
      BY <1>3, <1>7, <3>2, Zenon
    <3> QED
      BY <3>1, <3>2
  <2> QED
    BY <1>4, <2>1 DEF IntrInv, Active
<1>8. \A j \in Job : \A f \in 1..Len(frames'[j]) :
         /\ ~Active(frames[j], f)'
         /\ External(frames'[j][f].vec) => frames'[j][f].level = TRUE
  BY <1>7, Zenon DEF Active
<1>9. ~in_external_intr' /\ in_service' = {}
  BY <1>4 DEF IntrInv, Return
<1> QED
  BY <1>6, <1>8, <1>9 DEF IntrInv

\* The invariant holds of every state that interrupts, traps, thread switches
\* and changes of the interrupt flag and the masks reach.
THEOREM IntrInvariant == IntrSpec => []IntrInv
<1>1. IntrInit => IntrInv
  <2> SUFFICES ASSUME IntrInit PROVE IntrInv
    OBVIOUS
  <2>1. IntrTypeOK
    <3>1. <<>> \in Seq(FrameType)
      OBVIOUS
    <3>2. frames \in [Job -> Seq(FrameType)]
      BY <3>1 DEF IntrInit
    <3>3. resumed \in [Job -> BOOLEAN]
      BY DEF IntrInit
    <3> QED
      BY <3>2, <3>3, Zenon DEF IntrInit, IntrTypeOK
  <2>2. \A j \in Job : Len(frames[j]) = 0
    BY DEF IntrInit
  <2> QED
    BY <2>1, <2>2 DEF IntrInit, IntrInv
<1>2. IntrInv /\ [IntrNext]_intrVars => IntrInv'
  <2> SUFFICES ASSUME IntrInv, [IntrNext]_intrVars PROVE IntrInv'
    OBVIOUS
  <2>0. Irq \subseteq 0..15 /\ Spurious \subseteq 0..15
    BY InterruptConstants DEF Spurious
  <2>1. ASSUME UNCHANGED intrVars PROVE IntrInv'
    BY <2>1, QuietStep, Zenon DEF intrVars, IntrInv, IntrTypeOK
  <2>2. ASSUME NEW irq, Raise(irq) \/ intr_irq_mask(irq) \/ intr_irq_unmask(irq) PROVE IntrInv'
    BY <2>2, QuietStep, Zenon DEF Raise, intr_irq_mask, intr_irq_unmask, IntrInv, IntrTypeOK
  <2>3. ASSUME NEW irq \in Irq, Deliver(irq) PROVE IntrInv'
    BY <2>0, <2>3, DeliverStep
  <2>4. ASSUME NEW irq \in Spurious, Spuriously(irq) PROVE IntrInv'
    BY <2>0, <2>4, DeliverStep
  <2>5. ASSUME NEW on \in BOOLEAN, intr_set_level(on) PROVE IntrInv'
    BY <2>5, QuietStep, Zenon DEF intr_set_level
  <2>6. ASSUME intr_yield_on_return PROVE IntrInv'
    BY <2>6, QuietStep, Zenon DEF intr_yield_on_return, IntrInv, IntrTypeOK
  <2> QED
    BY <2>1, <2>2, <2>3, <2>4, <2>5, <2>6, InternalStep, FinishStep, ReturnStep DEF IntrNext
<1> QED
  BY <1>1, <1>2, PTL DEF IntrSpec

\* While an external interrupt is handled interrupts are off and its frame is
\* the last, and a line waits for its acknowledgement only then:
\* ExternalAlone of the run machine, for all threads, lines and depths.
THEOREM ExternalInterruptsAlone == IntrSpec => []ExternalAlone
<1>1. IntrInv => ExternalAlone
  <2> SUFFICES ASSUME IntrInv PROVE ExternalAlone
    OBVIOUS
  <2> DEFINE active == {f \in 1..Len(frames[job]) : External(frames[job][f].vec) /\ frames[job][f].at = "handler"}
  <2>0. job \in Job /\ Len(frames[job]) \in Nat /\ \A j \in Job : Len(frames[j]) \in Nat
    BY DEF IntrInv, IntrTypeOK
  <2>1. active \subseteq {Len(frames[job])}
    BY <2>0 DEF IntrInv, Active
  <2>2. in_external_intr => Len(frames[job]) \in active
    BY <2>0 DEF IntrInv, Active, Deep
  <2>3. active # {} => in_external_intr
    BY <2>0 DEF IntrInv, Active
  <2>4. in_external_intr => ~intr_level
    BY DEF IntrInv
  <2>5. ~in_external_intr => in_service = {}
    BY DEF IntrInv
  <2>6. ASSUME NEW j \in Job, NEW f \in 1..MaxDepth, f <= Len(frames[j])
        PROVE  /\ j # job => ~(External(frames[j][f].vec) /\ frames[j][f].at = "handler")
               /\ External(frames[j][f].vec) => frames[j][f].level
    <3>1. f \in 1..Len(frames[j])
      BY <2>0, <2>6, InterruptConstants
    <3> QED
      BY <3>1 DEF IntrInv, Active
  <2> QED
    BY <2>1, <2>2, <2>3, <2>4, <2>5, <2>6 DEF ExternalAlone
<1> QED
  BY <1>1, IntrInvariant, PTL

=============================================================================
