--------------------------- MODULE VcpuIrqProofs ---------------------------
(***************************************************************************)
(* Proofs about VcpuIrq for every set of interrupts, every nesting bound   *)
(* and every stack bound.                                                  *)
(***************************************************************************)
EXTENDS VcpuIrq, TLAPS

IInv == TypeOK /\ Inv

USE IrqAssumption, BoundsAssumption, TrapsAssumption
USE DEF IInv, Inv, Frame, Flag, Pc, Body, At, GoTo, vcpuVars, guestVars, TypeOK, StackShape

\* Reading the state word: the level saved is the one the region nests in.
LEMMA IrqSaveInv == ASSUME IInv, IrqSave PROVE IInv'
<1> USE DEF IrqSave
<1>1. TypeOK'
  BY SMTT(30) DEF HandlerData, SavedLevels
<1>2. StackShape'
  BY DEF HandlersClosed, Upcall
<1>3. HandlerData'
  BY DEF HandlerData, HandlersClosed, Upcall
<1>4. HandlersClosed'
  BY DEF HandlersClosed, Upcall, ThreadLevels
<1>5. SavedLevels'
  <2> USE DEF HandlersClosed, SavedLevels, ThreadLevels, ThreadOpen, ThreadState, Upcall
  <2>1. CASE top = 1
    <3>1. /\ saved'[1][nest[1] + 1] = ("irq" \in state)
          /\ \A k \in 1..MaxNest : k # nest[1] + 1 => saved'[1][k] = saved[1][k]
      BY <2>1
    <3>2. pc'[1] = "clear" /\ ThreadOpen' = ThreadOpen
      BY <2>1
    <3>3. (\A k \in 2..MaxNest : ~saved[1][k])'
      BY <2>1, <3>1, <3>2
    <3>4. (nest[1] > 0 => (saved[1][1] <=> ~closed))'
      BY <2>1, <3>1, <3>2
    <3>5. (nest[1] < MaxNest /\ (saved[1][nest[1] + 1] <=> ThreadOpen))'
      BY <2>1, <3>1, <3>2
    <3>6. QED
      BY <3>2, <3>3, <3>4, <3>5
  <2>2. CASE top > 1
    BY <2>2
  <2>3. QED
    BY <2>1, <2>2
<1>6. ThreadLevels'
  BY DEF HandlersClosed, SavedLevels, ThreadLevels, ThreadOpen, ThreadState, Upcall, Opening
<1>7. NoLostIrq'
  BY DEF HandlersClosed, NoLostIrq, IrqPending
<1>8. QED
  BY <1>1, <1>2, <1>3, <1>4, <1>5, <1>6, <1>7

\* Clearing F_IRQ begins a region and disturbs no saved level.
LEMMA IrqDisableInv == ASSUME IInv, IrqDisable PROVE IInv'
<1> USE DEF IrqDisable
<1>1. TypeOK'
  BY DEF HandlerData, SavedLevels
<1>2. StackShape'
  BY DEF HandlersClosed, Upcall
<1>3. HandlerData'
  BY DEF HandlerData, HandlersClosed, Upcall
<1>4. HandlersClosed'
  BY DEF HandlersClosed, Upcall, ThreadLevels
<1>5. SavedLevels'
  BY DEF HandlersClosed, SavedLevels, ThreadLevels, ThreadOpen, ThreadState, Upcall, Opening
<1>6. ThreadLevels'
  BY DEF HandlersClosed, SavedLevels, ThreadLevels, ThreadOpen, ThreadState, Upcall, Opening
<1>7. NoLostIrq'
  BY DEF HandlersClosed, NoLostIrq, IrqPending
<1>8. QED
  BY <1>1, <1>2, <1>3, <1>4, <1>5, <1>6, <1>7

\* Ending a region goes to l4vcpu_irq_enable from the thread level only: a
\* handler body has saved every one of its levels as closed.
LEMMA EndRegionInv == ASSUME IInv, NEW next \in {"run", "flash"}, EndRegion(next) PROVE IInv'
<1> USE DEF EndRegion
<1>0. pc'[top] = next \/ (top = 1 /\ pc'[top] = "enable")
  BY DEF HandlerData
<1>1. TypeOK'
  <2>1. pc' \in [Frame -> Pc]
    OBVIOUS
  <2>2. nest' \in [Frame -> 0..MaxNest] /\ after' \in [Frame -> {"run", "flash", "idle"}]
    OBVIOUS
  <2>3. saved' \in [Frame -> [1..MaxNest -> BOOLEAN]]
    OBVIOUS
  <2>4. QED
    BY <2>1, <2>2, <2>3
<1>2. StackShape'
  BY <1>0
<1>3. HandlerData'
  BY DEF HandlerData, HandlersClosed, Upcall
<1>4. HandlersClosed'
  BY DEF HandlersClosed, Upcall, ThreadLevels
<1>5. SavedLevels'
  BY DEF HandlersClosed, SavedLevels, ThreadLevels, ThreadOpen, ThreadState, Upcall, Opening
<1>6. ThreadLevels'
  BY DEF HandlersClosed, SavedLevels, ThreadLevels, ThreadOpen, ThreadState, Upcall, Opening
<1>7. NoLostIrq'
  BY DEF HandlersClosed, NoLostIrq, IrqPending
<1>8. QED
  BY <1>1, <1>2, <1>3, <1>4, <1>5, <1>6, <1>7

\* i386_open_interrupts is on its way to set F_IRQ, with no region open.
LEMMA IrqOpenInv == ASSUME IInv, IrqOpen PROVE IInv'
<1> USE DEF IrqOpen
<1>1. TypeOK'
  BY DEF HandlerData, SavedLevels
<1>2. StackShape'
  BY DEF HandlersClosed, Upcall
<1>3. HandlerData'
  BY DEF HandlerData, HandlersClosed, Upcall
<1>4. HandlersClosed'
  BY DEF HandlersClosed, Upcall, ThreadLevels
<1>5. SavedLevels'
  BY DEF HandlersClosed, SavedLevels, ThreadLevels, ThreadOpen, ThreadState, Upcall, Opening
<1>6. ThreadLevels'
  BY DEF HandlersClosed, SavedLevels, ThreadLevels, ThreadOpen, ThreadState, Upcall, Opening
<1>7. NoLostIrq'
  BY DEF HandlersClosed, NoLostIrq, IrqPending
<1>8. QED
  BY <1>1, <1>2, <1>3, <1>4, <1>5, <1>6, <1>7

\* i386_close_interrupts leaves F_IRQ clear, as closed then says.
LEMMA IrqCloseInv == ASSUME IInv, IrqClose PROVE IInv'
<1> USE DEF IrqClose
<1>1. TypeOK'
  BY DEF HandlerData, SavedLevels
<1>2. StackShape'
  BY DEF HandlersClosed, Upcall
<1>3. HandlerData'
  BY DEF HandlerData, HandlersClosed, Upcall
<1>4. HandlersClosed'
  BY DEF HandlersClosed, Upcall, ThreadLevels
<1>5. SavedLevels'
  BY DEF HandlersClosed, SavedLevels, ThreadLevels, ThreadOpen, ThreadState, Upcall, Opening
<1>6. ThreadLevels'
  BY DEF HandlersClosed, SavedLevels, ThreadLevels, ThreadOpen, ThreadState, Upcall, Opening
<1>7. NoLostIrq'
  BY DEF HandlersClosed, NoLostIrq, IrqPending
<1>8. QED
  BY <1>1, <1>2, <1>3, <1>4, <1>5, <1>6, <1>7

\* The idle body enters l4vcpu_wait with no region open.
LEMMA WaitForEventInv == ASSUME IInv, WaitForEvent PROVE IInv'
<1> USE DEF WaitForEvent
<1>1. TypeOK'
  BY DEF HandlerData, SavedLevels
<1>2. StackShape'
  BY DEF HandlersClosed, Upcall
<1>3. HandlerData'
  BY DEF HandlerData, HandlersClosed, Upcall
<1>4. HandlersClosed'
  BY DEF HandlersClosed, Upcall, ThreadLevels
<1>5. SavedLevels'
  BY DEF HandlersClosed, SavedLevels, ThreadLevels, ThreadOpen, ThreadState, Upcall, Opening
<1>6. ThreadLevels'
  BY DEF HandlersClosed, SavedLevels, ThreadLevels, ThreadOpen, ThreadState, Upcall, Opening
<1>7. NoLostIrq'
  BY DEF HandlersClosed, NoLostIrq, IrqPending
<1>8. QED
  BY <1>1, <1>2, <1>3, <1>4, <1>5, <1>6, <1>7

\* Setting F_IRQ leaves messages in the queue only for the look that follows.
LEMMA EnableSetInv == ASSUME IInv, EnableSet PROVE IInv'
<1> USE DEF EnableSet
<1>1. TypeOK'
  BY DEF HandlerData, SavedLevels
<1>2. StackShape'
  BY DEF HandlersClosed, Upcall
<1>3. HandlerData'
  BY DEF HandlerData, HandlersClosed, Upcall
<1>4. HandlersClosed'
  BY DEF HandlersClosed, Upcall, ThreadLevels
<1>5. SavedLevels'
  BY DEF HandlersClosed, SavedLevels, ThreadLevels, ThreadOpen, ThreadState, Upcall, Opening
<1>6. ThreadLevels'
  BY DEF HandlersClosed, SavedLevels, ThreadLevels, ThreadOpen, ThreadState, Upcall, Opening
<1>7. NoLostIrq'
  BY DEF HandlersClosed, NoLostIrq, IrqPending
<1>8. QED
  BY <1>1, <1>2, <1>3, <1>4, <1>5, <1>6, <1>7

\* The look at sticky_flags leaves open code with an empty queue.
LEMMA EnableCheckInv == ASSUME IInv, EnableCheck PROVE IInv'
<1> USE DEF EnableCheck
<1>0. top = 1 /\ after[1] \in {"run", "flash"}
  BY DEF ThreadLevels
<1>1. TypeOK'
  BY <1>0
<1>2. StackShape'
  BY <1>0
<1>3. HandlerData'
  BY DEF HandlerData, HandlersClosed, Upcall
<1>4. HandlersClosed'
  BY DEF HandlersClosed, Upcall, ThreadLevels
<1>5. SavedLevels'
  BY <1>0 DEF SavedLevels, ThreadOpen, ThreadState
<1>6. ThreadLevels'
  BY DEF HandlersClosed, SavedLevels, ThreadLevels, ThreadOpen, ThreadState, Upcall, Opening
<1>7. NoLostIrq'
  BY DEF HandlersClosed, NoLostIrq, IrqPending
<1>8. QED
  BY <1>1, <1>2, <1>3, <1>4, <1>5, <1>6, <1>7

\* l4vcpu_wait receives with F_IRQ clear.
LEMMA WaitDisableInv == ASSUME IInv, WaitDisable PROVE IInv'
<1> USE DEF WaitDisable
<1>1. TypeOK'
  BY DEF HandlerData, SavedLevels
<1>2. StackShape'
  BY DEF HandlersClosed, Upcall
<1>3. HandlerData'
  BY DEF HandlerData, HandlersClosed, Upcall
<1>4. HandlersClosed'
  BY DEF HandlersClosed, Upcall, ThreadLevels
<1>5. SavedLevels'
  BY DEF HandlersClosed, SavedLevels, ThreadLevels, ThreadOpen, ThreadState, Upcall, Opening
<1>6. ThreadLevels'
  BY DEF HandlersClosed, SavedLevels, ThreadLevels, ThreadOpen, ThreadState, Upcall, Opening
<1>7. NoLostIrq'
  BY DEF HandlersClosed, NoLostIrq, IrqPending
<1>8. QED
  BY <1>1, <1>2, <1>3, <1>4, <1>5, <1>6, <1>7

\* A callback starts as the second frame, on a thread level that is closed.
LEMMA WaitReceiveInv == ASSUME IInv, NEW i \in Irq, WaitReceive(i) PROVE IInv'
<1> USE DEF WaitReceive
<1>1. TypeOK'
  <2>1. pc' \in [Frame -> Pc]
    OBVIOUS
  <2>2. pending' \subseteq Irq /\ label' \in Irq /\ top' \in Frame
    OBVIOUS
  <2>3. QED
    BY <2>1, <2>2
<1>2. StackShape'
  BY DEF HandlersClosed, Upcall
<1>3. HandlerData'
  BY SMTT(30) DEF HandlerData, HandlersClosed, Upcall
<1>4. HandlersClosed'
  BY DEF HandlersClosed, Upcall, ThreadLevels, ThreadOpen, ThreadState
<1>5. SavedLevels'
  BY DEF HandlersClosed, SavedLevels, ThreadLevels, ThreadOpen, ThreadState, Upcall, Opening
<1>6. ThreadLevels'
  BY DEF HandlersClosed, SavedLevels, ThreadLevels, ThreadOpen, ThreadState, Upcall, Opening
<1>7. NoLostIrq'
  BY DEF HandlersClosed, NoLostIrq, IrqPending
<1>8. QED
  BY <1>1, <1>2, <1>3, <1>4, <1>5, <1>6, <1>7

\* A receive that finds nothing goes back to set F_IRQ.
LEMMA WaitTimeoutInv == ASSUME IInv, WaitTimeout PROVE IInv'
<1> USE DEF WaitTimeout
<1>1. TypeOK'
  BY DEF HandlerData, SavedLevels
<1>2. StackShape'
  BY DEF HandlersClosed, Upcall
<1>3. HandlerData'
  BY DEF HandlerData, HandlersClosed, Upcall
<1>4. HandlersClosed'
  BY DEF HandlersClosed, Upcall, ThreadLevels
<1>5. SavedLevels'
  BY DEF HandlersClosed, SavedLevels, ThreadLevels, ThreadOpen, ThreadState, Upcall, Opening
<1>6. ThreadLevels'
  BY DEF HandlersClosed, SavedLevels, ThreadLevels, ThreadOpen, ThreadState, Upcall, Opening
<1>7. NoLostIrq'
  BY DEF HandlersClosed, NoLostIrq, IrqPending
<1>8. QED
  BY <1>1, <1>2, <1>3, <1>4, <1>5, <1>6, <1>7

\* l4rtems_handler adds no flag to the state word the kernel cleared.
LEMMA HandlerEntryInv == ASSUME IInv, HandlerEntry PROVE IInv'
<1> USE DEF HandlerEntry
<1>1. TypeOK'
  BY DEF HandlerData, SavedLevels
<1>2. StackShape'
  BY DEF HandlersClosed, Upcall
<1>3. HandlerData'
  BY DEF HandlerData, HandlersClosed, Upcall
<1>4. HandlersClosed'
  BY DEF HandlersClosed, Upcall, ThreadLevels
<1>5. SavedLevels'
  BY DEF HandlersClosed, SavedLevels, ThreadLevels, ThreadOpen, ThreadState, Upcall, Opening
<1>6. ThreadLevels'
  BY DEF HandlersClosed, SavedLevels, ThreadLevels, ThreadOpen, ThreadState, Upcall, Opening
<1>7. NoLostIrq'
  BY DEF HandlersClosed, NoLostIrq, IrqPending
<1>8. QED
  BY <1>1, <1>2, <1>3, <1>4, <1>5, <1>6, <1>7

\* The frame that takes the label is the only one that dispatches.
LEMMA IrqDispatchInv == ASSUME IInv, IrqDispatch PROVE IInv'
<1> USE DEF IrqDispatch
<1>1. TypeOK'
  BY DEF HandlerData, SavedLevels
<1>2. StackShape'
  BY DEF HandlersClosed, Upcall
<1>3. HandlerData'
  BY DEF HandlerData, HandlersClosed, Upcall
<1>4. HandlersClosed'
  BY DEF HandlersClosed, Upcall, ThreadLevels
<1>5. SavedLevels'
  BY DEF HandlersClosed, SavedLevels, ThreadLevels, ThreadOpen, ThreadState, Upcall, Opening
<1>6. ThreadLevels'
  BY DEF HandlersClosed, SavedLevels, ThreadLevels, ThreadOpen, ThreadState, Upcall, Opening
<1>7. NoLostIrq'
  BY DEF HandlersClosed, NoLostIrq, IrqPending
<1>8. QED
  BY <1>1, <1>2, <1>3, <1>4, <1>5, <1>6, <1>7

\* The callback returns to l4vcpu_wait, below it, with F_IRQ still clear.
LEMMA CallbackReturnInv == ASSUME IInv, CallbackReturn PROVE IInv'
<1> USE DEF CallbackReturn
<1>1. TypeOK'
  <2>1. pc' \in [Frame -> Pc]
    OBVIOUS
  <2>2. vector' \in [Frame -> Irq \cup {NoIrq}] /\ top' \in Frame
    OBVIOUS
  <2>3. QED
    BY <2>1, <2>2
<1>2. StackShape'
  BY DEF HandlersClosed, Upcall
<1>3. HandlerData'
  BY DEF HandlerData, HandlersClosed, Upcall
<1>4. HandlersClosed'
  BY DEF HandlersClosed, Upcall, ThreadLevels
<1>5. SavedLevels'
  BY DEF HandlersClosed, SavedLevels, ThreadLevels, ThreadOpen, ThreadState, Upcall, Opening
<1>6. ThreadLevels'
  BY DEF HandlersClosed, SavedLevels, ThreadLevels, ThreadOpen, ThreadState, Upcall, Opening
<1>7. NoLostIrq'
  BY DEF HandlersClosed, NoLostIrq, IrqPending
<1>8. QED
  BY <1>1, <1>2, <1>3, <1>4, <1>5, <1>6, <1>7

\* The handlers of an upcall return to its resume.
LEMMA UpcallReturnInv == ASSUME IInv, UpcallReturn PROVE IInv'
<1> USE DEF UpcallReturn
<1>1. TypeOK'
  BY DEF HandlerData, SavedLevels
<1>2. StackShape'
  BY DEF HandlersClosed, Upcall
<1>3. HandlerData'
  BY DEF HandlerData, HandlersClosed, Upcall
<1>4. HandlersClosed'
  BY DEF HandlersClosed, Upcall, ThreadLevels
<1>5. SavedLevels'
  BY DEF HandlersClosed, SavedLevels, ThreadLevels, ThreadOpen, ThreadState, Upcall, Opening
<1>6. ThreadLevels'
  BY DEF HandlersClosed, SavedLevels, ThreadLevels, ThreadOpen, ThreadState, Upcall, Opening
<1>7. NoLostIrq'
  BY DEF HandlersClosed, NoLostIrq, IrqPending
<1>8. QED
  BY <1>1, <1>2, <1>3, <1>4, <1>5, <1>6, <1>7

\* The resume gives the frame below its registers and its state word back.
LEMMA ResumeReturnInv == ASSUME IInv, ResumeReturn PROVE IInv'
<1> USE DEF ResumeReturn
<1>1. TypeOK'
  BY DEF HandlerData, SavedLevels
<1>2. StackShape'
  BY DEF HandlersClosed, Upcall
<1>3. HandlerData'
  BY SMTT(30) DEF HandlerData, HandlersClosed, Upcall
<1>4. HandlersClosed'
  BY DEF HandlersClosed, Upcall, ThreadLevels, ThreadOpen, ThreadState
<1>5. SavedLevels'
  BY DEF HandlersClosed, SavedLevels, ThreadLevels, ThreadOpen, ThreadState, Upcall, Opening
<1>6. ThreadLevels'
  BY DEF HandlersClosed, SavedLevels, ThreadLevels, ThreadOpen, ThreadState, Upcall, Opening
<1>7. NoLostIrq'
  BY DEF HandlersClosed, NoLostIrq, IrqPending
<1>8. QED
  BY <1>1, <1>2, <1>3, <1>4, <1>5, <1>6, <1>7

\* A resume that becomes a new upcall keeps the register save area.
LEMMA ResumeRedeliverInv == ASSUME IInv, NEW i \in Irq, ResumeRedeliver(i) PROVE IInv'
<1> USE DEF ResumeRedeliver
<1>1. TypeOK'
  BY DEF HandlerData, SavedLevels
<1>2. StackShape'
  BY DEF HandlersClosed, Upcall, ThreadLevels, ThreadOpen, ThreadState
<1>3. HandlerData'
  BY DEF HandlerData, HandlersClosed, Upcall
<1>4. HandlersClosed'
  BY DEF HandlersClosed, Upcall, ThreadLevels
<1>5. SavedLevels'
  BY DEF HandlersClosed, SavedLevels, ThreadLevels, ThreadOpen, ThreadState, Upcall, Opening
<1>6. ThreadLevels'
  BY DEF HandlersClosed, SavedLevels, ThreadLevels, ThreadOpen, ThreadState, Upcall, Opening
<1>7. NoLostIrq'
  BY DEF HandlersClosed, NoLostIrq, IrqPending
<1>8. QED
  BY <1>1, <1>2, <1>3, <1>4, <1>5, <1>6, <1>7

\* An interrupt makes an upcall only of open code, which is thread code.
LEMMA FireInv == ASSUME IInv, NEW i \in Irq, Fire(i) PROVE IInv'
<1>1. CASE "irq" \in state
  <2>1. top = 1 /\ pc[1] # "callback" /\ 2 \in Frame
    BY <1>1 DEF HandlersClosed
  <2>2. /\ top' = 2 /\ resumeTo' = 1 /\ trapno' = "irq" /\ label' = i
        /\ state' = {} /\ savedState' = state
        /\ pc' = [pc EXCEPT ![2] = "entry"]
        /\ UNCHANGED <<pending, nest, saved, after, vector, closed>>
    BY <1>1, <2>1 DEF Fire, KernelUpcall
  <2>3. TypeOK'
    BY <1>1, <2>1, <2>2
  <2>4. StackShape'
    BY <1>1, <2>1, <2>2 DEF HandlersClosed, Upcall
  <2>5. HandlerData'
    BY <1>1, <2>1, <2>2 DEF HandlerData, HandlersClosed, Upcall
  <2>6. HandlersClosed'
    BY <1>1, <2>1, <2>2 DEF HandlersClosed, Upcall, ThreadLevels
  <2>7. SavedLevels'
    BY <1>1, <2>1, <2>2 DEF HandlersClosed, SavedLevels, ThreadLevels, ThreadOpen, ThreadState, Upcall
  <2>8. ThreadLevels'
    BY <1>1, <2>1, <2>2 DEF HandlersClosed, SavedLevels, ThreadLevels, ThreadOpen, ThreadState, Upcall, Opening
  <2>9. NoLostIrq'
    BY <1>1, <2>1, <2>2 DEF HandlersClosed, NoLostIrq, IrqPending
  <2>10. QED
    BY <2>3, <2>4, <2>5, <2>6, <2>7, <2>8, <2>9
<1>2. CASE "irq" \notin state
  <2>1. /\ UNCHANGED <<state, savedState, resumeTo, trapno, label, top, pc>>
        /\ UNCHANGED <<nest, saved, after, vector, closed>>
        /\ pending' = pending \cup {i}
    BY <1>2 DEF Fire
  <2>2. TypeOK'
    BY <1>2, <2>1
  <2>3. StackShape'
    BY <1>2, <2>1 DEF HandlersClosed, Upcall
  <2>4. HandlerData'
    BY <1>2, <2>1 DEF HandlerData, HandlersClosed, Upcall
  <2>5. HandlersClosed'
    BY <1>2, <2>1 DEF HandlersClosed, Upcall, ThreadLevels
  <2>6. SavedLevels'
    BY <1>2, <2>1 DEF HandlersClosed, SavedLevels, ThreadLevels, ThreadOpen, ThreadState, Upcall
  <2>7. ThreadLevels'
    BY <1>2, <2>1 DEF HandlersClosed, SavedLevels, ThreadLevels, ThreadOpen, ThreadState, Upcall, Opening
  <2>8. NoLostIrq'
    BY <1>2, <2>1 DEF HandlersClosed, NoLostIrq, IrqPending
  <2>9. QED
    BY <2>2, <2>3, <2>4, <2>5, <2>6, <2>7, <2>8
<1>3. QED
  BY <1>1, <1>2

\* An exception makes an upcall only of thread code or a callback's handler.
LEMMA TrapInv == ASSUME IInv, Trap PROVE IInv'
<1> USE DEF Trap, KernelUpcall
<1>1. TypeOK'
  BY SMTT(30) DEF HandlerData, SavedLevels
<1>2. StackShape'
  BY DEF HandlersClosed, Upcall
<1>3. HandlerData'
  BY DEF HandlerData, HandlersClosed, Upcall
<1>4. HandlersClosed'
  BY DEF HandlersClosed, Upcall, ThreadLevels
<1>5. SavedLevels'
  BY DEF HandlersClosed, SavedLevels, ThreadLevels, ThreadOpen, ThreadState, Upcall, Opening
<1>6. ThreadLevels'
  BY DEF HandlersClosed, SavedLevels, ThreadLevels, ThreadOpen, ThreadState, Upcall, Opening
<1>7. NoLostIrq'
  BY DEF HandlersClosed, NoLostIrq, IrqPending
<1>8. QED
  BY <1>1, <1>2, <1>3, <1>4, <1>5, <1>6, <1>7

\* The start state satisfies the inductive invariant.
LEMMA InitInv == Init => IInv
<1> SUFFICES ASSUME Init PROVE IInv
  OBVIOUS
<1> USE DEF Init
<1>1. TypeOK /\ StackShape
  <2>1. pc \in [Frame -> Pc]
    OBVIOUS
  <2>2. saved \in [Frame -> [1..MaxNest -> BOOLEAN]]
    OBVIOUS
  <2>3. /\ nest \in [Frame -> 0..MaxNest]
        /\ after \in [Frame -> {"run", "flash", "idle"}]
        /\ vector \in [Frame -> Irq \cup {NoIrq}]
    OBVIOUS
  <2>4. /\ state \subseteq Flag /\ savedState \subseteq Flag
        /\ pending \subseteq Irq
        /\ resumeTo \in Frame /\ top \in Frame
    OBVIOUS
  <2>5. TypeOK
    BY <2>1, <2>2, <2>3, <2>4
  <2>6. StackShape
    OBVIOUS
  <2>7. QED
    BY <2>5, <2>6
<1>2. HandlerData /\ HandlersClosed
  BY DEF HandlerData, HandlersClosed
<1>3. ThreadOpen
  BY DEF ThreadOpen, ThreadState
<1>4. SavedLevels /\ ThreadLevels
  BY <1>3 DEF SavedLevels, ThreadLevels, Opening
<1>5. NoLostIrq
  BY DEF NoLostIrq, IrqPending
<1>6. QED
  BY <1>1, <1>2, <1>4, <1>5

\* A step that changes no variable keeps it.
LEMMA StutterInv == IInv /\ UNCHANGED vars => IInv'
<1> SUFFICES ASSUME IInv, UNCHANGED vars PROVE IInv'
  OBVIOUS
<1> USE DEF vars
<1>1. TypeOK' /\ StackShape'
  OBVIOUS
<1>2. HandlerData' /\ HandlersClosed'
  BY DEF HandlerData, HandlersClosed, Upcall
<1>3. SavedLevels'
  BY DEF SavedLevels, ThreadOpen, ThreadState, Upcall
<1>4. ThreadLevels'
  BY DEF ThreadLevels, ThreadOpen, ThreadState, Upcall, Opening
<1>5. NoLostIrq'
  BY DEF NoLostIrq, IrqPending
<1>6. QED
  BY <1>1, <1>2, <1>3, <1>4, <1>5

\* Every step keeps the inductive invariant: the lemmas above, one per action.
LEMMA NextInv == IInv /\ [Next]_vars => IInv'
<1> SUFFICES ASSUME IInv, [Next]_vars PROVE IInv'
  OBVIOUS
<1> HIDE DEF IInv, vcpuVars, guestVars
<1>1. CASE GuestStep
  BY <1>1, IrqSaveInv, IrqDisableInv, EnableSetInv, EnableCheckInv,
     WaitDisableInv, WaitTimeoutInv, HandlerEntryInv, IrqDispatchInv,
     ResumeReturnInv DEF GuestStep
<1>2. CASE ProgramStep
  BY <1>2, IrqSaveInv, EndRegionInv, IrqOpenInv, IrqCloseInv,
     WaitForEventInv, CallbackReturnInv, UpcallReturnInv
     DEF ProgramStep, IrqRestore, IrqFlash
<1>3. CASE \E i \in Irq : Fire(i) \/ Deliver(i)
  BY <1>3, FireInv, WaitReceiveInv, ResumeRedeliverInv DEF Deliver
<1>4. CASE Trap
  BY <1>4, TrapInv
<1>5. CASE UNCHANGED vars
  BY <1>5, StutterInv
<1>6. QED
  BY <1>1, <1>2, <1>3, <1>4, <1>5 DEF Next

\* The inductive invariant holds in every state of every behaviour.
THEOREM Invariance == Spec => []IInv
  BY InitInv, NextInv, PTL DEF Spec

\* Every variable keeps its type; with it, the stack of activations never needs
\* more than three frames, so the bound MaxFrames cuts nothing off.
THEOREM TypeCorrect == Spec => [](TypeOK /\ top <= 3)
<1>1. IInv => TypeOK /\ top <= 3
  OBVIOUS
<1>2. QED
  BY <1>1, Invariance, PTL

\* A vector is dispatched by the second frame or by none.
LEMMA DispatchingFrame ==
  ASSUME IInv, NEW d \in 2..top, vector[d] # NoIrq
  PROVE  d = 2
<1>1. d \in Frame \ {1} /\ pc[d] \in Body
  BY DEF HandlerData
<1>2. QED
  BY <1>1

\* No interrupt handler starts while another one runs.
THEOREM HandlersExclusive == Spec => []OneHandler
<1>1. IInv => OneHandler
  BY DispatchingFrame DEF OneHandler
<1>2. QED
  BY <1>1, Invariance, PTL

\* The register save area always belongs to the frame below the upcall.
THEOREM SaveAreaKept == Spec => []SaveAreaIntact
<1>1. IInv => SaveAreaIntact
  BY DEF SaveAreaIntact, Upcall
<1>2. QED
  BY <1>1, Invariance, PTL

\* Open code leaves no message in the kernel's queue.
THEOREM NothingLost == Spec => []NoLostIrq
<1>1. IInv => NoLostIrq
  OBVIOUS
<1>2. QED
  BY <1>1, Invariance, PTL

\* Thread code sees the interrupt level it asked for.
THEOREM LevelsKept == Spec => []LevelKept
<1>1. IInv => LevelKept
  BY DEF LevelKept, ISR_Get_level, ThreadLevels, ThreadOpen, ThreadState
<1>2. QED
  BY <1>1, Invariance, PTL

\* No handler runs inside an interrupt-free region of the thread code.
THEOREM RegionsKept == Spec => []RegionsNotInterrupted
<1>1. IInv => RegionsNotInterrupted
  <2> SUFFICES ASSUME IInv, NEW d \in 2..top, vector[d] # NoIrq
               PROVE  ~Masked
    BY DEF RegionsNotInterrupted
  <2>1. d = 2 /\ pc[2] \in Body
    BY DispatchingFrame DEF HandlerData
  <2>2. CASE pc[1] = "callback"
    BY <2>2 DEF Masked, Opening
  <2>3. CASE pc[1] # "callback"
    <3>1. top = 2 /\ trapno = "irq"
      BY <2>1, <2>3
    <3>2. ThreadOpen
      BY <2>3, <3>1 DEF HandlersClosed, ThreadOpen, ThreadState, Upcall
    <3>3. QED
      BY <3>1, <3>2 DEF ThreadLevels, Masked, Opening
  <2>4. QED
    BY <2>2, <2>3
<1>2. QED
  BY <1>1, Invariance, PTL

-----------------------------------------------------------------------------
(* VcpuIrq implements IrqDelivery. *)

\* A step that leaves the queue, the served interrupt and the masking alone.
Quiet == UNCHANGED <<pending, Serving, Masked>>

\* Reading the state word is no step of the abstract specification.
LEMMA IrqSaveQuiet == ASSUME IInv, IrqSave PROVE Quiet
  BY DEF IrqSave, Quiet, Serving, Masked, Opening, Upcall,
         HandlerData, HandlersClosed, SavedLevels, ThreadLevels, ThreadOpen, ThreadState

\* Setting F_IRQ is none: the thread level counted as open from the call on.
LEMMA EnableSetQuiet == ASSUME IInv, EnableSet PROVE Quiet
  BY DEF EnableSet, Quiet, Serving, Masked, Opening, Upcall,
         HandlerData, HandlersClosed, SavedLevels, ThreadLevels, ThreadOpen, ThreadState

\* The look at sticky_flags is none.
LEMMA EnableCheckQuiet == ASSUME IInv, EnableCheck PROVE Quiet
  BY DEF EnableCheck, Quiet, Serving, Masked, Opening, Upcall,
         HandlerData, HandlersClosed, SavedLevels, ThreadLevels, ThreadOpen, ThreadState

\* Clearing F_IRQ for a receive is none: the thread level still asks for open.
LEMMA WaitDisableQuiet == ASSUME IInv, WaitDisable PROVE Quiet
  BY DEF WaitDisable, Quiet, Serving, Masked, Opening, Upcall,
         HandlerData, HandlersClosed, SavedLevels, ThreadLevels, ThreadOpen, ThreadState

\* A receive that finds nothing is none.
LEMMA WaitTimeoutQuiet == ASSUME IInv, WaitTimeout PROVE Quiet
  BY DEF WaitTimeout, Quiet, Serving, Masked, Opening, Upcall,
         HandlerData, HandlersClosed, SavedLevels, ThreadLevels, ThreadOpen, ThreadState

\* The entry of l4rtems_handler is none: the label is being served already.
LEMMA HandlerEntryQuiet == ASSUME IInv, HandlerEntry PROVE Quiet
  BY DEF HandlerEntry, Quiet, Serving, Masked, Opening, Upcall,
         HandlerData, HandlersClosed, SavedLevels, ThreadLevels, ThreadOpen, ThreadState

\* Taking the label for the vector is none.
LEMMA IrqDispatchQuiet == ASSUME IInv, IrqDispatch PROVE Quiet
  BY DEF IrqDispatch, Quiet, Serving, Masked, Opening, Upcall,
         HandlerData, HandlersClosed, SavedLevels, ThreadLevels, ThreadOpen, ThreadState

\* The resume is none: the interrupt was finished when its handlers returned.
LEMMA ResumeReturnQuiet == ASSUME IInv, ResumeReturn PROVE Quiet
  BY DEF ResumeReturn, Quiet, Serving, Masked, Opening, Upcall,
         HandlerData, HandlersClosed, SavedLevels, ThreadLevels, ThreadOpen, ThreadState

\* An exception is none.
LEMMA TrapQuiet == ASSUME IInv, Trap PROVE Quiet
  BY DEF Trap, KernelUpcall, Quiet, Serving, Masked, Opening, Upcall,
         HandlerData, HandlersClosed, SavedLevels, ThreadLevels, ThreadOpen, ThreadState

\* Clearing F_IRQ masks interrupts, unless they were masked.
LEMMA IrqDisableStep == ASSUME IInv, IrqDisable PROVE Quiet \/ Delivery!Mask
  BY DEF IrqDisable, Quiet, Serving, Masked, Opening, Upcall, Delivery!Mask,
         HandlerData, HandlersClosed, SavedLevels, ThreadLevels, ThreadOpen, ThreadState

\* The end of the outermost region of an open thread unmasks them.
LEMMA EndRegionStep == ASSUME IInv, NEW next \in {"run", "flash"}, EndRegion(next) PROVE Quiet \/ Delivery!Unmask
  BY DEF EndRegion, Quiet, Serving, Masked, Opening, Upcall, Delivery!Unmask,
         HandlerData, HandlersClosed, SavedLevels, ThreadLevels, ThreadOpen, ThreadState

\* With only the thread on the stack nothing is served.
LEMMA NoHandler == ASSUME IInv, top = 1 PROVE Serving = NoIrq
<1>1. 2 \in Frame \ {1} /\ pc[2] = "none"
  OBVIOUS
<1>2. vector[2] = NoIrq
  BY <1>1 DEF HandlerData
<1>3. QED
  BY <1>1, <1>2 DEF Serving

\* i386_open_interrupts unmasks them.
LEMMA IrqOpenStep == ASSUME IInv, IrqOpen PROVE Quiet \/ Delivery!Unmask
<1> USE DEF IrqOpen
<1>1. UNCHANGED <<pending, Serving>> /\ Serving = NoIrq
  BY NoHandler DEF Serving
<1>2. Masked = closed /\ Masked' = FALSE
  BY DEF Masked, Opening
<1>3. QED
  BY <1>1, <1>2 DEF Quiet, Delivery!Unmask

\* i386_close_interrupts masks them.
LEMMA IrqCloseStep == ASSUME IInv, IrqClose PROVE Quiet \/ Delivery!Mask
<1> USE DEF IrqClose
<1>1. UNCHANGED <<pending, Serving>> /\ Serving = NoIrq
  BY NoHandler DEF Serving
<1>2. Masked = closed /\ Masked' = TRUE
  BY DEF Masked, Opening
<1>3. QED
  BY <1>1, <1>2 DEF Quiet, Delivery!Mask

\* The idle body unmasks them when it begins to wait.
LEMMA WaitForEventStep == ASSUME IInv, WaitForEvent PROVE Quiet \/ Delivery!Unmask
<1> USE DEF WaitForEvent
<1>1. UNCHANGED <<pending, Serving>> /\ Serving = NoIrq
  BY NoHandler DEF Serving
<1>2. Masked = closed /\ Masked' = FALSE
  BY DEF Masked, Opening
<1>3. QED
  BY <1>1, <1>2 DEF Quiet, Delivery!Unmask

\* A callback that returns finishes its interrupt.
LEMMA CallbackReturnStep ==
  ASSUME IInv, CallbackReturn
  PROVE  Quiet \/ Delivery!Finish \/ Delivery!Mask
<1> USE DEF CallbackReturn
<1>1. top = 2 /\ pc[1] = "callback" /\ pc[2] = "run"
  BY DEF Upcall
<1>2. Serving = vector[2] /\ Serving' = NoIrq
  BY <1>1 DEF Serving
<1>3. Masked = FALSE
  BY <1>1 DEF Masked, Opening
<1>4. Masked' = (after[1] = "idle")
  <2>1. CASE after[1] = "idle"
    <3>1. pc'[1] = "run" /\ closed'
      BY <1>1, <2>1 DEF ThreadLevels, Opening
    <3>2. QED
      BY <2>1, <3>1 DEF Masked, Opening
  <2>2. CASE after[1] # "idle"
    <3>1. pc'[1] = "enable"
      BY <1>1, <2>2
    <3>2. QED
      BY <2>2, <3>1 DEF Masked, Opening
  <2>3. QED
    BY <2>1, <2>2
<1>5. UNCHANGED pending
  OBVIOUS
<1>6. QED
  BY <1>2, <1>3, <1>4, <1>5 DEF Quiet, Delivery!Finish, Delivery!Mask

\* An upcall whose handlers return finishes its interrupt.
LEMMA UpcallReturnStep == ASSUME IInv, UpcallReturn PROVE Quiet \/ Delivery!Finish
<1> USE DEF UpcallReturn
<1>1. top = 2 /\ pc[1] # "callback" /\ pc[2] = "run"
  BY DEF Upcall
<1>2. Serving = vector[2] /\ Serving' = NoIrq
  BY <1>1 DEF Serving
<1>3. Masked' = Masked
  BY <1>1 DEF Masked, Opening
<1>4. Masked \in BOOLEAN /\ UNCHANGED pending
  BY DEF Masked
<1>5. QED
  BY <1>2, <1>3, <1>4 DEF Quiet, Delivery!Finish

\* The receive of l4vcpu_wait accepts a raised interrupt.
LEMMA WaitReceiveStep == ASSUME IInv, NEW i \in Irq, WaitReceive(i) PROVE Delivery!Accept(i)
  BY DEF WaitReceive, Quiet, Serving, Masked, Opening, Upcall, Delivery!Accept,
         HandlerData, HandlersClosed, SavedLevels, ThreadLevels, ThreadOpen, ThreadState

\* The resume that becomes an upcall accepts one.
LEMMA ResumeRedeliverStep == ASSUME IInv, NEW i \in Irq, ResumeRedeliver(i) PROVE Delivery!Accept(i)
  BY DEF ResumeRedeliver, Quiet, Serving, Masked, Opening, Upcall, Delivery!Accept,
         HandlerData, HandlersClosed, SavedLevels, ThreadLevels, ThreadOpen, ThreadState

\* An interrupt object that fires interrupts open code, or is raised.
LEMMA FireStep == ASSUME IInv, NEW i \in Irq, Fire(i) PROVE Delivery!Raise(i) \/ Delivery!Interrupt(i)
  BY DEF Fire, KernelUpcall, Quiet, Serving, Masked, Opening, Upcall, Delivery!Interrupt, Delivery!Raise,
         HandlerData, HandlersClosed, SavedLevels, ThreadLevels, ThreadOpen, ThreadState

\* The start state is a start state of the abstract specification.
LEMMA DeliveryInit == Init => Delivery!Init
<1> SUFFICES ASSUME Init PROVE Delivery!Init
  OBVIOUS
<1>1. Serving = NoIrq
  BY InitInv, NoHandler DEF Init
<1>2. Masked = FALSE
  BY DEF Init, Masked
<1>3. QED
  BY <1>1, <1>2 DEF Init, Delivery!Init

\* Every step of VcpuIrq is a step of IrqDelivery, or one it does not see.
LEMMA DeliveryStep == IInv /\ [Next]_vars => [Delivery!Next]_(Delivery!vars)
<1> SUFFICES ASSUME IInv, [Next]_vars
             PROVE  Delivery!Next \/ Quiet
  BY DEF Quiet, Delivery!vars
<1> HIDE DEF IInv, vcpuVars, guestVars
<1>1. CASE GuestStep
  BY <1>1, IrqSaveQuiet, IrqDisableStep, EnableSetQuiet, EnableCheckQuiet,
     WaitDisableQuiet, WaitTimeoutQuiet, HandlerEntryQuiet, IrqDispatchQuiet,
     ResumeReturnQuiet DEF GuestStep, Delivery!Next
<1>2. CASE ProgramStep
  BY <1>2, IrqSaveQuiet, EndRegionStep, IrqOpenStep, IrqCloseStep,
     WaitForEventStep, CallbackReturnStep, UpcallReturnStep
     DEF ProgramStep, IrqRestore, IrqFlash, Delivery!Next
<1>3. CASE \E i \in Irq : Fire(i) \/ Deliver(i)
  BY <1>3, FireStep, WaitReceiveStep, ResumeRedeliverStep
     DEF Deliver, Delivery!Next
<1>4. CASE Trap
  BY <1>4, TrapQuiet
<1>5. CASE UNCHANGED vars
  <2>1. UNCHANGED <<pending, top, pc, trapno, label, nest, vector, closed>>
    BY <1>5 DEF vars, vcpuVars, guestVars
  <2>2. QED
    BY <2>1 DEF Quiet, Serving, Masked
<1>6. QED
  BY <1>1, <1>2, <1>3, <1>4, <1>5 DEF Next

\* Whatever the interleaving of the kernel, the macros and the handlers, what
\* the program sees of its interrupts is a behaviour of IrqDelivery.
THEOREM Refinement == Spec => Delivery!Spec
  BY Invariance, DeliveryInit, DeliveryStep, PTL DEF Spec, Delivery!Spec
=============================================================================
