------------------------------ MODULE VcpuIrq ------------------------------
(***************************************************************************)
(* The interrupt core of the port: the vCPU state word that stands for the *)
(* processor's interrupt flag (l4vcpu.h), the RTEMS interrupt macros built *)
(* on it (interrupts.h, cpu.h), the idle body (cpu.c) and the two paths by *)
(* which an interrupt reaches RTEMS: the upcall to l4rtems_handler and the *)
(* callback from l4vcpu_wait (handler.c).  The L4 kernel is external and   *)
(* modelled by what these files rely on.                                   *)
(*                                                                         *)
(* The code runs on a stack of activations (frames).  Frame 1 is the       *)
(* thread-level code; an upcall or a callback puts a frame on top.  Every  *)
(* access to the shared vCPU area is a step of its own, so an interrupt    *)
(* can come between any two of them.                                       *)
(***************************************************************************)
EXTENDS Naturals

CONSTANTS
  Irq,        \* interrupt labels bound to the vCPU
  NoIrq,      \* no label
  MaxNest,    \* bound: depth of nested interrupt-free regions in a frame
  MaxFrames,  \* bound: activations on the stack
  Traps       \* does the guest code take processor exceptions?

ASSUME IrqAssumption == NoIrq \notin Irq
ASSUME BoundsAssumption ==
  MaxNest \in Nat \ {0} /\ MaxFrames \in Nat /\ MaxFrames >= 3
ASSUME TrapsAssumption == Traps \in BOOLEAN

Frame == 1..MaxFrames
Flag  == {"irq", "exc"}     \* L4_VCPU_F_IRQ and L4_VCPU_F_EXCEPTIONS

VARIABLES
  state,       \* vcpu->state, the set of its flags
  savedState,  \* vcpu->saved_state
  resumeTo,    \* vcpu->r: the frame whose registers the kernel saved there
  trapno,      \* vcpu->r.trapno: why the upcall came
  label,       \* vcpu->i.label
  pending,     \* kernel: messages queued for the vCPU
  top,         \* the frame that runs
  pc,          \* per frame: where it is
  nest,        \* per frame: interrupt-free regions it is in
  saved,       \* per frame: the _level each of these regions saved
  after,       \* per frame: what follows the l4vcpu_irq_enable/_wait it is in
  vector,      \* per frame: the vector it dispatches
  closed       \* thread level asked for closed interrupts

vcpuVars  == <<state, savedState, resumeTo, trapno, label>>
guestVars == <<nest, saved, after, vector, closed>>
vars      == <<vcpuVars, pending, top, pc, guestVars>>

Pc == {"none",      \* no such frame
       "run",       \* thread code, or the body of an interrupt handler
       "flash",     \* i386_flash_interrupts between its two halves
       "clear",     \* l4vcpu_irq_disable_save has read the state word
       "enable",    \* l4vcpu_irq_enable, head of the loop
       "check",     \* l4vcpu_irq_enable, F_IRQ set, sticky_flags not read
       "wait",      \* l4vcpu_wait, before the disable
       "recv",      \* l4vcpu_wait, in l4_ipc_wait
       "callback",  \* l4vcpu_wait, in do_event_work_cb
       "entry",     \* l4rtems_handler, before it masks the state word
       "dispatch",  \* l4rtems_irq_handler, before it reads the label
       "resume"}    \* l4rtems_handler, at l4_thread_vcpu_resume_commit

At(p) == pc[top] = p
GoTo(p) == pc' = [pc EXCEPT ![top] = p]

\* vcpu->sticky_flags & L4_VCPU_SF_IRQ_PENDING: the kernel keeps the flag set
\* exactly while messages are queued.
IrqPending == pending # {}

\* A frame entered by an upcall, as opposed to a function call.
Upcall(d) == d > 1 /\ pc[d - 1] # "callback"

\* The vCPU starts in the state the wrapper left in saved_state, with
\* interrupts open, in the guest's start code.
Init ==
  /\ state = {"irq", "exc"}
  /\ savedState = {"irq", "exc"}
  /\ resumeTo = 1
  /\ trapno = "irq"
  /\ label = NoIrq
  /\ pending = {}
  /\ top = 1
  /\ pc = [d \in Frame |-> IF d = 1 THEN "run" ELSE "none"]
  /\ nest = [d \in Frame |-> 0]
  /\ saved = [d \in Frame |-> [k \in 1..MaxNest |-> FALSE]]
  /\ after = [d \in Frame |-> "run"]
  /\ vector = [d \in Frame |-> NoIrq]
  /\ closed = FALSE

-----------------------------------------------------------------------------
(* The L4 kernel (external). *)

\* The kernel reflects an event to the vCPU: state word and registers go to
\* their save areas, delivery is turned off, and the vCPU starts at entry_ip.
KernelUpcall(reason) ==
  /\ top < MaxFrames
  /\ savedState' = state
  /\ state' = {}
  /\ resumeTo' = top
  /\ trapno' = reason
  /\ top' = top + 1
  /\ pc' = [pc EXCEPT ![top + 1] = "entry"]

\* An interrupt object fires.  With F_IRQ set its message interrupts the guest;
\* otherwise it is queued, and an object that is queued already is not queued
\* again.
Fire(i) ==
  /\ i \notin pending
  /\ \/ /\ "irq" \in state
        /\ KernelUpcall("irq")
        /\ label' = i
        /\ UNCHANGED pending
     \/ /\ "irq" \notin state
        /\ pending' = pending \cup {i}
        /\ UNCHANGED <<vcpuVars, top, pc>>
  /\ UNCHANGED guestVars

\* The guest code raises a processor exception and the vCPU takes it.
Trap ==
  /\ Traps
  /\ "exc" \in state
  /\ ~At("recv")
  /\ KernelUpcall("trap")
  /\ UNCHANGED <<label, pending, guestVars>>

\* vcpu_resume_commit finds the guest would be open and a message queued: it
\* does not return but delivers the message as a new upcall.
ResumeRedeliver(i) ==
  /\ At("resume")
  /\ "irq" \in savedState
  /\ i \in pending
  /\ pending' = pending \ {i}
  /\ label' = i
  /\ trapno' = "irq"
  /\ GoTo("entry")
  /\ UNCHANGED <<state, savedState, resumeTo, top, guestVars>>

\* Otherwise it restores the saved state word and the saved registers.
ResumeReturn ==
  /\ At("resume")
  /\ "irq" \notin savedState \/ ~IrqPending
  /\ state' = savedState
  /\ top' = resumeTo
  /\ pc' = [d \in Frame |-> IF d > resumeTo THEN "none" ELSE pc[d]]
  /\ UNCHANGED <<savedState, resumeTo, trapno, label, pending, guestVars>>

-----------------------------------------------------------------------------
(* l4vcpu.h, one action per access to the vCPU area, and the macros of      *)
(* interrupts.h and cpu.h that call it.                                     *)

\* Mutant of IrqSave: the level is computed from the word already cleared.
IrqSaveCleared ==
  /\ At("run") \/ At("flash")
  /\ nest[top] < MaxNest
  /\ saved' = [saved EXCEPT ![top][nest[top] + 1] = "irq" \in state \ {"irq"}]
  /\ GoTo("clear")
  /\ UNCHANGED <<vcpuVars, pending, top, nest, after, vector, closed>>

\* l4vcpu_irq_disable_save: the state word is read ...
IrqSave ==
  /\ At("run") \/ At("flash")
  /\ nest[top] < MaxNest
  /\ saved' = [saved EXCEPT ![top][nest[top] + 1] = "irq" \in state]
  /\ GoTo("clear")
  /\ UNCHANGED <<vcpuVars, pending, top, nest, after, vector, closed>>

\* Mutant of IrqDisable: another flag is cleared.
IrqDisableExceptions ==
  /\ At("clear")
  /\ state' = state \ {"exc"}
  /\ nest' = [nest EXCEPT ![top] = @ + 1]
  /\ GoTo("run")
  /\ UNCHANGED <<savedState, resumeTo, trapno, label, pending, top,
                 saved, after, vector, closed>>

\* ... and then its F_IRQ is cleared: the interrupt-free region begins.
IrqDisable ==
  /\ At("clear")
  /\ state' = state \ {"irq"}
  /\ nest' = [nest EXCEPT ![top] = @ + 1]
  /\ GoTo("run")
  /\ UNCHANGED <<savedState, resumeTo, trapno, label, pending, top,
                 saved, after, vector, closed>>

\* Mutant of EndRegion: opens without a look at the saved level.
EndRegionOpen(next) ==
  /\ At("run")
  /\ nest[top] > 0
  /\ nest' = [nest EXCEPT ![top] = @ - 1]
  /\ saved' = [saved EXCEPT ![top][nest[top]] = FALSE]
  /\ after' = [after EXCEPT ![top] = next]
  /\ GoTo("enable")
  /\ UNCHANGED <<vcpuVars, pending, top, vector, closed>>

\* l4vcpu_irq_restore (i386_enable_interrupts): the innermost region ends and
\* interrupts open only if its saved level had them open.  With next = "flash"
\* it is the first half of i386_flash_interrupts.
EndRegion(next) ==
  /\ At("run")
  /\ nest[top] > 0
  /\ nest' = [nest EXCEPT ![top] = @ - 1]
  /\ saved' = [saved EXCEPT ![top][nest[top]] = FALSE]
  /\ after' = [after EXCEPT ![top] = next]
  /\ GoTo(IF saved[top][nest[top]] THEN "enable" ELSE next)
  /\ UNCHANGED <<vcpuVars, pending, top, vector, closed>>

IrqRestore == EndRegion("run")
IrqFlash   == EndRegion("flash")

\* i386_open_interrupts, by _CPU_ISR_Set_level(0)
IrqOpen ==
  /\ At("run") /\ top = 1 /\ nest[1] = 0
  /\ closed' = FALSE
  /\ after' = [after EXCEPT ![1] = "run"]
  /\ GoTo("enable")
  /\ UNCHANGED <<vcpuVars, pending, top, nest, saved, vector>>

\* i386_close_interrupts, by _CPU_ISR_Set_level(1)
IrqClose ==
  /\ At("run") /\ top = 1 /\ nest[1] = 0
  /\ state' = state \ {"irq"}
  /\ closed' = TRUE
  /\ UNCHANGED <<savedState, resumeTo, trapno, label, pending, top, pc,
                 nest, saved, after, vector>>

\* l4vcpu_wait_for_event, one turn of _CPU_Thread_Idle_body; event delivery
\* is off when it returns.
WaitForEvent ==
  /\ At("run") /\ top = 1 /\ nest[1] = 0
  /\ closed' = TRUE
  /\ after' = [after EXCEPT ![1] = "idle"]
  /\ GoTo("wait")
  /\ UNCHANGED <<vcpuVars, pending, top, nest, saved, vector>>

\* l4vcpu_irq_enable: set F_IRQ ...
EnableSet ==
  /\ At("enable")
  /\ state' = state \cup {"irq"}
  /\ GoTo("check")
  /\ UNCHANGED <<savedState, resumeTo, trapno, label, pending, top, guestVars>>

\* Mutant of EnableCheck: sticky_flags is not looked at.
EnableUnchecked ==
  /\ At("check")
  /\ GoTo(after[top])
  /\ UNCHANGED <<vcpuVars, pending, top, guestVars>>

\* ... then look whether a message was queued while it was clear.
EnableCheck ==
  /\ At("check")
  /\ GoTo(IF IrqPending THEN "wait" ELSE after[top])
  /\ UNCHANGED <<vcpuVars, pending, top, guestVars>>

\* Mutant of WaitDisable: receives with interrupts open.
WaitOpen ==
  /\ At("wait")
  /\ GoTo("recv")
  /\ UNCHANGED <<vcpuVars, pending, top, guestVars>>

\* l4vcpu_wait clears F_IRQ before it receives ...
WaitDisable ==
  /\ At("wait")
  /\ state' = state \ {"irq"}
  /\ GoTo("recv")
  /\ UNCHANGED <<savedState, resumeTo, trapno, label, pending, top, guestVars>>

\* ... a message, and calls the handler for it.
WaitReceive(i) ==
  /\ At("recv")
  /\ top < MaxFrames
  /\ i \in pending
  /\ pending' = pending \ {i}
  /\ label' = i
  /\ top' = top + 1
  /\ pc' = [pc EXCEPT ![top] = "callback", ![top + 1] = "dispatch"]
  /\ UNCHANGED <<state, savedState, resumeTo, trapno, guestVars>>

\* The receive of l4vcpu_irq_enable has timeout 0 and may find nothing.
WaitTimeout ==
  /\ At("recv")
  /\ after[top] # "idle"
  /\ ~IrqPending
  /\ GoTo("enable")
  /\ UNCHANGED <<vcpuVars, pending, top, guestVars>>

-----------------------------------------------------------------------------
(* handler.c *)

\* Mutant of HandlerEntry: turns exceptions on where it should keep them.
HandlerEntryExceptions ==
  /\ At("entry")
  /\ state' = state \cup {"exc"}
  /\ GoTo(IF trapno = "irq" THEN "dispatch" ELSE "resume")
  /\ UNCHANGED <<savedState, resumeTo, trapno, label, pending, top, guestVars>>

\* l4rtems_handler keeps only F_EXCEPTIONS in the state word and looks at the
\* entry reason.  What is no interrupt is reported and resumed.
HandlerEntry ==
  /\ At("entry")
  /\ state' = state \cap {"exc"}
  /\ GoTo(IF trapno = "irq" THEN "dispatch" ELSE "resume")
  /\ UNCHANGED <<savedState, resumeTo, trapno, label, pending, top, guestVars>>

\* l4rtems_irq_handler takes the label for the vector and runs its handlers.
IrqDispatch ==
  /\ At("dispatch")
  /\ vector' = [vector EXCEPT ![top] = label]
  /\ GoTo("run")
  /\ UNCHANGED <<vcpuVars, pending, top, nest, saved, after, closed>>

\* Mutant of CallbackReturn: l4vcpu_irq_enable does not look again after it
\* has handled one message, and the caller of l4vcpu_wait is not told apart.
CallbackReturnOnce ==
  /\ At("run") /\ top > 1 /\ nest[top] = 0
  /\ ~Upcall(top)
  /\ vector' = [vector EXCEPT ![top] = NoIrq]
  /\ top' = top - 1
  /\ pc' = [pc EXCEPT ![top] = "none", ![top - 1] = after[top - 1]]
  /\ UNCHANGED <<vcpuVars, pending, nest, saved, after, closed>>

\* The handlers return: to l4vcpu_wait and from there to its caller ...
CallbackReturn ==
  /\ At("run") /\ top > 1 /\ nest[top] = 0
  /\ ~Upcall(top)
  /\ vector' = [vector EXCEPT ![top] = NoIrq]
  /\ top' = top - 1
  /\ pc' = [pc EXCEPT ![top] = "none",
                      ![top - 1] = IF after[top - 1] = "idle"
                                   THEN "run" ELSE "enable"]
  /\ UNCHANGED <<vcpuVars, pending, nest, saved, after, closed>>

\* ... or to the end of l4rtems_handler.
UpcallReturn ==
  /\ At("run") /\ top > 1 /\ nest[top] = 0
  /\ Upcall(top)
  /\ vector' = [vector EXCEPT ![top] = NoIrq]
  /\ GoTo("resume")
  /\ UNCHANGED <<vcpuVars, pending, top, nest, saved, after, closed>>

-----------------------------------------------------------------------------
\* What the guest must do once it is inside a macro or a handler.
GuestStep ==
  \/ At("flash") /\ IrqSave
  \/ IrqDisable
  \/ EnableSet
  \/ EnableCheck
  \/ WaitDisable
  \/ WaitTimeout
  \/ HandlerEntry
  \/ IrqDispatch
  \/ ResumeReturn

\* What thread code and handler bodies do when they choose to.
ProgramStep ==
  \/ At("run") /\ IrqSave
  \/ IrqRestore
  \/ IrqFlash
  \/ IrqOpen
  \/ IrqClose
  \/ WaitForEvent
  \/ CallbackReturn
  \/ UpcallReturn

Deliver(i) == WaitReceive(i) \/ ResumeRedeliver(i)

Next ==
  \/ GuestStep
  \/ ProgramStep
  \/ \E i \in Irq : Fire(i) \/ Deliver(i)
  \/ Trap

Spec == Init /\ [][Next]_vars

\* Straight-line code proceeds, whatever exceptions it takes; interrupt-free regions
\* and handler bodies end; a thread that closed interrupts opens them or waits; the
\* kernel's queue passes no message over for ever.
Fairness ==
  /\ \A d \in Frame : SF_vars(GuestStep /\ top = d)
  /\ \A k \in 1..MaxNest : SF_vars(IrqRestore /\ nest[top] = k)
  /\ SF_vars(CallbackReturn \/ UpcallReturn)
  /\ SF_vars(IrqOpen \/ WaitForEvent)
  /\ \A i \in Irq : SF_vars(Deliver(i))

FairSpec == Spec /\ Fairness

-----------------------------------------------------------------------------
(* Properties *)

\* _CPU_ISR_Get_level
ISR_Get_level == IF "irq" \in state THEN 0 ELSE 1

\* The thread-level program is where it asked not to be interrupted: inside a
\* region or closed, and not in the part of a macro that opens interrupts.
Opening == {"enable", "check", "wait", "recv", "callback"}
Masked  == (nest[1] > 0 \/ closed) /\ pc[1] \notin Opening

\* The interrupt being served, from the moment the kernel hands it over: still
\* in vcpu->i.label, or taken from there by l4rtems_irq_handler.
Serving ==
  IF \/ pc[2] = "dispatch"
     \/ pc[2] = "entry" /\ trapno = "irq"
  THEN label
  ELSE vector[2]

\* Every variable has its type.
TypeOK ==
  /\ state \subseteq Flag
  /\ savedState \subseteq Flag
  /\ resumeTo \in Frame
  /\ trapno \in {"irq", "trap"}
  /\ label \in Irq \cup {NoIrq}
  /\ pending \subseteq Irq
  /\ top \in Frame
  /\ pc \in [Frame -> Pc]
  /\ nest \in [Frame -> 0..MaxNest]
  /\ saved \in [Frame -> [1..MaxNest -> BOOLEAN]]
  /\ after \in [Frame -> {"run", "flash", "idle"}]
  /\ vector \in [Frame -> Irq \cup {NoIrq}]
  /\ closed \in BOOLEAN

\* No interrupt handler starts while another one runs, although handler bodies
\* use the same macros as threads, and a handler may be a callback or an upcall.
OneHandler ==
  \A d, e \in 2..top : vector[d] # NoIrq /\ vector[e] # NoIrq => d = e

\* The vCPU area saves the registers of one interrupted frame only, and that
\* frame is the one below the upcall: no second upcall overwrites them before
\* vcpu_resume_commit has used them.
SaveAreaIntact ==
  \A d \in 2..top : Upcall(d) => resumeTo = d - 1

\* Code that runs with F_IRQ set leaves no message in the queue: one may be
\* found there only on the way from setting F_IRQ to the receive that
\* l4vcpu_irq_enable makes when sticky_flags says so, or to the idle receive.
NoLostIrq == "irq" \in state /\ IrqPending => At("check") \/ At("wait")

\* Thread code always sees the interrupt level it asked for, whatever
\* interrupts, exceptions and nested regions came between.
LevelKept ==
  top = 1 /\ At("run") =>
    ISR_Get_level = IF nest[1] = 0 /\ ~closed THEN 0 ELSE 1

\* A handler never runs inside an interrupt-free region of the thread code,
\* nor while that code has closed interrupts.
RegionsNotInterrupted ==
  (\E d \in 2..top : vector[d] # NoIrq) => ~Masked

\* An interrupt that found the vCPU closed is dispatched in the end.
PendingDispatched ==
  \A i \in Irq : i \in pending ~> \E d \in Frame : vector[d] = i

\* The calls together deliver interrupts as the abstract specification says.
Delivery == INSTANCE IrqDelivery
              WITH raised <- pending, serving <- Serving, masked <- Masked
DeliverySpec == Delivery!FairSpec

-----------------------------------------------------------------------------
(* The inductive invariant behind the safety properties: VcpuIrqProofs      *)
(* proves it.                                                               *)

Body == {"run", "clear", "flash"}     \* thread code or a handler body

\* Upcalls are on top of the stack, callbacks come from thread level only, and
\* a third frame can only be an exception taken by a callback's handler.
StackShape ==
  /\ top <= 3
  /\ \A d \in Frame : pc[d] = "none" <=> d > top
  /\ pc[1] \notin {"entry", "dispatch", "resume"}
  /\ \A d \in Frame : pc[d] = "callback" => d = 1 /\ top > 1
  /\ top = 2 /\ pc[1] = "callback" => pc[2] \in Body \cup {"dispatch"}
  /\ top = 2 /\ pc[1] # "callback" =>
       /\ resumeTo = 1
       /\ pc[2] \in Body \cup {"entry", "dispatch", "resume"}
       /\ trapno = "trap" => pc[2] \in {"entry", "resume"}
  /\ top = 3 =>
       /\ resumeTo = 2 /\ trapno = "trap"
       /\ pc[1] = "callback"
       /\ pc[2] \in Body \cup {"dispatch"}
       /\ pc[3] \in {"entry", "resume"}

\* Only a handler body is in regions or dispatches a vector.
HandlerData ==
  \A d \in Frame \ {1} :
    /\ pc[d] = "clear" => nest[d] < MaxNest
    /\ pc[d] \notin Body => nest[d] = 0 /\ vector[d] = NoIrq
    /\ \A k \in 1..MaxNest : ~saved[d][k]

\* The state word the thread level will see when the frames above are gone.
ThreadState == IF top > 1 /\ Upcall(top) THEN savedState ELSE state
ThreadOpen  == "irq" \in ThreadState

\* Above the thread level interrupts are off, in an upcall exceptions too; an
\* interrupt's upcall was possible only because they were on.
HandlersClosed ==
  /\ top > 1 /\ Upcall(top) => state = {}
  /\ top > 1 => "irq" \notin state
  /\ top = 2 /\ pc[1] # "callback" /\ trapno = "irq" => "irq" \in savedState

\* Only the outermost level of the thread code can have been saved as open,
\* and it was unless the thread had closed interrupts.
SavedLevels ==
  /\ \A k \in 2..MaxNest : ~saved[1][k]
  /\ nest[1] > 0 => (saved[1][1] <=> ~closed)
  /\ pc[1] = "clear" =>
       nest[1] < MaxNest /\ (saved[1][nest[1] + 1] <=> ThreadOpen)

\* What F_IRQ is at each place of the thread code.
ThreadLevels ==
  /\ vector[1] = NoIrq
  /\ pc[1] = "flash" => nest[1] < MaxNest
  /\ pc[1] \in Body => (ThreadOpen <=> nest[1] = 0 /\ ~closed)
  /\ pc[1] \in Opening =>
       /\ nest[1] = 0
       /\ closed <=> after[1] = "idle"
  /\ pc[1] \in {"enable", "check"} => after[1] # "idle"
  /\ pc[1] = "check" => ThreadOpen
  /\ pc[1] \in {"recv", "callback"} => ~ThreadOpen

Inv ==
  /\ StackShape
  /\ HandlerData
  /\ HandlersClosed
  /\ SavedLevels
  /\ ThreadLevels
  /\ NoLostIrq
=============================================================================
