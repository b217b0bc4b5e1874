---------------------------- MODULE VcpuThreads ----------------------------
(***************************************************************************)
(* RTEMS threads on the one vCPU: what _CPU_Context_switch (cpu_asm.S)     *)
(* does and does not carry from thread to thread when an interrupt handler *)
(* dispatches.  l4rtems_irq_handler calls the handlers of the vector       *)
(* directly, without the dispatch-disable level that _ISR_Handler of       *)
(* irq_asm.S would raise, so rtems_clock_tick (external) switches threads  *)
(* from inside l4rtems_handler.  The interrupted frame's registers and its *)
(* state word wait in the vCPU area, of which there is one, and the state  *)
(* word is no part of a thread's context.                                  *)
(*                                                                         *)
(* The calls that VcpuIrq takes apart are single steps here.               *)
(***************************************************************************)
EXTENDS Naturals, Sequences

CONSTANTS
  Thread,
  first,     \* the thread that runs at the start; the others are new
  MaxDepth   \* bound: frames on a thread's stack

VARIABLES
  executing,   \* the thread whose stack the vCPU is on
  stack,       \* per thread: its frames, the innermost last
  open,        \* F_IRQ in vcpu->state
  savedOpen,   \* F_IRQ in vcpu->saved_state
  area         \* vcpu->r: the frame whose registers the kernel saved there

vars == <<executing, stack, open, savedOpen, area>>

\* A frame is a thread that has not begun, thread code, an interrupt handler,
\* or l4rtems_handler about to resume.
FrameKind == {"new", "run", "handler", "resume"}

TypeOK ==
  /\ executing \in Thread
  /\ stack \in [Thread -> UNION {[1..n -> FrameKind] : n \in 1..MaxDepth}]
  /\ open \in BOOLEAN
  /\ savedOpen \in BOOLEAN
  /\ area \in [thread : Thread, depth : 1..MaxDepth]

Depth(t) == Len(stack[t])
Innermost(kind) == stack[executing][Depth(executing)] = kind
Become(kind) == stack' = [stack EXCEPT ![executing][Depth(executing)] = kind]

Init ==
  /\ executing = first
  /\ stack = [t \in Thread |-> IF t = first THEN <<"run">> ELSE <<"new">>]
  /\ open = TRUE
  /\ savedOpen = TRUE
  /\ area = [thread |-> first, depth |-> 1]

\* The kernel interrupts whatever the vCPU runs (external).
Interrupt ==
  /\ open
  /\ ~Innermost("new")
  /\ Depth(executing) < MaxDepth
  /\ area' = [thread |-> executing, depth |-> Depth(executing)]
  /\ savedOpen' = open
  /\ open' = FALSE
  /\ stack' = [stack EXCEPT ![executing] = Append(@, "handler")]
  /\ UNCHANGED executing

\* _CPU_Context_switch, called by _Thread_Dispatch: from thread code that gives
\* up the processor, or from rtems_clock_tick in a handler.  eflags travels with
\* the thread, but a vCPU's interrupt flag is in vcpu->state, which stays.
Switch(t) ==
  /\ Innermost("run") \/ Innermost("handler")
  /\ t # executing
  /\ executing' = t
  /\ UNCHANGED <<stack, open, savedOpen, area>>

\* _Thread_Handler of a new thread: _ISR_Set_level(0), its initial level.
Begin ==
  /\ Innermost("new")
  /\ Become("run")
  /\ open' = TRUE
  /\ UNCHANGED <<executing, savedOpen, area>>

\* The handlers of the vector are done.
HandlerReturn ==
  /\ Innermost("handler")
  /\ Become("resume")
  /\ UNCHANGED <<executing, open, savedOpen, area>>

\* l4_thread_vcpu_resume_commit (external) continues with the registers in
\* vcpu->r and the state word in saved_state, whoever left them there: the
\* frames above that one are gone.
Resume ==
  /\ Innermost("resume")
  /\ executing' = area.thread
  /\ stack' = [stack EXCEPT ![area.thread] = SubSeq(@, 1, area.depth)]
  /\ open' = savedOpen
  /\ UNCHANGED <<savedOpen, area>>

Next ==
  \/ Interrupt
  \/ \E t \in Thread : Switch(t)
  \/ Begin
  \/ HandlerReturn
  \/ Resume

Spec == Init /\ [][Next]_vars

\* "After ISR execution a _Thread_Dispatch() may happen and it is therefore
\* necessary to save the [...] registers to be restored when control is
\* returned to the interrupted task" (cpu.h): an interrupt handler that ends
\* resumes the frame it interrupted, in spite of the dispatches in between.
ResumesInterrupted ==
  Innermost("resume") =>
    area = [thread |-> executing, depth |-> Depth(executing) - 1]
=============================================================================
