---------------------------- MODULE IrqDelivery ----------------------------
(***************************************************************************)
(* What the RTEMS port promises about interrupts, whatever the vCPU calls  *)
(* behind it: every interrupt that is raised is served, one at a time, and *)
(* never inside a region the program has masked.  An interrupt raised      *)
(* again before it was accepted is the same interrupt (the L4 IRQ object   *)
(* holds one).  VcpuIrq implements this specification.                     *)
(***************************************************************************)
CONSTANTS
  Irq,      \* interrupt labels
  NoIrq     \* "no interrupt"

VARIABLES
  raised,   \* interrupts raised and not accepted yet
  serving,  \* the interrupt whose handler runs, or NoIrq
  masked    \* the program is in an interrupt-free region

vars == <<raised, serving, masked>>

Init ==
  /\ raised = {}
  /\ serving = NoIrq
  /\ masked = FALSE

\* A source raises its interrupt; a second one before acceptance is absorbed.
Raise(i) ==
  /\ i \notin raised
  /\ raised' = raised \cup {i}
  /\ UNCHANGED <<serving, masked>>

\* A raised interrupt is accepted and its handler starts.
Accept(i) ==
  /\ ~masked
  /\ serving = NoIrq
  /\ i \in raised
  /\ raised' = raised \ {i}
  /\ serving' = i
  /\ UNCHANGED masked

\* The interrupt meets an open program and is served at once.
Interrupt(i) ==
  /\ ~masked
  /\ serving = NoIrq
  /\ i \notin raised
  /\ serving' = i
  /\ UNCHANGED <<raised, masked>>

\* The handler ends; a program that waited for it may find itself masked.
Finish ==
  /\ serving # NoIrq
  /\ serving' = NoIrq
  /\ masked' \in {masked, TRUE}
  /\ UNCHANGED raised

\* The program enters or leaves an interrupt-free region; it cannot do so
\* while a handler is on top of it.
Mask ==
  /\ serving = NoIrq
  /\ ~masked
  /\ masked' = TRUE
  /\ UNCHANGED <<raised, serving>>

Unmask ==
  /\ serving = NoIrq
  /\ masked
  /\ masked' = FALSE
  /\ UNCHANGED <<raised, serving>>

Next ==
  \/ \E i \in Irq : Raise(i) \/ Accept(i) \/ Interrupt(i)
  \/ Finish
  \/ Mask
  \/ Unmask

\* Handlers end, masked regions end, and no raised interrupt is passed over
\* for ever.
Fairness ==
  /\ WF_vars(Finish)
  /\ SF_vars(Unmask)
  /\ \A i \in Irq : SF_vars(Accept(i))

Spec == Init /\ [][Next]_vars
FairSpec == Spec /\ Fairness
=============================================================================
