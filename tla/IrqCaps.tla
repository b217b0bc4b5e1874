------------------------------ MODULE IrqCaps ------------------------------
(***************************************************************************)
(* Which interrupt object stands for which vector: the wrapper's map       *)
(* irqCaps with l4rtems_requestIrq and l4rtems_detachIrq (wrapper_1.cc),   *)
(* and its callers in the BSP, bsp_interrupt_vector_enable and _disable    *)
(* and the functions that took the place of the 8259's (irq.c).  The       *)
(* wrapper's main thread records the timer's object while the vCPU already *)
(* runs.  RTEMS' handler chains, the I/O server and the kernel are         *)
(* external.  A call of the vCPU is one step: it runs with interrupts      *)
(* closed and shares irqCaps with the main thread's one insert only.       *)
(***************************************************************************)
EXTENDS Naturals

CONSTANTS
  Line,        \* interrupt lines of devices
  Clock,       \* vector 0, BSP_PERIODIC_TIMER
  Object,      \* capability slots for interrupt objects
  None,        \* no slot, no vector
  MaxHandlers  \* bound: handlers chained to a vector

Vector == Line \cup {Clock}

ASSUME VectorAssumption == Clock \notin Line /\ None \notin Vector
ASSUME ObjectAssumption == None \notin Object
ASSUME HandlersAssumption == MaxHandlers \in Nat \ {0}

VARIABLES
  irqCaps,   \* per vector: the slot the map records, None without an entry
  used,      \* slots taken from cap_alloc; none is ever given back
  held,      \* I/O server: per line, the object bound to it
  label,     \* kernel: per object, the label it is attached to the vCPU with
  handlers,  \* irq-generic: per vector, how many handlers are chained
  asked,     \* history: per line, the last answered call asked for interrupts
  service    \* main thread in startTimerService: its slot and what is next

wrapperVars == <<irqCaps, used, held, label>>
vars == <<wrapperVars, handlers, asked, service>>

TypeOK ==
  /\ irqCaps \in [Vector -> Object \cup {None}]
  /\ used \subseteq Object
  /\ held \in [Line -> Object \cup {None}]
  /\ label \in [Object -> Vector \cup {None}]
  /\ handlers \in [Vector -> 0..MaxHandlers]
  /\ asked \in [Line -> BOOLEAN]
  /\ service \in [slot : Object \cup {None}, next : {"create", "insert", "end"}]

\* main is past run_thread, and the vCPU runs.
Init ==
  /\ irqCaps = [v \in Vector |-> None]
  /\ used = {}
  /\ held = [l \in Line |-> None]
  /\ label = [o \in Object |-> None]
  /\ handlers = [v \in Vector |-> 0]
  /\ asked = [l \in Line |-> FALSE]
  /\ service = [slot |-> None, next |-> "create"]

-----------------------------------------------------------------------------
(* The main thread *)

\* startTimerService takes a slot for the timer's object, or gives up.
CreateTimer ==
  /\ service.next = "create"
  /\ \/ /\ used = Object
        /\ service' = [service EXCEPT !.next = "end"]
        /\ UNCHANGED used
     \/ \E o \in Object \ used :
          /\ used' = used \cup {o}
          /\ service' = [slot |-> o, next |-> "insert"]
  /\ UNCHANGED <<irqCaps, held, label, handlers, asked>>

\* It records the object whether or not the kernel has created it.
InsertTimer ==
  /\ service.next = "insert"
  /\ irqCaps' = [irqCaps EXCEPT ![Clock] = IF @ = None THEN service.slot ELSE @]
  /\ service' = [service EXCEPT !.next = "end"]
  /\ UNCHANGED <<used, held, label, handlers, asked>>

-----------------------------------------------------------------------------
(* The calls into the wrapper *)

\* irqCaps.find(v)->second, which nobody compares with end(): for a vector
\* without an entry it is whatever lies behind the map, here any slot or none.
Found(v) ==
  IF irqCaps[v] # None THEN {irqCaps[v]} ELSE used \cup {None}

\* l4rtems_requestIrq(0): attach the timer's object.  The result of the kernel
\* is only printed; an object that is attached already stays as it is.
RequestClock ==
  /\ \/ \E o \in Found(Clock) \ {None} :
          /\ label[o] = None
          /\ label' = [label EXCEPT ![o] = Clock]
     \/ UNCHANGED label
  /\ UNCHANGED <<irqCaps, used, held>>

\* l4rtems_requestIrq of a line fails: there is no slot, or the I/O server
\* refuses, or the kernel refuses to attach and the line stays bound.
RequestRefused(l) ==
  /\ \/ used = Object /\ UNCHANGED <<used, held>>
     \/ \E o \in Object \ used :
          /\ used' = used \cup {o}
          /\ \/ UNCHANGED held
             \/ held[l] = None /\ held' = [held EXCEPT ![l] = o]
  /\ UNCHANGED <<irqCaps, label>>

\* It succeeds; std::map::insert leaves an entry that is there alone.
RequestGranted(l) ==
  \E o \in Object \ used :
    /\ held[l] = None
    /\ used' = used \cup {o}
    /\ held' = [held EXCEPT ![l] = o]
    /\ label' = [label EXCEPT ![o] = l]
    /\ irqCaps' = [irqCaps EXCEPT ![l] = IF @ = None THEN o ELSE @]

\* Mutant of DetachIrq: the entry stays.
DetachKeepsEntry(v) ==
  /\ \E o \in Found(v) :
       /\ label' = IF o = None THEN label ELSE [label EXCEPT ![o] = None]
       /\ \/ UNCHANGED held
          \/ /\ v \in Line /\ held[v] = o
             /\ held' = [held EXCEPT ![v] = None]
  /\ UNCHANGED <<irqCaps, used>>

\* Mutant of DetachIrq: the map is read after the entry was erased.
DetachErasedFirst(v) ==
  /\ \E o \in used \cup {None} :
       /\ label' = IF o = None THEN label ELSE [label EXCEPT ![o] = None]
       /\ \/ UNCHANGED held
          \/ /\ v \in Line /\ held[v] = o
             /\ held' = [held EXCEPT ![v] = None]
  /\ irqCaps' = [irqCaps EXCEPT ![v] = None]
  /\ UNCHANGED used

\* l4rtems_detachIrq: forget the entry, detach the object, give the line back.
\* The results are only printed: the I/O server may keep the line.  (Vector 0
\* has no line; l4rtems_timer_stop is in ClockTick.)
DetachIrq(v) ==
  /\ \E o \in Found(v) :
       /\ label' = IF o = None THEN label ELSE [label EXCEPT ![o] = None]
       /\ \/ UNCHANGED held
          \/ /\ v \in Line /\ held[v] = o
             /\ held' = [held EXCEPT ![v] = None]
  /\ irqCaps' = [irqCaps EXCEPT ![v] = None]
  /\ UNCHANGED used

-----------------------------------------------------------------------------
(* The callers in the BSP *)

\* bsp_interrupt_vector_enable and its status.
VectorEnable(v, ok) ==
  \/ v = Clock /\ ok /\ RequestClock
  \/ v \in Line /\ ok /\ RequestGranted(v)
  \/ v \in Line /\ ~ok /\ RequestRefused(v)

Ask(v, wanted) ==
  asked' = IF v \in Line THEN [asked EXCEPT ![v] = wanted] ELSE asked

\* rtems_interrupt_handler_install (external) enables the vector with the first
\* handler of its chain, which stays chained when that fails.
Install(v) ==
  /\ handlers[v] < MaxHandlers
  /\ handlers' = [handlers EXCEPT ![v] = @ + 1]
  /\ \/ handlers[v] > 0 /\ UNCHANGED <<wrapperVars, asked>>
     \/ handlers[v] = 0 /\ VectorEnable(v, TRUE) /\ Ask(v, TRUE)
     \/ handlers[v] = 0 /\ VectorEnable(v, FALSE) /\ UNCHANGED asked
  /\ UNCHANGED service

\* Mutant of Remove: the chain is not looked through.
RemoveUnchecked(v) ==
  /\ handlers' = [handlers EXCEPT ![v] = @ - 1]
  /\ \/ handlers[v] > 1 /\ UNCHANGED <<wrapperVars, asked>>
     \/ handlers[v] <= 1 /\ DetachIrq(v) /\ Ask(v, FALSE)
  /\ UNCHANGED service

\* rtems_interrupt_handler_remove (external) disables it with the last one:
\* bsp_interrupt_vector_disable.
Remove(v) ==
  /\ handlers[v] > 0
  /\ handlers' = [handlers EXCEPT ![v] = @ - 1]
  /\ \/ handlers[v] > 1 /\ UNCHANGED <<wrapperVars, asked>>
     \/ handlers[v] = 1 /\ DetachIrq(v) /\ Ask(v, FALSE)
  /\ UNCHANGED service

\* BSP_irq_enable_at_i8259s, "handle calls from anywhere": it drops the status.
IrqEnable(v) ==
  /\ \E ok \in BOOLEAN : VectorEnable(v, ok)
  /\ Ask(v, TRUE)
  /\ UNCHANGED <<handlers, service>>

\* BSP_irq_disable_at_i8259s, also of a vector that is not enabled.
IrqDisable(v) ==
  /\ DetachIrq(v)
  /\ Ask(v, FALSE)
  /\ UNCHANGED <<handlers, service>>

Next ==
  \/ CreateTimer
  \/ InsertTimer
  \/ \E v \in Vector :
       Install(v) \/ Remove(v) \/ IrqEnable(v) \/ IrqDisable(v)

Spec == Init /\ [][Next]_vars

-----------------------------------------------------------------------------
(* Properties *)

\* A device that asserts the line interrupts the vCPU with the line's vector.
Propagates(l) == \E o \in Object : held[l] = o /\ label[o] = l

\* The object that delivers a line's vector is the one irqCaps records and the
\* one the I/O server has bound to the line, so that l4rtems_detachIrq can find
\* it, whatever failed before and whatever was read behind the map.
Recorded ==
  \A l \in Line, o \in Object :
    label[o] = l => irqCaps[l] = o /\ held[l] = o

\* "After calling this function, even if the device asserts the interrupt line
\* it will not be propagated further to the processor" (irq.h, of
\* BSP_irq_disable_at_i8259s).
DisableSilences == \A l \in Line : ~asked[l] => ~Propagates(l)

-----------------------------------------------------------------------------
(* The inductive invariant behind the properties: IrqCapsProofs proves it.  *)

\* A recorded line is bound to the recorded object, so a request that the I/O
\* server grants finds no entry and std::map::insert records its object.
Bound == \A l \in Line : irqCaps[l] # None => held[l] = irqCaps[l]

\* A line nobody asks for has no entry.
Forgotten == \A l \in Line : ~asked[l] => irqCaps[l] = None

Inv == Recorded /\ Bound /\ Forgotten
=============================================================================
