--------------------------- MODULE IrqCapsProofs ---------------------------
(***************************************************************************)
(* Proofs about IrqCaps for every set of lines and slots and every bound   *)
(* on the handler chains.                                                  *)
(***************************************************************************)
EXTENDS IrqCaps, TLAPS

IInv == TypeOK /\ Inv

USE VectorAssumption, ObjectAssumption, HandlersAssumption
USE DEF Vector, wrapperVars

\* What the wrapper's map, the I/O server and the kernel hold together.
MapOK ==
  /\ irqCaps \in [Vector -> Object \cup {None}]
  /\ used \subseteq Object
  /\ held \in [Line -> Object \cup {None}]
  /\ label \in [Object -> Vector \cup {None}]
  /\ Recorded
  /\ Bound

\* A vector that is looked up yields a slot of the wrapper's, or none.
LEMMA FoundSlot == ASSUME MapOK, NEW v \in Vector PROVE Found(v) \subseteq Object \cup {None}
  BY DEF MapOK, Found

\* A request for vector 0 attaches no object to a line's vector.
LEMMA RequestClockMap == ASSUME MapOK, RequestClock PROVE MapOK' /\ UNCHANGED irqCaps
<1>1. Found(Clock) \subseteq Object \cup {None}
  BY FoundSlot
<1>2. label' \in [Object -> Vector \cup {None}]
  BY <1>1 DEF RequestClock, MapOK
<1>3. ASSUME NEW l \in Line, NEW o \in Object, label'[o] = l
      PROVE label[o] = l
  BY <1>1, <1>3 DEF RequestClock, MapOK
<1>4. QED
  BY <1>2, <1>3 DEF MapOK, Recorded, Bound, RequestClock

\* A request that fails leaves the attached objects and the map as they are,
\* and the lines that are bound as well.
LEMMA RequestRefusedMap ==
  ASSUME MapOK, NEW l \in Line, RequestRefused(l)
  PROVE MapOK' /\ UNCHANGED irqCaps
<1>1. used' \subseteq Object /\ held' \in [Line -> Object \cup {None}]
  BY DEF RequestRefused, MapOK
<1>2. ASSUME NEW k \in Line, held[k] # None PROVE held'[k] = held[k]
  BY <1>2 DEF RequestRefused, MapOK
<1>3. QED
  BY <1>1, <1>2 DEF MapOK, Recorded, Bound, RequestRefused

\* A request that is granted records the one object it attaches: a line that
\* was not bound had none attached.
LEMMA RequestGrantedMap ==
  ASSUME MapOK, NEW l \in Line, RequestGranted(l)
  PROVE MapOK' /\ \A v \in Vector \ {l} : irqCaps'[v] = irqCaps[v]
  BY DEF RequestGranted, MapOK, Recorded, Bound

\* A detach forgets the vector's entry, and with it the object that delivered
\* the vector; detaching any other object breaks no record.
LEMMA DetachMap ==
  ASSUME MapOK, NEW v \in Vector, DetachIrq(v)
  PROVE /\ MapOK'
        /\ irqCaps' = [irqCaps EXCEPT ![v] = None]
<1>1. PICK o \in Found(v) :
        /\ label' = IF o = None THEN label ELSE [label EXCEPT ![o] = None]
        /\ \/ UNCHANGED held
           \/ /\ v \in Line /\ held[v] = o
              /\ held' = [held EXCEPT ![v] = None]
  BY DEF DetachIrq
<1>2. o \in Object \cup {None}
  BY FoundSlot
<1>3. irqCaps' = [irqCaps EXCEPT ![v] = None] /\ used' = used
  BY DEF DetachIrq
<1>4. /\ label' \in [Object -> Vector \cup {None}]
      /\ held' \in [Line -> Object \cup {None}]
      /\ irqCaps' \in [Vector -> Object \cup {None}]
  BY <1>1, <1>2, <1>3 DEF MapOK
<1>5. ASSUME NEW l \in Line, NEW p \in Object, label'[p] = l
      PROVE irqCaps'[l] = p /\ held'[l] = p
  <2>1. p # o /\ label[p] = l
    BY <1>1, <1>2, <1>5 DEF MapOK
  <2>2. irqCaps[l] = p /\ held[l] = p
    BY <2>1 DEF MapOK, Recorded
  <2>3. l # v
    BY <1>1, <2>1, <2>2 DEF Found
  <2>4. QED
    BY <1>1, <1>3, <2>2, <2>3 DEF MapOK
<1>6. ASSUME NEW l \in Line, irqCaps'[l] # None
      PROVE held'[l] = irqCaps'[l]
  BY <1>1, <1>3, <1>6 DEF MapOK, Bound
<1>7. QED
  BY <1>3, <1>4, <1>5, <1>6 DEF MapOK, Recorded, Bound

\* The start state satisfies the invariant.
LEMMA InitInv == Init => IInv
  BY DEF Init, IInv, TypeOK, Inv, Recorded, Bound, Forgotten

\* The two parts of the invariant that concern the map, and the rest of it.
LEMMA MapInv == TypeOK /\ Inv => MapOK
  BY DEF TypeOK, Inv, MapOK

\* The main thread touches no line.
LEMMA MainThreadInv == ASSUME IInv, CreateTimer \/ InsertTimer PROVE IInv'
<1>1. CASE CreateTimer
  BY <1>1 DEF CreateTimer, IInv, TypeOK, Inv, Recorded, Bound, Forgotten
<1>2. CASE InsertTimer
  BY <1>2 DEF InsertTimer, IInv, TypeOK, Inv, Recorded, Bound, Forgotten
<1>3. QED
  BY <1>1, <1>2

\* Enabling a vector makes an entry for that vector only, and none when it fails.
LEMMA EnableMap ==
  ASSUME IInv, NEW v \in Vector, NEW ok \in BOOLEAN, VectorEnable(v, ok)
  PROVE  /\ MapOK'
         /\ \A u \in Vector : u # v \/ ~ok => irqCaps'[u] = irqCaps[u]
<1>1. MapOK
  BY MapInv DEF IInv
<1>2. CASE v = Clock /\ ok /\ RequestClock
  BY <1>1, <1>2, RequestClockMap
<1>3. CASE v \in Line /\ ok /\ RequestGranted(v)
  BY <1>1, <1>3, RequestGrantedMap
<1>4. CASE v \in Line /\ ~ok /\ RequestRefused(v)
  BY <1>1, <1>4, RequestRefusedMap
<1>5. QED
  BY <1>2, <1>3, <1>4 DEF VectorEnable

\* A handler that is installed leaves a line with an entry only if it is asked
\* for: by this call, or it was before.
LEMMA InstallInv == ASSUME IInv, NEW v \in Vector, Install(v) PROVE IInv'
<1>1. handlers' \in [Vector -> 0..MaxHandlers] /\ service' = service
  BY DEF Install, IInv, TypeOK
<1>2. CASE handlers[v] > 0 /\ UNCHANGED <<wrapperVars, asked>>
  BY <1>1, <1>2 DEF IInv, TypeOK, Inv, Recorded, Bound, Forgotten
<1>3. CASE VectorEnable(v, TRUE) /\ Ask(v, TRUE)
  <2>1. MapOK' /\ \A u \in Vector : u # v => irqCaps'[u] = irqCaps[u]
    BY <1>3, EnableMap
  <2>2. asked' \in [Line -> BOOLEAN] /\ Forgotten'
    BY <1>3, <2>1 DEF Ask, IInv, TypeOK, Inv, Forgotten
  <2>3. QED
    BY <1>1, <2>1, <2>2 DEF MapOK, IInv, TypeOK, Inv
<1>4. CASE VectorEnable(v, FALSE) /\ UNCHANGED asked
  <2>1. MapOK' /\ \A u \in Vector : irqCaps'[u] = irqCaps[u]
    BY <1>4, EnableMap
  <2>2. Forgotten' /\ asked' \in [Line -> BOOLEAN]
    BY <1>4, <2>1 DEF IInv, TypeOK, Inv, Forgotten
  <2>3. QED
    BY <1>1, <2>1, <2>2 DEF MapOK, IInv, TypeOK, Inv
<1>5. QED
  BY <1>2, <1>3, <1>4 DEF Install

\* BSP_irq_enable_at_i8259s asks for the line, whatever comes of it.
LEMMA IrqEnableInv == ASSUME IInv, NEW v \in Vector, IrqEnable(v) PROVE IInv'
<1>1. PICK ok \in BOOLEAN : VectorEnable(v, ok)
  BY DEF IrqEnable
<1>2. MapOK' /\ \A u \in Vector : u # v => irqCaps'[u] = irqCaps[u]
  BY <1>1, EnableMap
<1>3. asked' \in [Line -> BOOLEAN] /\ Forgotten'
  BY <1>2 DEF IrqEnable, Ask, IInv, TypeOK, Inv, Forgotten
<1>4. handlers' = handlers /\ service' = service
  BY DEF IrqEnable
<1>5. QED
  BY <1>2, <1>3, <1>4 DEF MapOK, IInv, TypeOK, Inv

\* Disabling a vector forgets it.
LEMMA DetachInv ==
  ASSUME IInv, NEW v \in Vector, DetachIrq(v), Ask(v, FALSE),
         handlers' \in [Vector -> 0..MaxHandlers], UNCHANGED service
  PROVE  IInv'
<1>1. MapOK' /\ irqCaps' = [irqCaps EXCEPT ![v] = None]
  BY MapInv, DetachMap DEF IInv
<1>2. asked' \in [Line -> BOOLEAN] /\ Forgotten'
  BY <1>1 DEF Ask, IInv, TypeOK, Inv, Forgotten
<1>3. QED
  BY <1>1, <1>2 DEF MapOK, IInv, TypeOK, Inv

\* The last handler that is removed disables its vector.
LEMMA RemoveInv == ASSUME IInv, NEW v \in Vector, Remove(v) PROVE IInv'
<1>1. handlers' \in [Vector -> 0..MaxHandlers] /\ service' = service
  BY DEF Remove, IInv, TypeOK
<1>2. CASE handlers[v] > 1 /\ UNCHANGED <<wrapperVars, asked>>
  BY <1>1, <1>2 DEF IInv, TypeOK, Inv, Recorded, Bound, Forgotten
<1>3. CASE DetachIrq(v) /\ Ask(v, FALSE)
  BY <1>1, <1>3, DetachInv
<1>4. QED
  BY <1>2, <1>3 DEF Remove

\* Every step keeps the inductive invariant.
LEMMA NextInv == IInv /\ [Next]_vars => IInv'
<1> SUFFICES ASSUME IInv, [Next]_vars PROVE IInv'
  OBVIOUS
<1>1. CASE CreateTimer \/ InsertTimer
  BY <1>1, MainThreadInv
<1>2. ASSUME NEW v \in Vector, Install(v) PROVE IInv'
  BY <1>2, InstallInv
<1>3. ASSUME NEW v \in Vector, Remove(v) PROVE IInv'
  BY <1>3, RemoveInv
<1>4. ASSUME NEW v \in Vector, IrqEnable(v) PROVE IInv'
  BY <1>4, IrqEnableInv
<1>5. ASSUME NEW v \in Vector, IrqDisable(v) PROVE IInv'
  BY <1>5, DetachInv DEF IrqDisable, IInv, TypeOK
<1>6. CASE UNCHANGED vars
  BY <1>6 DEF vars, IInv, TypeOK, Inv, Recorded, Bound, Forgotten
<1>7. QED
  BY <1>1, <1>2, <1>3, <1>4, <1>5, <1>6 DEF Next

\* The inductive invariant holds in every state of every behaviour.
LEMMA Invariance == Spec => []IInv
  BY InitInv, NextInv, PTL DEF Spec

\* Whatever calls fail and whatever is read behind the map, an object that
\* delivers a line's vector is the one recorded and bound for the line.
THEOREM AttachedIsRecorded == Spec => [](TypeOK /\ Recorded)
<1>1. IInv => TypeOK /\ Recorded
  BY DEF IInv, Inv
<1>2. QED
  BY <1>1, Invariance, PTL

\* The wrapper's map, its slots and the chains keep their types, also when find()
\* yields what lies behind the map.
THEOREM TypeCorrect == Spec => []TypeOK
  BY AttachedIsRecorded, PTL

\* A line is silent once BSP_irq_disable_at_i8259s or the removal of its last
\* handler has returned, and until it is asked for again.
THEOREM DisabledIsSilent == Spec => []DisableSilences
<1>1. IInv => DisableSilences
  BY DEF IInv, TypeOK, Inv, Recorded, Forgotten, DisableSilences, Propagates
<1>2. QED
  BY <1>1, Invariance, PTL
=============================================================================
