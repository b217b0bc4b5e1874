--------------------------- MODULE KeyRingProofs ---------------------------
(***************************************************************************)
(* The ring buffer of inch.c is a queue, for every size of the buffer and  *)
(* whatever the handler puts in between the steps of the reader.           *)
(***************************************************************************)
EXTENDS KeyRing, SequenceTheorems, TLAPS

\* The refinement and what it needs of the state.
IInv == RingTypeOK /\ ReaderAhead

-----------------------------------------------------------------------------
(* Places in the ring.                                                      *)

Index == 0 .. kbd_end

\* The reader's index wraps where the handler's does.
LEMMA ReaderWraps ==
  ASSUME NEW x \in Index
  PROVE  (x + 1) % KBD_BUF_SIZE = IF x = kbd_end THEN 0 ELSE x + 1
BY SizeAssumption DEF Index, kbd_end

\* The ring holds at most one character less than it has places, all of them in
\* range and none at the place that is written next.
LEMMA Places ==
  ASSUME NEW first \in Index, NEW last \in Index
  PROVE  /\ Count(first, last) \in Nat
         /\ Count(first, last) < KBD_BUF_SIZE
         /\ Count(first, last) = 0 <=> first = last
         /\ \A i \in 1 .. Count(first, last) :
              Place(first, i) \in Index /\ Place(first, i) # last
         /\ Place(first, 1) = first
BY SizeAssumption DEF Index, kbd_end, Count, Place

\* One more character, at the place that was written.
LEMMA PlacesAfterPut ==
  ASSUME NEW first \in Index, NEW last \in Index, NEW next,
         next = IF last = kbd_end THEN 0 ELSE last + 1
  PROVE  /\ next \in Index
         /\ next # first => /\ Count(first, next) = Count(first, last) + 1
                            /\ Place(first, Count(first, next)) = last
         /\ next = first => Count(first, last) = KBD_BUF_SIZE - 1
BY SizeAssumption DEF Index, kbd_end, Count, Place

\* One character less, the others one place nearer.
LEMMA PlacesAfterTake ==
  ASSUME NEW first \in Index, NEW last \in Index, NEW next, first # last,
         next = IF first = kbd_end THEN 0 ELSE first + 1
  PROVE  /\ next \in Index
         /\ Count(next, last) = Count(first, last) - 1
         /\ \A i \in 1 .. Count(next, last) : Place(next, i) = Place(first, i + 1)
BY SizeAssumption DEF Index, kbd_end, Count, Place

-----------------------------------------------------------------------------
(* Type correctness and what the reader relies on.                          *)

LEMMA Initially == RingInit => IInv
<1> SUFFICES ASSUME RingInit PROVE RingTypeOK /\ ReaderAhead
  BY DEF IInv
<1>1. RingTypeOK
  <2>1. 0 \in 0 .. kbd_end
    BY SizeAssumption DEF kbd_end
  <2>. QED  BY <2>1 DEF RingInit, RingTypeOK
<1>2. Count(kbd_first, kbd_last) = 0
  BY DEF RingInit, Count
<1>3. ReaderAhead
  BY <1>2 DEF RingInit, ReaderAhead
<1>. QED  BY <1>1, <1>3

LEMMA PutKeeps ==
  ASSUME IInv, NEW b \in Char, add_to_queue(b)
  PROVE  IInv'
<1> DEFINE next == IF kbd_last = kbd_end THEN 0 ELSE kbd_last + 1
<1>1. /\ kbd_first \in Index /\ kbd_last \in Index
      /\ kbd_buffer \in [Index -> Char \cup {NoChar}]
  BY DEF IInv, RingTypeOK, Index
<1>2. /\ kbd_buffer' = [kbd_buffer EXCEPT ![kbd_last] = b]
      /\ kbd_last' = IF next # kbd_first THEN next ELSE kbd_last
      /\ kbd_first' = kbd_first /\ reader' = reader /\ c' = c /\ taken' = taken
      /\ overrun' \in BOOLEAN
  BY DEF add_to_queue, IInv, RingTypeOK
<1>3. next \in Index
  BY <1>1, PlacesAfterPut
<1>4. RingTypeOK'
  BY <1>1, <1>2, <1>3 DEF IInv, RingTypeOK, Index
<1>5. reader # "test" => kbd_first' # kbd_last'
  BY <1>2 DEF IInv, ReaderAhead
<1>6. reader = "advance" => c' = kbd_buffer'[kbd_first']
  BY <1>1, <1>2 DEF IInv, ReaderAhead
<1>7. \A i \in 1 .. Count(kbd_first', kbd_last') :
        kbd_buffer'[Place(kbd_first', i)] \in Char
  <2> SUFFICES ASSUME NEW i \in 1 .. Count(kbd_first', kbd_last')
               PROVE  kbd_buffer'[Place(kbd_first, i)] \in Char
    BY <1>2
  <2>1. i \in 1 .. Count(kbd_first, kbd_last) \/ Place(kbd_first, i) = kbd_last
    BY <1>1, <1>2, Places, PlacesAfterPut
  <2>2. CASE Place(kbd_first, i) = kbd_last
    BY <2>2, <1>1, <1>2
  <2>3. CASE i \in 1 .. Count(kbd_first, kbd_last)
    <3>1. Place(kbd_first, i) \in Index /\ Place(kbd_first, i) # kbd_last
      BY <1>1, <2>3, Places
    <3>2. kbd_buffer'[Place(kbd_first, i)] = kbd_buffer[Place(kbd_first, i)]
      BY <1>1, <1>2, <3>1
    <3>. QED  BY <2>3, <3>2 DEF IInv, ReaderAhead
  <2>. QED  BY <2>1, <2>2, <2>3
<1>. QED  BY <1>2, <1>4, <1>5, <1>6, <1>7 DEF IInv, ReaderAhead

LEMMA TakeKeeps ==
  ASSUME IInv, ReadAdvance
  PROVE  IInv'
<1>1. /\ kbd_first \in Index /\ kbd_last \in Index /\ kbd_first # kbd_last
      /\ kbd_first' = IF kbd_first = kbd_end THEN 0 ELSE kbd_first + 1
      /\ kbd_last' = kbd_last /\ kbd_buffer' = kbd_buffer
      /\ c' = c /\ taken' = c /\ reader' = "test" /\ overrun' = overrun
  BY ReaderWraps DEF IInv, RingTypeOK, ReaderAhead, ReadAdvance, Index
<1>2. RingTypeOK'
  BY <1>1, PlacesAfterTake DEF IInv, RingTypeOK, Index
<1>3. ReaderAhead'
  <2> SUFFICES ASSUME NEW i \in 1 .. Count(kbd_first', kbd_last)
               PROVE  kbd_buffer[Place(kbd_first', i)] \in Char
    BY <1>1 DEF ReaderAhead
  <2>1. Count(kbd_first', kbd_last) = Count(kbd_first, kbd_last) - 1
    BY <1>1, PlacesAfterTake
  <2>2. Place(kbd_first', i) = Place(kbd_first, i + 1)
    BY <1>1, PlacesAfterTake
  <2>3. i + 1 \in 1 .. Count(kbd_first, kbd_last)
    BY <1>1, <2>1, Places
  <2>. QED  BY <2>2, <2>3 DEF IInv, ReaderAhead
<1>. QED  BY <1>2, <1>3 DEF IInv

LEMMA StepKeeps == IInv /\ [RingNext]_ringVars => IInv'
<1> SUFFICES ASSUME IInv, [RingNext]_ringVars PROVE IInv'
  OBVIOUS
<1>1. ASSUME NEW b \in Char, add_to_queue(b) PROVE IInv'
  BY <1>1, PutKeeps
<1>2. CASE ReadTest
  BY <1>2 DEF IInv, RingTypeOK, ReaderAhead, ReadTest
<1>3. CASE ReadLoad
  <2>1. kbd_first \in Index
    BY DEF IInv, RingTypeOK, Index
  <2>. QED  BY <1>3, <2>1 DEF IInv, RingTypeOK, ReaderAhead, ReadLoad, Index
<1>4. CASE ReadAdvance
  BY <1>4, TakeKeeps
<1>5. CASE UNCHANGED ringVars
  BY <1>5 DEF IInv, RingTypeOK, ReaderAhead, ringVars
<1>. QED  BY <1>1, <1>2, <1>3, <1>4, <1>5 DEF RingNext, Read

LEMMA Invariance == RingSpec => []IInv
BY Initially, StepKeeps, PTL DEF RingSpec

\* The indices stay in the buffer for every size of it.
THEOREM RingTypeCorrect == RingSpec => []RingTypeOK
<1>1. IInv => RingTypeOK
  BY DEF IInv
<1>. QED  BY <1>1, Invariance, PTL

\* What getch has tested and loaded is not changed by the interrupt handler before
\* it has moved on.
THEOREM ReaderUndisturbed == RingSpec => []ReaderAhead
<1>1. IInv => ReaderAhead
  BY DEF IInv
<1>. QED  BY <1>1, Invariance, PTL

-----------------------------------------------------------------------------
(* The ring buffer as a queue.                                              *)

\* The contents are a sequence of characters.
LEMMA ContentsSeq ==
  ASSUME NEW buffer, NEW first \in Index, NEW last \in Index,
         \A i \in 1 .. Count(first, last) : buffer[Place(first, i)] \in Char
  PROVE  /\ ContentsOf(buffer, first, last) \in Seq(Char)
         /\ Len(ContentsOf(buffer, first, last)) = Count(first, last)
<1>1. Count(first, last) \in Nat
  BY Places
<1>2. ContentsOf(buffer, first, last) \in [1 .. Count(first, last) -> Char]
  BY DEF ContentsOf
<1>. QED  BY <1>1, <1>2

LEMMA PutIsAccepted ==
  ASSUME IInv, NEW b \in Char, add_to_queue(b)
  PROVE  Queue!Accept(b) \/ Queue!Refuse
<1> DEFINE next == IF kbd_last = kbd_end THEN 0 ELSE kbd_last + 1
           count == Count(kbd_first, kbd_last)
<1>1. /\ kbd_first \in Index /\ kbd_last \in Index
      /\ kbd_buffer \in [Index -> Char \cup {NoChar}]
  BY DEF IInv, RingTypeOK, Index
<1>2. /\ Contents \in Seq(Char) /\ Len(Contents) = count
      /\ count \in Nat /\ count < KBD_BUF_SIZE
  BY <1>1, ContentsSeq, Places DEF IInv, ReaderAhead, Contents
<1>3. /\ kbd_buffer' = [kbd_buffer EXCEPT ![kbd_last] = b]
      /\ kbd_last' = IF next # kbd_first THEN next ELSE kbd_last
      /\ kbd_first' = kbd_first /\ taken' = taken
      /\ overrun' = (overrun \/ kbd_last' = kbd_last)
  BY DEF add_to_queue
<1>4. \A i \in 1 .. count : kbd_buffer'[Place(kbd_first, i)] = Contents[i]
  BY <1>1, <1>3, Places DEF Contents, ContentsOf
<1>5. CASE next = kbd_first
  <2>1. kbd_last' = kbd_last /\ overrun' = TRUE
    BY <1>3, <1>5
  <2>2. Len(Contents) = KBD_BUF_SIZE - 1
    BY <1>1, <1>2, <1>5, PlacesAfterPut
  <2>3. Contents' = Contents
    BY <1>3, <1>4, <2>1 DEF Contents, ContentsOf
  <2>. QED  BY <1>3, <2>1, <2>2, <2>3 DEF Queue!Refuse
<1>6. CASE next # kbd_first
  <2>1. kbd_last' = next /\ next # kbd_last /\ overrun' = overrun
    BY <1>1, <1>3, <1>6, SizeAssumption DEF IInv, RingTypeOK, Index, kbd_end
  <2>2. /\ Count(kbd_first, next) = count + 1
        /\ Place(kbd_first, count + 1) = kbd_last
        /\ next \in Index
    BY <1>1, <1>6, PlacesAfterPut
  <2>3. count + 1 < KBD_BUF_SIZE
    BY <1>1, <2>2, Places
  <2>4. Contents' = [i \in 1 .. count + 1 |-> kbd_buffer'[Place(kbd_first, i)]]
    BY <1>3, <2>1, <2>2 DEF Contents, ContentsOf
  <2>5. \A i \in 1 .. count + 1 :
          kbd_buffer'[Place(kbd_first, i)] = IF i = count + 1 THEN b ELSE Contents[i]
    BY <1>1, <1>2, <1>3, <1>4, <2>2
  <2>6. Contents' = Append(Contents, b)
    <3>1. /\ Append(Contents, b) \in Seq(Char)
          /\ Len(Append(Contents, b)) = count + 1
          /\ \A i \in 1 .. count + 1 :
               Append(Contents, b)[i] = IF i = count + 1 THEN b ELSE Contents[i]
      BY <1>2, AppendProperties
    <3>2. DOMAIN Append(Contents, b) = 1 .. count + 1
      BY <3>1, LenProperties
    <3>3. Append(Contents, b) = [i \in 1 .. count + 1 |-> Append(Contents, b)[i]]
      BY <3>1, <3>2, LenProperties
    <3>. QED  BY <2>4, <2>5, <3>1, <3>3
  <2>. QED  BY <1>2, <1>3, <2>1, <2>3, <2>6, SizeAssumption DEF Queue!Accept
<1>. QED  BY <1>5, <1>6

LEMMA AdvanceIsTake ==
  ASSUME IInv, ReadAdvance
  PROVE  Queue!Take
<1>1. /\ kbd_first \in Index /\ kbd_last \in Index /\ kbd_first # kbd_last
      /\ kbd_first' = IF kbd_first = kbd_end THEN 0 ELSE kbd_first + 1
      /\ kbd_last' = kbd_last /\ kbd_buffer' = kbd_buffer
      /\ c = kbd_buffer[kbd_first] /\ taken' = c /\ overrun' = overrun
  BY ReaderWraps DEF IInv, RingTypeOK, ReaderAhead, ReadAdvance, Index
<1>2. /\ Contents \in Seq(Char) /\ Len(Contents) = Count(kbd_first, kbd_last)
      /\ Count(kbd_first, kbd_last) \in Nat \ {0}
  BY <1>1, ContentsSeq, Places DEF IInv, ReaderAhead, Contents
<1>3. Contents # <<>> /\ Contents[1] = c
  BY <1>1, <1>2, Places DEF Contents, ContentsOf
<1>4. Contents' = [i \in 1 .. Len(Contents) - 1 |-> Contents[i + 1]]
  <2>1. Count(kbd_first', kbd_last) = Len(Contents) - 1
    BY <1>1, <1>2, PlacesAfterTake
  <2>2. \A i \in 1 .. Len(Contents) - 1 :
          kbd_buffer[Place(kbd_first', i)] = Contents[i + 1]
    <3> TAKE i \in 1 .. Len(Contents) - 1
    <3>1. Place(kbd_first', i) = Place(kbd_first, i + 1)
      BY <1>1, <2>1, PlacesAfterTake
    <3>2. i + 1 \in 1 .. Count(kbd_first, kbd_last)
      BY <1>2
    <3>. QED  BY <3>1, <3>2 DEF Contents, ContentsOf
  <2>3. Contents' = [i \in 1 .. Len(Contents) - 1 |-> kbd_buffer[Place(kbd_first', i)]]
    BY <1>1, <2>1 DEF Contents, ContentsOf
  <2>. QED  BY <2>2, <2>3
<1>5. Head(Contents) = c /\ Contents' = Tail(Contents)
  <2>1. Head(Contents) = c
    BY <1>2, <1>3
  <2>2. /\ Tail(Contents) \in Seq(Char)
        /\ Len(Tail(Contents)) = Len(Contents) - 1
        /\ \A i \in 1 .. Len(Contents) - 1 : Tail(Contents)[i] = Contents[i + 1]
    BY <1>2, <1>3, HeadTailProperties
  <2>3. Tail(Contents) = [i \in 1 .. Len(Contents) - 1 |-> Tail(Contents)[i]]
    BY <2>2, LenProperties
  <2>. QED  BY <1>4, <2>1, <2>2, <2>3
<1>. QED  BY <1>1, <1>3, <1>5 DEF Queue!Take

\* The ring buffer of inch.c implements the bounded queue: add_to_queue appends
\* the character or refuses it when KBD_BUF_SIZE - 1 wait, getch takes the first
\* one, and every other step of the reader leaves the queue alone.
THEOREM RingIsQueue == RingSpec => QueueSpec
<1>1. RingInit => Queue!Init
  BY SizeAssumption
     DEF RingInit, Queue!Init, Contents, ContentsOf, Count
<1>2. IInv /\ [RingNext]_ringVars => [Queue!Next]_(Queue!vars)
  <2> SUFFICES ASSUME IInv, [RingNext]_ringVars
               PROVE  Queue!Next \/ UNCHANGED Queue!vars
    OBVIOUS
  <2>1. ASSUME NEW b \in Char, add_to_queue(b) PROVE Queue!Next
    BY <2>1, PutIsAccepted DEF Queue!Next
  <2>2. CASE ReadAdvance
    BY <2>2, AdvanceIsTake DEF Queue!Next
  <2>3. CASE ReadTest \/ ReadLoad \/ UNCHANGED ringVars
    BY <2>3 DEF ReadTest, ReadLoad, ringVars, Queue!vars, Contents, ContentsOf
  <2>. QED  BY <2>1, <2>2, <2>3 DEF RingNext, Read
<1>. QED  BY <1>1, <1>2, Invariance, PTL DEF RingSpec, QueueSpec, Queue!Spec
=============================================================================
