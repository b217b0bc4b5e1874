------------------------------ MODULE KeyRing ------------------------------
(***************************************************************************)
(* The keyboard's ring buffer (inch.c).  The interrupt handler puts        *)
(* characters in, one thread takes them out with getch or _IBMPC_chrdy and *)
(* takes no lock: the handler may run between any two of its steps.  The   *)
(* handler runs with interrupts closed, so that a put is one step.         *)
(***************************************************************************)
EXTENDS Naturals, Sequences

CONSTANTS
  KBD_BUF_SIZE,
  Char,       \* the characters that keys produce
  NoChar      \* the contents of an unused place

ASSUME SizeAssumption == KBD_BUF_SIZE \in Nat /\ KBD_BUF_SIZE > 1
ASSUME CharAssumption == NoChar \notin Char

VARIABLES
  kbd_buffer,
  kbd_first,   \* where the reader takes
  kbd_last,    \* where the handler puts
  reader,      \* the reader: before its test, after it, with a character loaded
  c,           \* its local variable
  taken,       \* the character it returned last
  overrun      \* history: a put has left the buffer as it was

ringVars == <<kbd_buffer, kbd_first, kbd_last, reader, c, taken, overrun>>

kbd_end == KBD_BUF_SIZE - 1

RingTypeOK ==
  /\ kbd_buffer \in [0 .. kbd_end -> Char \cup {NoChar}]
  /\ kbd_first \in 0 .. kbd_end
  /\ kbd_last \in 0 .. kbd_end
  /\ reader \in {"test", "load", "advance"}
  /\ c \in Char \cup {NoChar}
  /\ taken \in Char \cup {NoChar}
  /\ overrun \in BOOLEAN

RingInit ==
  /\ kbd_buffer = [i \in 0 .. kbd_end |-> NoChar]
  /\ kbd_first = 0
  /\ kbd_last = 0
  /\ reader = "test"
  /\ c = NoChar
  /\ taken = NoChar
  /\ overrun = FALSE

-----------------------------------------------------------------------------
\* Mutant of add_to_queue: the index wraps one place late.
add_to_queue_overrun(b) ==
  LET next == IF kbd_last = KBD_BUF_SIZE THEN 0 ELSE kbd_last + 1
  IN /\ kbd_buffer' = [kbd_buffer EXCEPT ![kbd_last] = b]
     /\ kbd_last' = IF next # kbd_first THEN next ELSE kbd_last
     /\ overrun' = (overrun \/ kbd_last' = kbd_last)
     /\ UNCHANGED <<kbd_first, reader, c, taken>>

\* add_to_queue: the character is stored before the buffer is found full.
add_to_queue(b) ==
  LET next == IF kbd_last = kbd_end THEN 0 ELSE kbd_last + 1
  IN /\ kbd_buffer' = [kbd_buffer EXCEPT ![kbd_last] = b]
     /\ kbd_last' = IF next # kbd_first THEN next ELSE kbd_last
     /\ overrun' = (overrun \/ kbd_last' = kbd_last)
     /\ UNCHANGED <<kbd_first, reader, c, taken>>

\* getch and _IBMPC_chrdy: wait until the indices differ,
ReadTest ==
  /\ reader = "test"
  /\ kbd_first # kbd_last
  /\ reader' = "load"
  /\ UNCHANGED <<kbd_buffer, kbd_first, kbd_last, c, taken, overrun>>

\* load the character,
ReadLoad ==
  /\ reader = "load"
  /\ c' = kbd_buffer[kbd_first]
  /\ reader' = "advance"
  /\ UNCHANGED <<kbd_buffer, kbd_first, kbd_last, taken, overrun>>

\* Mutant of ReadAdvance: the index wraps one place early.
ReadAdvanceShort ==
  /\ reader = "advance"
  /\ kbd_first' = (kbd_first + 1) % kbd_end
  /\ taken' = c
  /\ reader' = "test"
  /\ UNCHANGED <<kbd_buffer, kbd_last, c, overrun>>

\* and give its place free.
ReadAdvance ==
  /\ reader = "advance"
  /\ kbd_first' = (kbd_first + 1) % KBD_BUF_SIZE
  /\ taken' = c
  /\ reader' = "test"
  /\ UNCHANGED <<kbd_buffer, kbd_last, c, overrun>>

Read == ReadTest \/ ReadLoad \/ ReadAdvance

RingNext == Read \/ \E b \in Char : add_to_queue(b)

RingSpec == RingInit /\ [][RingNext]_ringVars

-----------------------------------------------------------------------------
\* The characters in a buffer, from the place the reader takes from to the place
\* before the one the handler puts into.
Count(first, last) ==
  IF first <= last THEN last - first ELSE last + KBD_BUF_SIZE - first

Place(first, i) ==
  IF first + i - 1 <= kbd_end THEN first + i - 1 ELSE first + i - 1 - KBD_BUF_SIZE

ContentsOf(buffer, first, last) ==
  [i \in 1 .. Count(first, last) |-> buffer[Place(first, i)]]

Contents == ContentsOf(kbd_buffer, kbd_first, kbd_last)

Queue == INSTANCE CharQueue
           WITH queue <- Contents, Capacity <- KBD_BUF_SIZE - 1

\* The buffer is a queue although the reader takes no lock: every character
\* that add_to_queue accepts is returned by getch once and in order, and one is
\* refused only when KBD_BUF_SIZE - 1 of them are waiting.
QueueSpec == Queue!Spec

\* Why: what the reader has tested stays true, and what it has loaded stays the
\* first character, whatever the handler puts in meanwhile.
ReaderAhead ==
  /\ reader # "test" => kbd_first # kbd_last
  /\ reader = "advance" => c = kbd_buffer[kbd_first]
  /\ \A i \in 1 .. Count(kbd_first, kbd_last) : kbd_buffer[Place(kbd_first, i)] \in Char
=============================================================================
