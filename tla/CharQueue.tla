----------------------------- MODULE CharQueue -----------------------------
(***************************************************************************)
(* What the keyboard buffer of inch.c promises its reader: a queue of      *)
(* bounded length that hands out the characters it accepted, each once and *)
(* in order, and refuses one only when it is full.                         *)
(***************************************************************************)
EXTENDS Naturals, Sequences

CONSTANTS Char, Capacity, NoChar

VARIABLES
  queue,    \* characters accepted and not yet taken
  taken,    \* the character handed out last
  overrun   \* a character has been refused

vars == <<queue, taken, overrun>>

Init == queue = <<>> /\ taken = NoChar /\ overrun = FALSE

Accept(c) ==
  /\ Len(queue) < Capacity
  /\ queue' = Append(queue, c)
  /\ UNCHANGED <<taken, overrun>>

Refuse ==
  /\ Len(queue) = Capacity
  /\ overrun' = TRUE
  /\ UNCHANGED <<queue, taken>>

Take ==
  /\ queue # <<>>
  /\ taken' = Head(queue)
  /\ queue' = Tail(queue)
  /\ UNCHANGED overrun

Next == Refuse \/ Take \/ \E c \in Char : Accept(c)

Spec == Init /\ [][Next]_vars
=============================================================================
