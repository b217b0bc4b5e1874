-------------------------- MODULE UartQueueProofs --------------------------
(***************************************************************************)
(* Proofs about the characters that Uart receives and sends, for every     *)
(* size and number of characters, at a line where the assertions hold      *)
(* (GentleLine).  What has arrived is accounted for: a character that is   *)
(* lost was damaged, or paid for by an overrun that the line status        *)
(* register still reports or has reported.  What is written leaves once    *)
(* and in order, if the port is opened once only.                          *)
(***************************************************************************)
EXTENDS UartProofs, FiniteSetTheorems, SequenceTheorems

-----------------------------------------------------------------------------
(* Input. *)

\* The characters the driver has, where it has them.
Got == delivered \o buf \o rx

InOrder == Got \in Seq(1 .. arrived) /\ Ordered(Got)

\* What may still be dropped for an error that is to be reported counts as lost.
LossBounded ==
  arrived - Len(Got) + Cardinality(flagged) + (IF OE THEN 1 ELSE 0)
    <= Cardinality(damaged) + 2 * overruns

\* uartError runs for an error that is there.
ErrorThere == isr = "RECEIVER_ERROR" => OE \/ (rx # <<>> /\ Head(rx) \in flagged)

\* The routine hands over what it has read before it returns.
HandedOver == isr = "out" => buf = <<>>

InputInv == InOrder /\ LossBounded /\ ErrorThere /\ HandedOver

\* The next number goes behind the others.
LEMMA OrderedAppend ==
  ASSUME NEW n \in Nat, NEW s \in Seq(1 .. n), Ordered(s)
  PROVE  Append(s, n + 1) \in Seq(1 .. (n + 1)) /\ Ordered(Append(s, n + 1))
<1>1. /\ Len(s) \in Nat /\ Len(Append(s, n + 1)) = Len(s) + 1
      /\ \A i \in 1 .. Len(s) : Append(s, n + 1)[i] = s[i] /\ s[i] \in 1 .. n
      /\ Append(s, n + 1)[Len(s) + 1] = n + 1
  OBVIOUS
<1>2. Append(s, n + 1) \in Seq(1 .. (n + 1))
  <2>1. s \in Seq(1 .. (n + 1))
    BY SeqGrows
  <2> QED
    BY <2>1
<1> QED
  BY <1>1, <1>2 DEF Ordered

\* Dropping one keeps the others in order.
LEMMA OrderedDrop ==
  ASSUME NEW n \in Nat, NEW s \in Seq(Int), NEW t \in Seq(Int), t # <<>>,
         s \o t \in Seq(1 .. n), Ordered(s \o t)
  PROVE  /\ s \o Tail(t) \in Seq(1 .. n) /\ Ordered(s \o Tail(t))
         /\ Len(s \o Tail(t)) = Len(s \o t) - 1
<1> DEFINE m == Len(s)
           l == Len(t)
           u == s \o t
           v == s \o Tail(t)
<1>1. /\ m \in Nat /\ l \in Nat \ {0} /\ Tail(t) \in Seq(Int) /\ Len(Tail(t)) = l - 1
      /\ \A i \in 1 .. l - 1 : Tail(t)[i] = t[i + 1]
  BY HeadTailProperties, LenProperties
<1>2. /\ Len(u) = m + l
      /\ \A i \in 1 .. m + l : u[i] = IF i <= m THEN s[i] ELSE t[i - m]
  BY ConcatProperties
<1>3. /\ Len(v) = (m + l) - 1 /\ v \in Seq(Int)
      /\ \A i \in 1 .. (m + l) - 1 : v[i] = IF i <= m THEN s[i] ELSE Tail(t)[i - m]
  <2>1. /\ v \in Seq(Int) /\ Len(v) = m + Len(Tail(t))
        /\ \A i \in 1 .. m + Len(Tail(t)) : v[i] = IF i <= m THEN s[i] ELSE Tail(t)[i - m]
    BY <1>1, ConcatProperties
  <2>2. m + Len(Tail(t)) = (m + l) - 1
    BY <1>1
  <2> QED
    BY <2>1, <2>2
<1>4. u \in Seq(1 .. n) /\ Ordered(u)
  OBVIOUS
<1> HIDE DEF m, l, u, v
<1>5. ASSUME NEW i \in 1 .. (m + l) - 1
      PROVE  \/ i <= m /\ i \in 1 .. m + l /\ v[i] = u[i]
             \/ i > m /\ i + 1 \in 1 .. m + l /\ v[i] = u[i + 1]
  <2>1. CASE i <= m
    <3>1. i \in 1 .. m + l
      BY <1>1
    <3> QED
      BY <1>2, <1>3, <2>1, <3>1
  <2>2. CASE i > m
    <3>1. i - m \in 1 .. l - 1 /\ i + 1 \in 1 .. m + l /\ ~(i <= m) /\ ~(i + 1 <= m)
      BY <1>1, <2>2
    <3>2. v[i] = Tail(t)[i - m] /\ u[i + 1] = t[(i + 1) - m]
      BY <1>2, <1>3, <3>1
    <3>3. Tail(t)[i - m] = t[(i - m) + 1] /\ (i - m) + 1 = (i + 1) - m
      BY <1>1, <3>1
    <3> QED
      BY <2>2, <3>1, <3>2, <3>3
  <2> QED
    BY <1>1, <2>1, <2>2
<1>6. v \in Seq(1 .. n)
  <2>1. \A i \in 1 .. m + l : u[i] \in 1 .. n
    BY <1>2, <1>4, ElementOfSeq
  <2>2. \A i \in 1 .. (m + l) - 1 : v[i] \in 1 .. n
    BY <1>5, <2>1
  <2>3. v \in [1 .. (m + l) - 1 -> Int]
    <3>1. v \in [1 .. Len(v) -> Int]
      BY <1>3, LenProperties
    <3> QED
      BY <1>3, <3>1
  <2>4. v \in [1 .. (m + l) - 1 -> 1 .. n] /\ (m + l) - 1 \in Nat
    BY <1>1, <2>2, <2>3
  <2> QED
    BY <2>4
<1>7. Ordered(v)
  <2>1. DOMAIN v = 1 .. (m + l) - 1 /\ DOMAIN u = 1 .. m + l
    BY <1>2, <1>3, <1>4, LenProperties
  <2>2. ASSUME NEW i \in 1 .. (m + l) - 1, NEW j \in 1 .. (m + l) - 1, i < j
        PROVE  v[i] < v[j]
    <3>1. \/ i <= m /\ i \in 1 .. m + l /\ v[i] = u[i]
          \/ i > m /\ i + 1 \in 1 .. m + l /\ v[i] = u[i + 1]
      BY <1>5
    <3>2. \/ j <= m /\ j \in 1 .. m + l /\ v[j] = u[j]
          \/ j > m /\ j + 1 \in 1 .. m + l /\ v[j] = u[j + 1]
      BY <1>5
    <3>3. i < j /\ i < j + 1 /\ i + 1 < j + 1 /\ ~(i > m /\ j <= m)
      BY <1>1, <2>2
    <3>4. \A a \in 1 .. m + l, b \in 1 .. m + l : a < b => u[a] < u[b]
      BY <1>4, <2>1 DEF Ordered
    <3> QED
      BY <3>1, <3>2, <3>3, <3>4
  <2> QED
    BY <2>1, <2>2 DEF Ordered
<1>8. Len(v) = Len(u) - 1
  BY <1>1, <1>2, <1>3
<1> QED
  BY <1>6, <1>7, <1>8 DEF u, v

\* Three sequences can be joined from either end.
LEMMA Joined ==
  ASSUME NEW s \in Seq(Int), NEW t \in Seq(Int), NEW u \in Seq(Int)
  PROVE  (s \o t) \o u = s \o (t \o u)
  OBVIOUS

\* A character that moves from the receiver to the routine keeps its place.
LEMMA OrderedMove ==
  ASSUME NEW s \in Seq(Int), NEW t \in Seq(Int), NEW u \in Seq(Int), u # <<>>
  PROVE  s \o Append(t, Head(u)) \o Tail(u) = s \o t \o u
<1> DEFINE h == Head(u)
           r == Tail(u)
           a == Append(t, h)
<1>1. h \in Int /\ r \in Seq(Int) /\ <<h>> \in Seq(Int)
  BY HeadTailProperties
<1>2. a = t \o <<h>> /\ a \in Seq(Int)
  BY <1>1, AppendIsConcat, AppendProperties
<1>3. <<h>> \o r = u
  OBVIOUS
<1> HIDE DEF h, r, a
<1>4. a \o r = t \o u
  <2>1. (t \o <<h>>) \o r = t \o (<<h>> \o r)
    <3> DEFINE o == <<h>>
    <3>1. r \in Seq(Int) /\ o \in Seq(Int)
      BY <1>1
    <3> HIDE DEF o
    <3>2. (t \o o) \o r = t \o (o \o r)
      BY <3>1, Joined, ZenonT(30)
    <3> QED
      BY <3>2 DEF o
  <2> QED
    BY <1>2, <1>3, <2>1
<1>5. s \o a \o r = s \o t \o u
  <2> a \in Seq(Int) /\ r \in Seq(Int)
    BY <1>1, <1>2
  <2>1. (s \o a) \o r = s \o (a \o r)
    BY Joined, ZenonT(30)
  <2>2. (s \o t) \o u = s \o (t \o u)
    BY Joined, ZenonT(30)
  <2>3. s \o (a \o r) = s \o (t \o u)
    BY <1>4, Zenon
  <2> QED
    BY <2>1, <2>2, <2>3, Zenon
<1> QED
  BY <1>5 DEF h, r, a

\* The sequences of characters, as sequences of numbers.
LEMMA GotNumbers ==
  ASSUME TypeOK
  PROVE  /\ delivered \in Seq(Int) /\ buf \in Seq(Int) /\ rx \in Seq(Int)
         /\ delivered \o buf \in Seq(Int) /\ arrived \in Nat /\ overruns \in Nat
<1>1. arrived \in Nat /\ overruns \in Nat
  BY SizeAssumption DEF TypeOK
<1>2. 1 .. arrived \subseteq Int /\ 0 .. arrived \subseteq Int
  BY <1>1
<1>3. delivered \in Seq(Int) /\ buf \in Seq(Int) /\ rx \in Seq(Int)
  BY <1>2, SeqGrows DEF TypeOK
<1> QED
  BY <1>1, <1>3

\* The damaged characters can be counted, and so can those of them that are flagged.
LEMMA DamageCounted ==
  ASSUME TypeOK
  PROVE  /\ IsFiniteSet(damaged) /\ Cardinality(damaged) \in Nat
         /\ \A S \in SUBSET flagged :
              /\ IsFiniteSet(S) /\ Cardinality(S) \in Nat
              /\ Cardinality(S) <= Cardinality(flagged) /\ Cardinality(flagged) \in Nat
<1>1. IsFiniteSet(1 .. arrived)
  BY GotNumbers, FS_Interval
<1>2. damaged \in SUBSET (1 .. arrived) /\ flagged \in SUBSET damaged
  BY DEF TypeOK
<1>3. IsFiniteSet(damaged)
  BY <1>1, <1>2, FS_Subset
<1>4. IsFiniteSet(flagged)
  BY <1>2, <1>3, FS_Subset
<1> QED
  BY <1>3, <1>4, FS_Subset, FS_CardinalityType

\* Errors that are taken back account for less.
LEMMA ErrorsTaken ==
  ASSUME TypeInv, InputInv, Got' = Got, UNCHANGED <<arrived, damaged, overruns>>,
         flagged' \subseteq flagged, OE' => OE, OE' \in BOOLEAN, ErrorThere', HandedOver'
  PROVE  InputInv'
<1>1. InOrder'
  BY DEF InputInv, InOrder, Ordered
<1>2. /\ Cardinality(flagged') \in Nat /\ Cardinality(flagged) \in Nat
      /\ Cardinality(flagged') <= Cardinality(flagged)
  BY DamageCounted DEF TypeInv
<1>3. Len(Got) \in Nat /\ arrived \in Nat /\ overruns \in Nat /\ Cardinality(damaged) \in Nat
  BY GotNumbers, DamageCounted DEF TypeInv, InputInv, InOrder
<1>4. (IF OE' THEN 1 ELSE 0) <= (IF OE THEN 1 ELSE 0)
  OBVIOUS
<1>5. LossBounded'
  BY <1>2, <1>3, <1>4 DEF InputInv, LossBounded
<1> QED
  BY <1>1, <1>5 DEF InputInv

LEMMA InputKept ==
  ASSUME TypeInv, InputInv, UNCHANGED <<delivered, buf, rx, arrived, damaged, overruns>>,
         flagged' \subseteq flagged, OE' => OE, OE' \in BOOLEAN, ErrorThere', HandedOver'
  PROVE  InputInv'
  BY ErrorsTaken DEF Got

\* What writes to the port takes errors back, and nothing else of the input.
LEMMA WriteInput ==
  ASSUME TypeOK, NEW c, NEW stop, NEW held, device_write(c, stop, held)
  PROVE  OE' = FALSE /\ flagged' \subseteq flagged
  BY OneWrite DEF termios_write, ReadLSR

LEMMA PutsInput ==
  ASSUME TypeInv, InputInv, NEW c \in Char, Puts(c)
  PROVE  InputInv'
<1>1. flagged' \subseteq flagged /\ (OE' => OE) /\ OE' \in BOOLEAN
  BY WriteInput DEF Puts, TypeInv, TypeOK
<1>2. isr' = "out" /\ UNCHANGED <<delivered, buf, rx, arrived, damaged, overruns>>
  BY DEF Puts, Thread, historyVars
<1> QED
  BY <1>1, <1>2, InputKept DEF ErrorThere, HandedOver, InputInv, Puts, Thread

\* The steps of the interrupt routine that take no character.
LEMMA RoutineInput ==
  ASSUME TypeInv, InputInv, IsrEnter \/ IsrIdentify \/ IsrModemStatus \/ IsrTransmit
  PROVE  InputInv'
<1>1. UNCHANGED <<delivered, rx, arrived, damaged, overruns>>
  BY DEF IsrEnter, IsrIdentify, IsrModemStatus, IsrTransmit, lineVars, historyVars
<1>2. CASE IsrEnter
  <2>1. buf' = <<>> /\ isr' = "identify" /\ UNCHANGED <<flagged, OE>>
    BY <1>2 DEF IsrEnter, lineVars
  <2>2. buf = <<>>
    BY <1>2 DEF IsrEnter, Thread, InputInv, HandedOver
  <2> QED
    BY <1>1, <2>1, <2>2, InputKept DEF ErrorThere, HandedOver, TypeInv, TypeOK
<1>3. CASE IsrIdentify
  <2>1. UNCHANGED <<buf, flagged, OE>> /\ isr' = Cause
    BY <1>3 DEF IsrIdentify
  <2>2. ErrorThere' /\ HandedOver'
    BY <1>1, <2>1 DEF ErrorThere, HandedOver, Cause
  <2> QED
    BY <1>1, <2>1, <2>2, InputKept DEF TypeInv, TypeOK
<1>4. CASE IsrModemStatus \/ IsrTransmit
  <2>1. buf' = buf /\ isr' = "identify"
    BY <1>4 DEF IsrModemStatus, IsrTransmit
  <2>2. flagged' \subseteq flagged /\ (OE' => OE) /\ OE' \in BOOLEAN
    BY <1>4, WriteInput DEF IsrModemStatus, IsrTransmit, TypeInv, TypeOK
  <2> QED
    BY <1>1, <2>1, <2>2, InputKept DEF ErrorThere, HandedOver
<1> QED
  BY <1>2, <1>3, <1>4

\* A character read is one the routine has now.
LEMMA ReceiveInput ==
  ASSUME TypeInv, QuietInv, InputInv, IsrReceive
  PROVE  InputInv'
<1>1. rx # <<>> /\ buf' = Append(buf, Head(rx)) /\ rx' = Tail(rx)
  BY ReceiveFits
<1>2. Got' = Got
  <2>1. delivered \in Seq(Int) /\ buf \in Seq(Int) /\ rx \in Seq(Int)
    BY GotNumbers DEF TypeInv
  <2>2. delivered \o Append(buf, Head(rx)) \o Tail(rx) = delivered \o buf \o rx
    BY <1>1, <2>1, OrderedMove
  <2>3. Got' = delivered \o Append(buf, Head(rx)) \o Tail(rx)
    BY <1>1 DEF Got, IsrReceive, historyVars
  <2> QED
    BY <2>2, <2>3 DEF Got
<1>3. UNCHANGED <<OE, arrived, damaged, overruns>> /\ flagged' \subseteq flagged
  BY DEF IsrReceive, historyVars
<1>4. ErrorThere' /\ HandedOver'
  BY DEF IsrReceive, ErrorThere, HandedOver
<1> QED
  BY <1>2, <1>3, <1>4, ErrorsTaken DEF TypeInv, TypeOK

\* The character that uartError drops was flagged, or dropped for the overrun.
LEMMA ErrorInput ==
  ASSUME TypeInv, QuietInv, InputInv, uartError
  PROVE  InputInv'
<1>1. ~DLAB /\ UNCHANGED <<delivered, buf, arrived, damaged, overruns>> /\ OE' = FALSE
  BY DEF uartError, ReadLSR, QuietInv, Alone, DivisorOnly, historyVars
<1>2. ErrorThere' /\ HandedOver' /\ flagged' \subseteq flagged
  BY DEF uartError, ReadLSR, ErrorThere, HandedOver
<1>3. CASE rx = <<>>
  <2>1. rx' = rx
    BY <1>3 DEF uartError, rxAfterRBR
  <2> QED
    BY <1>1, <1>2, <2>1, InputKept
<1>4. CASE rx # <<>>
  <2>1. rx' = Tail(rx) /\ flagged' = flagged \ {Head(rx)}
    BY <1>1, <1>4 DEF uartError, ReadLSR, rxAfterRBR
  <2>2. /\ delivered \o buf \in Seq(Int) /\ rx \in Seq(Int) /\ arrived \in Nat /\ overruns \in Nat
        /\ Got \in Seq(1 .. arrived) /\ Ordered(Got) /\ Got = delivered \o buf \o rx
    BY GotNumbers DEF TypeInv, InputInv, InOrder, Got
  <2>3. Got' = delivered \o buf \o Tail(rx)
    BY <1>1, <2>1 DEF Got
  <2>4. InOrder' /\ Len(Got') = Len(Got) - 1
    BY <1>1, <1>4, <2>2, <2>3, OrderedDrop DEF InOrder
  <2>5. /\ Cardinality(flagged') \in Nat /\ Cardinality(flagged) \in Nat
        /\ Cardinality(damaged) \in Nat
        /\ Cardinality(flagged') + 1 <= Cardinality(flagged) + (IF OE THEN 1 ELSE 0)
    <3>1. /\ IsFiniteSet(flagged) /\ Cardinality(flagged') \in Nat /\ Cardinality(flagged) \in Nat
          /\ Cardinality(damaged) \in Nat /\ Cardinality(flagged') <= Cardinality(flagged)
      BY <1>2, DamageCounted DEF TypeInv
    <3>2. CASE Head(rx) \in flagged
      <4>1. Cardinality(flagged') = Cardinality(flagged) - 1
        BY <2>1, <3>1, <3>2, FS_RemoveElement
      <4> QED
        BY <3>1, <4>1
    <3>3. CASE Head(rx) \notin flagged
      <4>1. OE
        BY <3>3 DEF uartError, InputInv, ErrorThere
      <4> QED
        BY <3>1, <4>1
    <3> QED
      BY <3>2, <3>3
  <2>6. Len(Got) \in Nat
    BY <2>2
  <2>7. LossBounded'
    BY <1>1, <2>2, <2>4, <2>5, <2>6, SMTT(30) DEF InputInv, LossBounded
  <2> QED
    BY <1>2, <2>4, <2>7 DEF InputInv
<1> QED
  BY <1>3, <1>4

\* The routine hands its characters over in front of the receiver's.
LEMMA ReturnInput ==
  ASSUME TypeInv, InputInv, IsrReturn
  PROVE  InputInv'
<1>1. /\ delivered' = delivered \o buf /\ buf' = <<>> /\ isr' = "out"
      /\ UNCHANGED <<rx, flagged, OE, arrived, damaged, overruns>>
  BY DEF IsrReturn, lineVars
<1>2. Got' = Got
  <2>1. delivered \o buf \in Seq(Int)
    BY GotNumbers DEF TypeInv
  <2>2. (delivered \o buf) \o <<>> = delivered \o buf
    BY <2>1
  <2> QED
    BY <1>1, <2>2 DEF Got
<1> QED
  BY <1>1, <1>2, ErrorsTaken DEF ErrorThere, HandedOver, TypeInv, TypeOK

(* The balance of LossBounded when a character arrives: the got and the    *)
(* arrived grow by one each, the flagged and the damaged by the same.      *)
LEMMA BalanceKept ==
  ASSUME NEW a \in Nat, NEW g \in Nat, NEW f \in Nat, NEW f1 \in Nat,
         NEW d \in Nat, NEW d1 \in Nat, NEW x \in {0, 1}, NEW o \in Nat,
         a - g + f + x <= d + 2 * o, f1 - f = d1 - d
  PROVE  (a + 1) - (g + 1) + f1 + x <= d1 + 2 * o
OBVIOUS

\* A character that arrives is the receiver's last one, or an overrun.
LEMMA ArrivalInput ==
  ASSUME TypeInv, InputInv, NEW bad \in BOOLEAN, Receive(bad)
  PROVE  InputInv'
<1>1. /\ arrived' = arrived + 1 /\ UNCHANGED <<delivered, buf, isr>>
      /\ arrived \in Nat /\ overruns \in Nat
  BY GotNumbers DEF Receive, TypeInv
<1>2. /\ Got \in Seq(1 .. arrived) /\ Ordered(Got) /\ Len(Got) \in Nat
      /\ delivered \o buf \in Seq(Int) /\ rx \in Seq(Int)
  BY GotNumbers DEF InputInv, InOrder, TypeInv
<1>3. /\ IsFiniteSet(damaged) /\ Cardinality(damaged) \in Nat
      /\ IsFiniteSet(flagged) /\ Cardinality(flagged) \in Nat
      /\ flagged \subseteq damaged /\ damaged \subseteq 1 .. arrived
  BY DamageCounted DEF TypeInv, TypeOK
<1>4. HandedOver'
  BY <1>1 DEF InputInv, HandedOver
<1>5. CASE Len(rx) = Depth
  <2>1. OE' = TRUE /\ overruns' = overruns + 1 /\ UNCHANGED <<rx, flagged, damaged>>
    BY <1>5 DEF Receive
  <2>2. Got' = Got
    BY <1>1, <2>1 DEF Got
  <2>3. InOrder'
    <3>1. Got \in Seq(1 .. (arrived + 1))
      BY <1>1, <1>2, SeqGrows
    <3> QED
      BY <1>1, <1>2, <2>2, <3>1 DEF InOrder
  <2>4. LossBounded'
    BY <1>1, <1>2, <1>3, <2>1, <2>2, SMTT(30) DEF InputInv, LossBounded
  <2> QED
    BY <1>4, <2>1, <2>3, <2>4 DEF InputInv, ErrorThere
<1>6. CASE Len(rx) # Depth
  <2> DEFINE e == IF bad THEN {arrived'} ELSE {}
  <2>1. /\ rx' = Append(rx, arrived + 1) /\ UNCHANGED <<OE, overruns>>
        /\ flagged' = flagged \cup e /\ damaged' = damaged \cup e
    BY <1>1, <1>6 DEF Receive
  <2>2. Got' = Append(Got, arrived + 1)
    <3>1. Got' = (delivered \o buf) \o Append(rx, arrived + 1)
      BY <1>1, <2>1 DEF Got
    <3>2. \A s, t \in Seq(Int) : s \o Append(t, arrived + 1) = Append(s \o t, arrived + 1)
      BY <1>1
    <3> QED
      BY <1>2, <3>1, <3>2 DEF Got
  <2>3. InOrder' /\ Len(Got') = Len(Got) + 1
    BY <1>1, <1>2, <2>2, OrderedAppend DEF InOrder
  <2>4. Cardinality(flagged') - Cardinality(flagged) = Cardinality(damaged') - Cardinality(damaged)
    <3>1. CASE bad
      <4>1. arrived + 1 \notin damaged /\ arrived + 1 \notin flagged /\ e = {arrived + 1}
        BY <1>1, <1>3, <3>1
      <4>2. /\ Cardinality(flagged') = Cardinality(flagged) + 1
            /\ Cardinality(damaged') = Cardinality(damaged) + 1
        <5>1. flagged' = flagged \cup {arrived + 1} /\ damaged' = damaged \cup {arrived + 1}
          BY <2>1, <4>1
        <5>2. Cardinality(flagged \cup {arrived + 1}) = Cardinality(flagged) + 1
          BY <1>3, <4>1, FS_AddElement
        <5>3. Cardinality(damaged \cup {arrived + 1}) = Cardinality(damaged) + 1
          BY <1>3, <4>1, FS_AddElement
        <5> QED
          BY <5>1, <5>2, <5>3
      <4> QED
        BY <1>3, <4>2
    <3>2. CASE ~bad
      BY <1>3, <2>1, <3>2
    <3> QED
      BY <3>1, <3>2
  <2>5. Cardinality(flagged') \in Nat /\ Cardinality(damaged') \in Nat
    <3>1. IsFiniteSet(e)
      BY FS_EmptySet, FS_Singleton
    <3> QED
      BY <1>3, <2>1, <3>1, FS_Union, FS_CardinalityType
  <2>6. LossBounded'
    <3>1. UNCHANGED <<OE, overruns>> /\ Len(Got') = Len(Got) + 1
      BY <2>1, <2>3
    <3>2. arrived - Len(Got) + Cardinality(flagged) + (IF OE THEN 1 ELSE 0)
            <= Cardinality(damaged) + 2 * overruns
      BY DEF InputInv, LossBounded
    <3> HIDE DEF e
    <3>3. (arrived + 1) - (Len(Got) + 1) + Cardinality(flagged') + (IF OE THEN 1 ELSE 0)
            <= Cardinality(damaged') + 2 * overruns
      <4> DEFINE x == IF OE THEN 1 ELSE 0
      <4>1. x \in {0, 1}
        OBVIOUS
      <4>2. arrived - Len(Got) + Cardinality(flagged) + x <= Cardinality(damaged) + 2 * overruns
        BY <3>2
      <4> HIDE DEF x
      <4>3. (arrived + 1) - (Len(Got) + 1) + Cardinality(flagged') + x
              <= Cardinality(damaged') + 2 * overruns
        BY <1>1, <1>2, <1>3, <2>4, <2>5, <4>1, <4>2, BalanceKept
      <4> QED
        BY <4>3 DEF x
    <3> QED
      BY <1>1, <3>1, <3>3 DEF LossBounded
  <2>7. ErrorThere'
    <3>1. rx # <<>> => rx' # <<>> /\ Head(rx') = Head(rx)
      BY <1>2, <2>1
    <3>2. flagged \subseteq flagged'
      BY <2>1
    <3> QED
      BY <1>1, <2>1, <3>1, <3>2 DEF InputInv, ErrorThere
  <2> QED
    BY <1>4, <2>3, <2>6, <2>7 DEF InputInv
<1> QED
  BY <1>5, <1>6

\* While attributes are set nothing is there to be lost.
LEMMA AttrInput ==
  ASSUME TypeInv, QuietInv, InputInv, BSP_uart_set_attributes
  PROVE  InputInv'
<1>1. UNCHANGED <<delivered, buf, arrived, damaged, overruns, isr>> /\ attr.at # "idle"
  BY DEF BSP_uart_set_attributes, BSP_uart_init, InitDivisor, InitLine, InitFifos, InitDisable,
     InitClear, RestoreIER, AttrStep, historyVars
<1>2. rx = <<>> /\ OE = FALSE /\ isr = "out"
  BY <1>1 DEF QuietInv, Alone, TypeInv, TypeOK
<1>3. rx' = rx /\ OE' = FALSE /\ flagged' \subseteq flagged
  BY <1>2 DEF BSP_uart_set_attributes, BSP_uart_init, InitDivisor, InitLine, InitFifos, InitDisable,
     InitClear, RestoreIER, ReadLSR, rxAfterRBR
<1> QED
  BY <1>1, <1>2, <1>3, InputKept DEF InputInv, ErrorThere, HandedOver

LEMMA InputStep ==
  ASSUME TypeInv, QuietInv, InputInv, [Next]_vars
  PROVE  InputInv'
<1>1. CASE Isr
  BY <1>1, RoutineInput, ReceiveInput, ErrorInput, ReturnInput DEF Isr
<1>2. CASE \/ Transmit \/ ChangeCTS \/ tty_close \/ BSP_uart_termios_set \/ BSP_uart_intr_ctrl
           \/ (\E t \in Settings : SetAttributes(t)) \/ UNCHANGED vars
  <2>1. UNCHANGED <<delivered, buf, rx, flagged, OE, isr, arrived, damaged, overruns>>
    BY <1>2 DEF Transmit, ChangeCTS, tty_close, BSP_uart_termios_set, BSP_uart_intr_ctrl,
       SetAttributes, vars, lineVars, historyVars
  <2> QED
    BY <2>1, InputKept DEF InputInv, ErrorThere, HandedOver, TypeInv, TypeOK
<1> QED
  BY <1>1, <1>2, PutsInput, ArrivalInput, AttrInput
    DEF Next, BSP_uart_termios_isr_com1, BSP_uart_termios_isr_com2, tty1_open, tty2_open, Hardware

LEMMA InitInput ==
  ASSUME Init
  PROVE  InputInv
<1>1. /\ delivered = <<>> /\ buf = <<>> /\ rx = <<>> /\ arrived = 0 /\ overruns = 0
      /\ damaged = {} /\ flagged = {} /\ OE = FALSE /\ isr = "out"
  BY DEF Init
<1>2. Got = <<>> /\ Len(Got) = 0
  BY <1>1 DEF Got
<1>3. InOrder
  BY <1>2 DEF InOrder, Ordered
<1>4. LossBounded
  BY <1>1, <1>2, FS_EmptySet DEF LossBounded
<1> QED
  BY <1>1, <1>3, <1>4 DEF InputInv, ErrorThere, HandedOver

\* Whatever the sizes and however many characters come: they reach termios in the
\* order they arrived, each once, and one is lost only with its own error or with an
\* overrun, which costs two (uart.c:714-745, 838-845).
THEOREM InputIsAccounted ==
  ASSUME GentleLine
  PROVE  Spec => []InputAccounted
<1>1. Init => TypeInv /\ QuietInv /\ InputInv
  BY InitTyped, InitQuiet, InitInput
<1>2. TypeInv /\ QuietInv /\ InputInv /\ [Next]_vars => TypeInv' /\ QuietInv' /\ InputInv'
  BY TypeStep, QuietStep, InputStep
<1>3. TypeInv /\ InputInv => InputAccounted
  <2> SUFFICES ASSUME TypeInv, InputInv
               PROVE  InputAccounted
    OBVIOUS
  <2>1. /\ Len(Got) \in Nat /\ arrived \in Nat /\ overruns \in Nat
        /\ Cardinality(damaged) \in Nat /\ Cardinality(flagged) \in Nat
    BY GotNumbers, DamageCounted DEF TypeInv, InputInv, InOrder
  <2>2. arrived - Len(Got) <= Cardinality(damaged) + 2 * overruns
    BY <2>1 DEF InputInv, LossBounded
  <2> QED
    BY <2>2 DEF InputAccounted, InputInv, InOrder, Got
<1> QED
  BY <1>1, <1>2, <1>3, PTL DEF Spec

-----------------------------------------------------------------------------
(* Output. *)

\* Nothing is written before the port is open, which it becomes once.
OpenFirst == opener \/ opened = 0 => raw = <<>>

\* What the driver believes of the transmitter: it is active only for something, and
\* then its interrupt is enabled.
Enabled == (raw = <<>> => ~tx_active) /\ (tx_active => TRANSMIT_ENABLE \in IER)

\* Unless the peer has stopped it, the first character is in the transmitter, or its
\* interrupt is due or being handled.
UnderWay ==
  raw # <<>> /\ hold = NoChar =>
    tx_active /\ (thr # NoChar \/ thri \/ isr = "TRANSMITTER_HODING_REGISTER_EMPTY")

\* It is the first character that is sent or held.
FirstOnly ==
  raw # <<>> => thr \in {NoChar, Head(raw)} /\ hold \in {NoChar, Head(raw)}

SendInv == OpenFirst /\ Enabled /\ UnderWay /\ FirstOnly

\* What leaves what was written and the way it is sent alone.
LEMMA SendKept ==
  ASSUME SendInv, UNCHANGED <<opener, opened, raw, tx_active, hold, thr, thri, IER, isr>>
  PROVE  SendInv' /\ UNCHANGED Unsent
  BY DEF SendInv, OpenFirst, Enabled, UnderWay, FirstOnly, Unsent

\* A write to the empty transmitter: the character is sent with the interrupt
\* enabled, or held.
LEMMA WriteSends ==
  ASSUME TypeOK, Enabled, NEW c \in Char, NEW stop, NEW held, device_write(c, stop, held),
         thr = NoChar, ~DLAB
  PROVE  /\ \/ hold' = c /\ thr' = NoChar
            \/ hold' = held /\ thr' = c /\ tx_active'
         /\ tx_active' => TRANSMIT_ENABLE \in IER'
<1>1. termios_write(c, stop, held)
  BY OneWrite
<1>2. tx_active => TRANSMIT_ENABLE \in IER
  BY DEF Enabled
<1>3. CASE stop
  BY <1>1, <1>2, <1>3 DEF termios_write
<1>4. CASE ~stop
  <2>1. hold' = held /\ thr' = c /\ tx_active'
    BY <1>1, <1>4 DEF termios_write, WriteTHR
  <2>2. TRANSMIT_ENABLE \in IER'
    <3>1. CASE tx_active
      BY <1>1, <1>2, <1>4, <3>1 DEF termios_write
    <3>2. CASE ~tx_active
      <4>1. uart_data' = [uart_data EXCEPT !.ier = @ \cup {TRANSMIT_ENABLE}] /\ IER' = uart_data'.ier
        BY <1>1, <1>4, <3>2 DEF termios_write
      <4> QED
        BY <4>1 DEF TypeOK
    <3> QED
      BY <3>1, <3>2
  <2> QED
    BY <2>1, <2>2
<1> QED
  BY <1>3, <1>4

\* A character is accepted at the end of the queue.
LEMMA PutsSends ==
  ASSUME MaxOpens <= 1, TypeInv, QuietInv, SendInv, NEW c \in Char, Puts(c)
  PROVE  SendInv' /\ Unsent' = Append(Unsent, c) /\ Len(Unsent) < OutSize
<1>1. /\ raw \in Seq(Char) /\ raw' = Append(raw, c) /\ raw' # <<>> /\ Len(raw) < OutSize
      /\ ~DLAB /\ UNCHANGED <<opener, opened, isr>> /\ isr = "out"
  BY DEF Puts, Thread, TypeInv, TypeOK, QuietInv, DivisorOnly, openVars
<1>2. OpenFirst'
  <2>1. ~opener /\ opened # 0
    BY SizeAssumption DEF Puts, TypeInv, TypeOK
  <2> QED
    BY <1>1, <2>1 DEF OpenFirst
<1>3. CASE raw = <<>>
  <2>1. thr = NoChar /\ hold = NoChar /\ device_write(c, stopped, hold)
    BY <1>3 DEF QuietInv, Sending, Puts
  <2>2. /\ \/ hold' = c /\ thr' = NoChar
           \/ hold' = NoChar /\ thr' = c /\ tx_active'
        /\ tx_active' => TRANSMIT_ENABLE \in IER'
    BY <1>1, <2>1, WriteSends DEF TypeInv, SendInv
  <2>3. Head(raw') = c
    BY <1>1, <1>3
  <2>4. SendInv'
    BY <1>1, <1>2, <2>2, <2>3, CharAssumption DEF SendInv, Enabled, UnderWay, FirstOnly
  <2>5. Unsent = <<>> /\ Unsent' = raw'
    BY <1>1, <1>3, <2>2, CharAssumption DEF Unsent
  <2> QED
    BY <1>1, <1>3, <2>4, <2>5
<1>4. CASE raw # <<>>
  <2>1. UNCHANGED <<IER, thr, thri, tx_active, hold>>
    BY <1>4 DEF Puts
  <2>2. Head(raw') = Head(raw) /\ Tail(raw') = Append(Tail(raw), c)
    BY <1>1, <1>4
  <2>3. SendInv'
    BY <1>1, <1>2, <1>4, <2>1, <2>2 DEF SendInv, Enabled, UnderWay, FirstOnly
  <2>4. Unsent' = Append(Unsent, c)
    BY <1>1, <1>4, <2>1, <2>2 DEF Unsent
  <2>5. Len(Unsent) <= Len(raw)
    BY <1>1, <1>4 DEF Unsent
  <2>6. Len(Unsent) \in Nat /\ Len(raw) \in Nat
    BY <1>1, <1>4 DEF Unsent
  <2> QED
    BY <1>1, <2>3, <2>4, <2>5, <2>6, SizeAssumption
<1> QED
  BY <1>3, <1>4

\* The peer lets the held character go: it is still not sent.
LEMMA ModemSends ==
  ASSUME TypeInv, QuietInv, SendInv, IsrModemStatus
  PROVE  SendInv' /\ UNCHANGED <<Unsent, taken>>
<1>1. /\ ~DLAB /\ UNCHANGED <<opener, opened, raw, taken>>
      /\ isr = "MODEM_STATUS" /\ isr' = "identify"
  BY DEF IsrModemStatus, QuietInv, Alone, DivisorOnly, openVars, historyVars
<1>2. CASE uart_data.hwFlow /\ CTS /\ hold # NoChar
  <2>1. /\ thr = NoChar /\ raw # <<>> /\ hold \in Char /\ hold = Head(raw)
        /\ device_write(hold, FALSE, NoChar)
    BY <1>2 DEF IsrModemStatus, QuietInv, Sending, SendInv, FirstOnly, TypeInv, TypeOK
  <2>2. /\ \/ hold' = hold /\ thr' = NoChar
           \/ hold' = NoChar /\ thr' = hold /\ tx_active'
        /\ tx_active' => TRANSMIT_ENABLE \in IER'
    BY <1>1, <2>1, WriteSends DEF TypeInv, SendInv
  <2> QED
    BY <1>1, <1>2, <2>1, <2>2 DEF SendInv, OpenFirst, Enabled, UnderWay, FirstOnly, Unsent
<1>3. CASE ~(uart_data.hwFlow /\ CTS /\ hold # NoChar)
  <2>1. UNCHANGED <<IER, thr, thri, tx_active, hold>>
    BY <1>3 DEF IsrModemStatus
  <2> QED
    BY <1>1, <2>1 DEF SendInv, OpenFirst, Enabled, UnderWay, FirstOnly, Unsent
<1> QED
  BY <1>2, <1>3

\* The character that was sent is dropped, and the next one written.
LEMMA DequeueSends ==
  ASSUME TypeInv, QuietInv, SendInv, IsrTransmit
  PROVE  SendInv' /\ UNCHANGED <<Unsent, taken>>
<1>1. /\ ~DLAB /\ UNCHANGED <<opener, opened, taken>>
      /\ raw # <<>> /\ raw \in Seq(Char) /\ thr = NoChar /\ hold = NoChar
      /\ raw' = Tail(raw) /\ raw' \in Seq(Char)
  BY DEF IsrTransmit, QuietInv, Sending, Alone, DivisorOnly, openVars, historyVars, TypeInv, TypeOK
<1>2. Unsent = Tail(raw)
  BY <1>1 DEF Unsent
<1>3. OpenFirst'
  BY <1>1 DEF SendInv, OpenFirst
<1>4. CASE Len(raw) > 1
  <2>1. raw[2] \in Char /\ device_write(raw[2], stopped, NoChar)
    BY <1>1, <1>4 DEF IsrTransmit
  <2>2. /\ \/ hold' = raw[2] /\ thr' = NoChar
           \/ hold' = NoChar /\ thr' = raw[2] /\ tx_active'
        /\ tx_active' => TRANSMIT_ENABLE \in IER'
    BY <1>1, <2>1, WriteSends DEF TypeInv, SendInv
  <2>3. raw' # <<>> /\ Head(raw') = raw[2]
    <3>1. Len(raw') = Len(raw) - 1 /\ Len(raw) \in Nat
      BY <1>1
    <3>2. 1 \in 1 .. Len(raw') /\ raw'[1] = raw[2]
      BY <1>1, <1>4, <3>1
    <3>3. raw' # <<>>
      BY <1>4, <3>1
    <3>4. Head(raw') = raw'[1]
      BY <1>1, <3>3
    <3> QED
      BY <3>2, <3>3, <3>4
  <2>4. SendInv'
    BY <1>3, <2>1, <2>2, <2>3, CharAssumption DEF SendInv, Enabled, UnderWay, FirstOnly
  <2>5. Unsent' = raw'
    BY <2>1, <2>2, <2>3, CharAssumption DEF Unsent
  <2> QED
    BY <1>1, <1>2, <2>4, <2>5
<1>5. CASE ~(Len(raw) > 1)
  <2>1. raw' = <<>>
    BY <1>1, <1>5
  <2>2. tx_active' = FALSE
    BY <1>5 DEF IsrTransmit
  <2> QED
    BY <1>1, <1>2, <1>3, <2>1, <2>2 DEF SendInv, Enabled, UnderWay, FirstOnly, Unsent
<1> QED
  BY <1>4, <1>5

\* The other steps of the interrupt routine.
LEMMA RoutineSends ==
  ASSUME TypeInv, SendInv, IsrEnter \/ IsrIdentify \/ IsrReceive \/ uartError \/ IsrReturn
  PROVE  SendInv' /\ UNCHANGED <<Unsent, taken>>
<1>1. UNCHANGED <<opener, opened, raw, tx_active, hold, thr, IER, taken>>
  BY DEF IsrEnter, IsrIdentify, IsrReceive, uartError, IsrReturn, lineVars, txVars, openVars, historyVars
<1>2. /\ isr # "TRANSMITTER_HODING_REGISTER_EMPTY"
      /\ thri => thri' \/ isr' = "TRANSMITTER_HODING_REGISTER_EMPTY"
  <2>1. CASE IsrIdentify
    <3>1. isr = "identify" /\ isr' = Cause
          /\ thri' = (thri /\ Cause # "TRANSMITTER_HODING_REGISTER_EMPTY")
      BY <2>1 DEF IsrIdentify
    <3> QED
      BY <3>1
  <2>2. CASE IsrEnter \/ IsrReceive \/ uartError \/ IsrReturn
    BY <2>2 DEF IsrEnter, IsrReceive, uartError, IsrReturn, lineVars, Thread
  <2> QED
    BY <2>1, <2>2
<1> QED
  BY <1>1, <1>2 DEF SendInv, OpenFirst, Enabled, UnderWay, FirstOnly, Unsent

\* A character leaves the port: it is the first of the queue.
LEMMA TransmitSends ==
  ASSUME TypeInv, QuietInv, SendInv, Transmit
  PROVE  /\ SendInv' /\ Unsent # <<>>
         /\ taken' = Head(Unsent) /\ Unsent' = Tail(Unsent)
<1>1. /\ UNCHANGED <<opener, opened, raw, tx_active, hold, IER, isr>>
      /\ thr # NoChar /\ thr' = NoChar /\ thri' = TRUE /\ taken' = thr
  BY DEF Transmit, txVars, openVars
<1>2. raw # <<>> /\ hold = NoChar /\ thr = Head(raw)
  BY <1>1 DEF QuietInv, Sending, SendInv, FirstOnly
<1>3. Unsent = raw /\ Unsent' = Tail(raw)
  BY <1>1, <1>2 DEF Unsent
<1>4. SendInv'
  BY <1>1 DEF SendInv, OpenFirst, Enabled, UnderWay, FirstOnly
<1> QED
  BY <1>1, <1>2, <1>3, <1>4

\* While the port is opened or its attributes are set nothing is to be sent.
LEMMA SetUpSends ==
  ASSUME MaxOpens <= 1, TypeInv, QuietInv, SendInv,
         BSP_uart_set_attributes \/ BSP_uart_termios_set \/ BSP_uart_intr_ctrl
  PROVE  SendInv' /\ UNCHANGED <<Unsent, taken>>
<1>1. raw = <<>> /\ raw' = <<>> /\ taken' = taken
  <2>1. CASE BSP_uart_set_attributes
    <3>1. attr.at # "idle" /\ UNCHANGED <<raw, taken>>
      BY <2>1 DEF BSP_uart_set_attributes, BSP_uart_init, InitDivisor, InitLine, InitFifos,
         InitDisable, InitClear, RestoreIER, AttrStep, txVars, historyVars
    <3> QED
      BY <3>1 DEF QuietInv, Alone
  <2>2. CASE BSP_uart_termios_set
    <3>1. opened = 0 /\ UNCHANGED <<raw, taken>>
      BY <2>2, SizeAssumption DEF BSP_uart_termios_set, TypeInv, TypeOK, historyVars
    <3> QED
      BY <3>1 DEF SendInv, OpenFirst
  <2>3. CASE BSP_uart_intr_ctrl
    BY <2>3 DEF BSP_uart_intr_ctrl, txVars, historyVars, SendInv, OpenFirst
  <2> QED
    BY <2>1, <2>2, <2>3
<1>2. tx_active' = FALSE
  <2>1. tx_active = FALSE
    BY <1>1 DEF SendInv, Enabled, TypeInv, TypeOK
  <2> QED
    BY <2>1 DEF BSP_uart_set_attributes, BSP_uart_init, InitDivisor, InitLine, InitFifos,
         InitDisable, InitClear, RestoreIER, AttrStep, BSP_uart_termios_set, BSP_uart_intr_ctrl, txVars
<1> QED
  BY <1>1, <1>2 DEF SendInv, OpenFirst, Enabled, UnderWay, FirstOnly, Unsent

\* A step accepts a character, takes the first one or leaves the queue alone.
LEMMA SendStep ==
  ASSUME MaxOpens <= 1, TypeInv, QuietInv, SendInv, [Next]_vars
  PROVE  SendInv' /\ [Output!Next]_Output!vars
<1>1. CASE Isr
  BY <1>1, ModemSends, DequeueSends, RoutineSends DEF Isr, Output!vars
<1>2. CASE Transmit
  BY <1>2, TransmitSends DEF Output!Next, Output!Take
<1>3. CASE \E c \in Char : Puts(c)
  <2>1. PICK c \in Char : Puts(c)
    BY <1>3
  <2>2. taken' = taken
    BY <2>1 DEF Puts, historyVars
  <2> QED
    BY <2>1, <2>2, PutsSends DEF Output!Next, Output!Accept
<1>4. CASE \/ ChangeCTS \/ tty_close \/ (\E bad \in BOOLEAN : Receive(bad))
           \/ (\E t \in Settings : SetAttributes(t)) \/ UNCHANGED vars
  <2>1. UNCHANGED <<opener, opened, raw, tx_active, hold, thr, thri, IER, isr, taken>>
    BY <1>4 DEF ChangeCTS, tty_close, Receive, SetAttributes, vars, lineVars, txVars, openVars,
       historyVars
  <2> QED
    BY <2>1, SendKept DEF Output!vars
<1>5. CASE BSP_uart_set_attributes \/ tty1_open \/ tty2_open
  BY <1>5, SetUpSends DEF tty1_open, tty2_open, Output!vars
<1> QED
  BY <1>1, <1>2, <1>3, <1>4, <1>5
    DEF Next, BSP_uart_termios_isr_com1, BSP_uart_termios_isr_com2, Hardware

LEMMA InitSends ==
  ASSUME Init
  PROVE  SendInv /\ Output!Init
<1>1. /\ raw = <<>> /\ tx_active = FALSE /\ thr = NoChar /\ hold = NoChar /\ taken = NoChar
  BY DEF Init
<1> QED
  BY <1>1 DEF SendInv, OpenFirst, Enabled, UnderWay, FirstOnly, Output!Init, Unsent

\* If the port is opened once, characters written are never left behind: unless the
\* peer has stopped it, the first one is in the transmitter or its interrupt is due,
\* and enabled (uart.c:594-604, 681-690).
THEOREM TransmitIsKept ==
  ASSUME GentleLine, MaxOpens <= 1
  PROVE  Spec => []TransmitKept
<1>1. Init => TypeInv /\ QuietInv /\ SendInv
  BY InitTyped, InitQuiet, InitSends
<1>2. TypeInv /\ QuietInv /\ SendInv /\ [Next]_vars => TypeInv' /\ QuietInv' /\ SendInv'
  BY TypeStep, QuietStep, SendStep
<1>3. SendInv => TransmitKept
  BY DEF SendInv, Enabled, UnderWay, TransmitKept
<1> QED
  BY <1>1, <1>2, <1>3, PTL DEF Spec

\* If the port is opened once, what is written leaves it once and in order: interrupt
\* routine, held character and termios buffer together are a queue (uart.c:575-650,
\* 681-690).
THEOREM OutputIsQueue ==
  ASSUME GentleLine, MaxOpens <= 1
  PROVE  Spec => OutputSpec
<1>1. Init => TypeInv /\ QuietInv /\ SendInv /\ Output!Init
  BY InitTyped, InitQuiet, InitSends
<1>2. TypeInv /\ QuietInv /\ SendInv /\ [Next]_vars
        => TypeInv' /\ QuietInv' /\ SendInv' /\ [Output!Next]_Output!vars
  BY TypeStep, QuietStep, SendStep
<1> QED
  BY <1>1, <1>2, PTL DEF Spec, OutputSpec, Output!Spec

=============================================================================
