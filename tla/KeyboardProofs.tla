--------------------------- MODULE KeyboardProofs ---------------------------
(***************************************************************************)
(* Proofs about Keyboard, for every set of keys and every bound.  What the *)
(* driver takes to be down lags behind what is down by the bytes that it   *)
(* has not read.  The invariant says that there is a path between the two: *)
(* one set of keys before and after each of these bytes.                   *)
(***************************************************************************)
EXTENDS Keyboard, FiniteSetTheorems, SequenceTheorems, TLAPS

\* The bytes the driver has not read.
Pending == IF obf = {} THEN wire ELSE <<CHOOSE b \in obf : TRUE>> \o wire

\* The keys a byte stands for behind the byte prev, and the keys down after it.
KeysOf(b, prev) ==
  IF b = E0 THEN {}
  ELSE IF prev = E0 THEN {E0Keys[x] : x \in DOMAIN E0Keys \cap {b.code}}
  ELSE {PlainKeys[b.code]}

After(b, prev, down) ==
  IF b.up THEN down \ KeysOf(b, prev) ELSE down \cup KeysOf(b, prev)

\* A byte fits when it completes a prefix if there is one, and releases only keys
\* that are down (the replies release a key that nobody has).
Fits(b, prev, down) ==
  /\ prev = E0 => b.code \in DOMAIN E0Keys
  /\ b.up /\ b \notin {E0, ACK, RESEND} => KeysOf(b, prev) \subseteq down

\* The bytes p, behind prev, lead through the sets of keys d.
PrevAt(p, i, prev) == IF i = 1 THEN prev ELSE p[i - 1]

Leads(p, d, prev) ==
  /\ d \in Seq(SUBSET KeyCode) /\ Len(d) = Len(p) + 1
  /\ \A i \in 1 .. Len(p) :
       /\ Fits(p[i], PrevAt(p, i, prev), d[i])
       /\ d[i + 1] = After(p[i], PrevAt(p, i, prev), d[i])

LastOf(p, prev) == PrevAt(p, Len(p) + 1, prev)

\* A path from one set of keys to another, that leaves no prefix without its byte.
LeadTo(p, prev, from, to) ==
  /\ LastOf(p, prev) # E0
  /\ \E d : Leads(p, d, prev) /\ d[1] = from /\ d[Len(d)] = to

\* The byte read last, as far as the driver remembers it.
ReadLast == IF prev_scancode THEN E0 ELSE ACK

\* From what the driver takes to be down, the bytes it has not read lead to what is
\* down.
KeysFollow == LeadTo(Pending, ReadLast, key_down, held)

\* A byte that waits has raised the interrupt, and no handler has taken it back.
Raised == obf # {} => irq

IInv == TypeOK /\ KeysFollow /\ ModifiersCounted /\ Raised

-----------------------------------------------------------------------------
(* The tables of keys. *)

\* The keys of the model's scan codes.
LEMMA Tables ==
  /\ DOMAIN E0Keys = {"ctrl", "alt"}
  /\ E0Keys["ctrl"] = "ctrlr" /\ E0Keys["alt"] = "altgr"
  /\ DOMAIN PlainKeys = {"shiftl", "shiftr", "ctrl", "alt", "caps", "fa", "fe"}
  /\ PlainKeys["shiftl"] = "shiftl" /\ PlainKeys["shiftr"] = "shiftr"
  /\ PlainKeys["ctrl"] = "ctrll" /\ PlainKeys["alt"] = "altl"
  /\ PlainKeys["caps"] = "caps"
  /\ PlainKeys["fa"] = "focus6" /\ PlainKeys["fe"] = "focus10"
  BY DEF E0Keys, PlainKeys

\* Bytes are the prefix, the replies, and the codes of the other keys.
LEMMA ByteShape ==
  ASSUME NEW b \in Bytes
  PROVE  /\ b.up \in BOOLEAN
         /\ b # E0 => b.code \in DOMAIN PlainKeys
         /\ b \in {ACK, RESEND} => b.code \in {"fa", "fe"} /\ b.up
         /\ b.code \in {"fa", "fe"} => b \in {ACK, RESEND}
         /\ b = E0 => b.code \notin DOMAIN E0Keys /\ b.up
<1>1. CASE b \in {E0, ACK, RESEND}
  <2>1. /\ E0.code = "e0" /\ ACK.code = "fa" /\ RESEND.code = "fe"
        /\ E0.up = TRUE /\ ACK.up = TRUE /\ RESEND.up = TRUE
    BY DEF E0, ACK, RESEND, Byte
  <2>2. b.up = TRUE
    BY <1>1, <2>1
  <2> QED
    BY <1>1, <2>1, <2>2, Tables
<1>2. CASE b \in [code : DOMAIN PlainKeys \ {"fa", "fe"}, up : BOOLEAN]
  <2>1. b.code \in DOMAIN PlainKeys \ {"fa", "fe"} /\ b.up \in BOOLEAN
    BY <1>2
  <2>2. b.code # "e0"
    BY <2>1, Tables
  <2>3. E0.code = "e0" /\ ACK.code = "fa" /\ RESEND.code = "fe"
    BY DEF E0, ACK, RESEND, Byte
  <2> QED
    BY <2>1, <2>2, <2>3
<1> QED
  BY <1>1, <1>2 DEF Bytes

\* A reply is not the prefix.
LEMMA NoPrefix == ACK # E0
<1>1. ACK.code = "fa" /\ E0.code = "e0"
  BY DEF ACK, E0, Byte
<1> QED
  BY <1>1

\* The bytes of a key are one that stands for it, or the prefix and one that stands
\* for it behind the prefix.
LEMMA KeyCodes ==
  ASSUME NEW k \in KeyCode, NEW up \in BOOLEAN
  PROVE  \E b \in Bytes :
           /\ b \notin {E0, ACK, RESEND} /\ b.up = up
           /\ \/ CodesOf(k, up) = <<b>> /\ KeysOf(b, ACK) = {k}
              \/ /\ CodesOf(k, up) = <<E0, b>> /\ KeysOf(b, E0) = {k}
                 /\ b.code \in DOMAIN E0Keys
<1>1. CASE k \in {"ctrlr", "altgr"}
  <2> DEFINE b == Byte(IF k = "ctrlr" THEN "ctrl" ELSE "alt", up)
  <2>1. b \in Bytes /\ b \notin {E0, ACK, RESEND} /\ b.up = up
    BY Tables DEF Bytes, Byte, E0, ACK, RESEND
  <2>2. b.code \in {"ctrl", "alt"} /\ (k = "ctrlr" <=> b.code = "ctrl")
    BY <1>1 DEF Byte
  <2>3. KeysOf(b, E0) = {E0Keys[b.code]} /\ E0Keys[b.code] = k
    <3> HIDE DEF b
    <3> QED
      BY <1>1, <2>1, <2>2, Tables DEF KeysOf
  <2>4. CodesOf(k, up) = <<E0, b>>
    BY <1>1 DEF CodesOf
  <2> QED
    BY <2>1, <2>2, <2>3, <2>4, Tables
<1>2. CASE k \notin {"ctrlr", "altgr"}
  <2> DEFINE b == Byte(IF k = "ctrll" THEN "ctrl" ELSE k, up)
  <2>1. b \in Bytes /\ b \notin {E0, ACK, RESEND} /\ b.up = up
    BY <1>2, Tables DEF Bytes, Byte, E0, ACK, RESEND, KeyCode
  <2>2. b.code = IF k = "ctrll" THEN "ctrl" ELSE k
    BY DEF Byte
  <2>3. KeysOf(b, ACK) = {k}
    <3> HIDE DEF b
    <3> QED
      BY <1>2, <2>1, <2>2, Tables, NoPrefix DEF KeysOf, KeyCode
  <2>4. CodesOf(k, up) = <<b>>
    BY <1>2 DEF CodesOf
  <2> QED
    BY <2>1, <2>3, <2>4
<1> QED
  BY <1>1, <1>2

\* A reply changes no keys unless it follows the prefix.
LEMMA ReplyKeys ==
  ASSUME NEW r \in {ACK, RESEND}
  PROVE  /\ r # E0
         /\ r.code \notin DOMAIN E0Keys
         /\ \A prev : \A down \in SUBSET KeyCode :
              prev # E0 => After(r, prev, down) = down /\ Fits(r, prev, down)
<1>1. r.up /\ r.code \in {"fa", "fe"} /\ r # E0
  <2>1. /\ E0.code = "e0" /\ ACK.code = "fa" /\ RESEND.code = "fe"
        /\ ACK.up = TRUE /\ RESEND.up = TRUE
    BY DEF E0, ACK, RESEND, Byte
  <2> QED
    BY <2>1
<1>2. ASSUME NEW prev, prev # E0, NEW down \in SUBSET KeyCode
      PROVE  After(r, prev, down) = down /\ Fits(r, prev, down)
  <2>1. KeysOf(r, prev) \subseteq {"focus6", "focus10"}
    BY <1>1, <1>2, Tables DEF KeysOf
  <2> QED
    BY <1>1, <1>2, <2>1 DEF After, Fits, KeyCode
<1> QED
  BY <1>1, <1>2, Tables

-----------------------------------------------------------------------------
(* Paths through sets of keys. *)

\* Reading the first byte leaves the rest of the path.
LEMMA LeadsTail ==
  ASSUME NEW p \in Seq(Bytes), p # <<>>, NEW prev \in Bytes, NEW d,
         Leads(p, d, prev)
  PROVE  /\ Leads(Tail(p), Tail(d), Head(p))
         /\ Tail(d)[1] = After(Head(p), prev, d[1])
         /\ Tail(d)[Len(Tail(d))] = d[Len(d)]
         /\ Fits(Head(p), prev, d[1])
         /\ LastOf(Tail(p), Head(p)) = LastOf(p, prev)
<1>1. /\ d \in Seq(SUBSET KeyCode) /\ Len(d) = Len(p) + 1 /\ Len(p) \in Nat \ {0}
      /\ Tail(p) \in Seq(Bytes) /\ Len(Tail(p)) = Len(p) - 1
      /\ Tail(d) \in Seq(SUBSET KeyCode) /\ Len(Tail(d)) = Len(d) - 1
      /\ \A i \in 1 .. Len(Tail(p)) : Tail(p)[i] = p[i + 1]
      /\ \A i \in 1 .. Len(Tail(d)) : Tail(d)[i] = d[i + 1]
      /\ Head(p) = p[1]
  BY HeadTailProperties DEF Leads
<1>2. \A i \in 1 .. Len(Tail(p)) + 1 :
        PrevAt(Tail(p), i, Head(p)) = PrevAt(p, i + 1, prev)
  BY <1>1 DEF PrevAt
<1>3. ASSUME NEW i \in 1 .. Len(Tail(p))
      PROVE  /\ Fits(Tail(p)[i], PrevAt(Tail(p), i, Head(p)), Tail(d)[i])
             /\ Tail(d)[i + 1] = After(Tail(p)[i], PrevAt(Tail(p), i, Head(p)), Tail(d)[i])
  <2>1. i + 1 \in 1 .. Len(p) /\ i \in 1 .. Len(Tail(d)) /\ i + 1 \in 1 .. Len(Tail(d))
    BY <1>1
  <2>2. Tail(p)[i] = p[i + 1] /\ Tail(d)[i] = d[i + 1] /\ Tail(d)[i + 1] = d[(i + 1) + 1]
    BY <1>1, <2>1
  <2> QED
    BY <2>1, <2>2, <1>2 DEF Leads
<1>4. 1 \in 1 .. Len(p) /\ PrevAt(p, 1, prev) = prev
  BY <1>1 DEF PrevAt
<1>5. Fits(p[1], prev, d[1]) /\ d[1 + 1] = After(p[1], prev, d[1])
  BY <1>4 DEF Leads
<1>6. LastOf(Tail(p), Head(p)) = LastOf(p, prev)
  BY <1>1, <1>2 DEF LastOf
<1>7. Tail(d)[1] = d[2] /\ Tail(d)[Len(Tail(d))] = d[Len(d)]
  BY <1>1
<1> QED
  BY <1>1, <1>3, <1>5, <1>6, <1>7 DEF Leads

\* Of the byte before only matters whether it is the prefix.
LEMMA LeadsSame ==
  ASSUME NEW p \in Seq(Bytes), NEW prev, NEW prev2, prev = E0 <=> prev2 = E0,
         NEW d, Leads(p, d, prev)
  PROVE  Leads(p, d, prev2) /\ (LastOf(p, prev) # E0 => LastOf(p, prev2) # E0)
<1>1. \A i : PrevAt(p, i, prev) = E0 <=> PrevAt(p, i, prev2) = E0
  BY DEF PrevAt
<1>2. ASSUME NEW b, NEW q, NEW q2, NEW x, q = E0 <=> q2 = E0
      PROVE  (Fits(b, q, x) => Fits(b, q2, x)) /\ After(b, q, x) = After(b, q2, x)
  <2>1. KeysOf(b, q) = KeysOf(b, q2)
    BY <1>2 DEF KeysOf
  <2> QED
    BY <1>2, <2>1 DEF Fits, After
<1> QED
  BY <1>1, <1>2 DEF Leads, LastOf

\* A byte that fits behind the last one prolongs the path.
LEMMA LeadsAppend ==
  ASSUME NEW p \in Seq(Bytes), NEW prev \in Bytes, NEW d,
         Leads(p, d, prev), NEW b \in Bytes,
         Fits(b, LastOf(p, prev), d[Len(d)]),
         After(b, LastOf(p, prev), d[Len(d)]) \in SUBSET KeyCode
  PROVE  \E e : /\ Leads(Append(p, b), e, prev)
                /\ e[1] = d[1]
                /\ e[Len(e)] = After(b, LastOf(p, prev), d[Len(d)])
<1> DEFINE x == After(b, LastOf(p, prev), d[Len(d)])
           q == Append(p, b)
           e == Append(d, x)
<1>1. /\ d \in Seq(SUBSET KeyCode) /\ Len(d) = Len(p) + 1 /\ Len(p) \in Nat
      /\ q \in Seq(Bytes) /\ Len(q) = Len(p) + 1
      /\ e \in Seq(SUBSET KeyCode) /\ Len(e) = Len(d) + 1
      /\ \A i \in 1 .. Len(p) : q[i] = p[i]
      /\ \A i \in 1 .. Len(d) : e[i] = d[i]
      /\ q[Len(p) + 1] = b /\ e[Len(d) + 1] = x
  BY DEF Leads
<1> HIDE DEF x, q, e
<1>2. \A i \in 1 .. Len(q) : PrevAt(q, i, prev) = PrevAt(p, i, prev)
  BY <1>1 DEF PrevAt
<1>3. ASSUME NEW i \in 1 .. Len(q)
      PROVE  /\ Fits(q[i], PrevAt(q, i, prev), e[i])
             /\ e[i + 1] = After(q[i], PrevAt(q, i, prev), e[i])
  <2>1. CASE i \in 1 .. Len(p)
    <3>1. q[i] = p[i] /\ e[i] = d[i] /\ e[i + 1] = d[i + 1]
      BY <1>1, <2>1
    <3> QED
      BY <3>1, <1>2, <2>1 DEF Leads
  <2>2. CASE i = Len(p) + 1
    <3>1. q[i] = b /\ e[i] = d[Len(d)] /\ e[i + 1] = x
      BY <1>1, <2>2
    <3>2. PrevAt(q, i, prev) = LastOf(p, prev)
      BY <1>2, <2>2 DEF LastOf
    <3> QED
      BY <3>1, <3>2 DEF x
  <2> QED
    BY <1>1, <2>1, <2>2
<1>4. Leads(q, e, prev)
  BY <1>1, <1>3 DEF Leads
<1>5. e[1] = d[1] /\ e[Len(e)] = x
  BY <1>1
<1> QED
  BY <1>4, <1>5 DEF x, q

\* What is last behind a byte appended.
LEMMA LastAppended ==
  ASSUME NEW p \in Seq(Bytes), NEW prev \in Bytes, NEW b \in Bytes
  PROVE  LastOf(Append(p, b), prev) = b
<1>1. Len(p) \in Nat /\ Len(Append(p, b)) = Len(p) + 1 /\ Append(p, b)[Len(p) + 1] = b
  OBVIOUS
<1> QED
  BY <1>1 DEF LastOf, PrevAt

\* The first and the last set of keys of a path.
LEMMA EndKeys ==
  ASSUME NEW p \in Seq(Bytes), NEW prev \in Bytes, NEW d, Leads(p, d, prev)
  PROVE  d[Len(d)] \in SUBSET KeyCode /\ d[1] \in SUBSET KeyCode
  BY DEF Leads

\* Pressing a key, or releasing one that is down, prolongs the path by its bytes.
LEMMA LeadsKey ==
  ASSUME NEW p \in Seq(Bytes), NEW prev \in Bytes, NEW from, NEW to,
         LeadTo(p, prev, from, to),
         NEW k \in KeyCode, NEW up \in BOOLEAN, up => k \in to
  PROVE  /\ CodesOf(k, up) \in Seq(Bytes)
         /\ LeadTo(p \o CodesOf(k, up), prev, from, IF up THEN to \ {k} ELSE to \cup {k})
<1>d. PICK d : Leads(p, d, prev) /\ d[1] = from /\ d[Len(d)] = to
  BY DEF LeadTo
<1>0. LastOf(p, prev) # E0
  BY DEF LeadTo
<1>1. PICK b \in Bytes :
        /\ b \notin {E0, ACK, RESEND} /\ b.up = up
        /\ \/ CodesOf(k, up) = <<b>> /\ KeysOf(b, ACK) = {k}
           \/ /\ CodesOf(k, up) = <<E0, b>> /\ KeysOf(b, E0) = {k}
              /\ b.code \in DOMAIN E0Keys
  BY KeyCodes
<1> DEFINE x == IF up THEN to \ {k} ELSE to \cup {k}
           y == LastOf(p, prev)
<1>2. E0 \in Bytes /\ to \in SUBSET KeyCode /\ x \in SUBSET KeyCode
  BY <1>d, EndKeys DEF Bytes
<1>3. CASE CodesOf(k, up) = <<b>> /\ KeysOf(b, ACK) = {k}
  <2>1. p \o CodesOf(k, up) = Append(p, b) /\ CodesOf(k, up) \in Seq(Bytes)
    BY <1>3
  <2>2. KeysOf(b, y) = {k}
    BY <1>0, <1>1, <1>3, NoPrefix DEF KeysOf
  <2>3. x = After(b, y, to) /\ Fits(b, y, to)
    BY <1>0, <1>1, <2>2 DEF After, Fits
  <2> HIDE DEF x
  <2>5. \E e : /\ Leads(Append(p, b), e, prev)
               /\ e[1] = d[1] /\ e[Len(e)] = x
    BY <1>d, <1>1, <1>2, <2>3, LeadsAppend
  <2>6. LastOf(Append(p, b), prev) # E0
    BY <1>1, LastAppended
  <2> QED
    BY <1>d, <2>1, <2>5, <2>6 DEF x, LeadTo
<1>4. CASE /\ CodesOf(k, up) = <<E0, b>> /\ KeysOf(b, E0) = {k}
           /\ b.code \in DOMAIN E0Keys
  <2> DEFINE q == Append(p, E0)
  <2>1. p \o CodesOf(k, up) = Append(q, b) /\ q \in Seq(Bytes) /\ CodesOf(k, up) \in Seq(Bytes)
    BY <1>2, <1>4
  <2>2. to = After(E0, y, to) /\ Fits(E0, y, to)
    BY <1>0 DEF After, Fits, KeysOf
  <2>3. x = After(b, E0, to) /\ Fits(b, E0, to)
    BY <1>1, <1>4 DEF After, Fits
  <2>4. LastOf(q, prev) = E0
    BY <1>2, LastAppended
  <2>6. PICK c : /\ Leads(q, c, prev)
                 /\ c[1] = d[1] /\ c[Len(c)] = to
    BY <1>d, <1>2, <2>2, LeadsAppend
  <2> HIDE DEF x, q
  <2>7. \E e : /\ Leads(Append(q, b), e, prev)
               /\ e[1] = c[1] /\ e[Len(e)] = x
    BY <1>1, <1>2, <2>1, <2>3, <2>4, <2>6, LeadsAppend
  <2>8. LastOf(Append(q, b), prev) # E0
    BY <1>1, <2>1, LastAppended
  <2> QED
    BY <1>d, <2>1, <2>6, <2>7, <2>8 DEF x, LeadTo
<1> QED
  BY <1>1, <1>3, <1>4

\* A reply leads nowhere: the keys whose codes it has are nobody's.
LEMMA LeadsReply ==
  ASSUME NEW p \in Seq(Bytes), NEW prev \in Bytes, NEW from, NEW to,
         LeadTo(p, prev, from, to), NEW r \in {ACK, RESEND}
  PROVE  LeadTo(p \o <<r>>, prev, from, to)
<1> PICK d : Leads(p, d, prev) /\ d[1] = from /\ d[Len(d)] = to
  BY DEF LeadTo
<1> DEFINE last == d[Len(d)]
           y    == LastOf(p, prev)
<1>1. r \in Bytes
  BY DEF Bytes
<1>2. p \o <<r>> = Append(p, r)
  OBVIOUS
<1>3. last \in SUBSET KeyCode
  BY EndKeys
<1>4. last = After(r, y, last) /\ Fits(r, y, last)
  BY <1>3, ReplyKeys DEF LeadTo
<1>5. \E e : /\ Leads(Append(p, r), e, prev)
             /\ e[1] = d[1] /\ e[Len(e)] = last
  BY <1>1, <1>3, <1>4, LeadsAppend
<1>6. LastOf(Append(p, r), prev) # E0
  BY <1>1, LastAppended, ReplyKeys
<1> QED
  BY <1>2, <1>5, <1>6 DEF LeadTo

\* Reading the first byte shortens the path by its first step.
LEMMA LeadsRest ==
  ASSUME NEW p \in Seq(Bytes), p # <<>>, NEW prev \in Bytes, NEW from, NEW to,
         LeadTo(p, prev, from, to), NEW prev2, prev2 = E0 <=> Head(p) = E0
  PROVE  /\ LeadTo(Tail(p), prev2, After(Head(p), prev, from), to)
         /\ Fits(Head(p), prev, from)
         /\ from \in SUBSET KeyCode /\ After(Head(p), prev, from) \in SUBSET KeyCode
<1>1. PICK d : Leads(p, d, prev) /\ d[1] = from /\ d[Len(d)] = to
  BY DEF LeadTo
<1>2. /\ Leads(Tail(p), Tail(d), Head(p))
      /\ Tail(d)[1] = After(Head(p), prev, from)
      /\ Tail(d)[Len(Tail(d))] = to
      /\ Fits(Head(p), prev, from)
      /\ LastOf(Tail(p), Head(p)) # E0
  BY <1>1, LeadsTail DEF LeadTo
<1>3. Tail(p) \in Seq(Bytes) /\ Head(p) \in Bytes
  OBVIOUS
<1>4. Leads(Tail(p), Tail(d), prev2) /\ LastOf(Tail(p), prev2) # E0
  BY <1>2, <1>3, LeadsSame
<1>5. from \in SUBSET KeyCode /\ After(Head(p), prev, from) \in SUBSET KeyCode
  BY <1>1, <1>2, <1>3, EndKeys
<1> QED
  BY <1>2, <1>4, <1>5 DEF LeadTo

-----------------------------------------------------------------------------
(* The path and the steps of the keyboard. *)

\* The bytes not read, with and without one in the output buffer.
LEMMA PendingBytes ==
  ASSUME TypeOK
  PROVE  /\ Pending \in Seq(Bytes)
         /\ obf = {} => Pending = wire
         /\ \A b \in obf : /\ b \in Bytes /\ Pending = <<b>> \o wire /\ Pending # <<>>
                           /\ Head(Pending) = b /\ Tail(Pending) = wire
<1>1. ASSUME NEW b \in obf
      PROVE  b \in Bytes /\ (CHOOSE x \in obf : TRUE) = b
  BY DEF TypeOK
<1>2. ASSUME NEW b \in Bytes
      PROVE  /\ <<b>> \o wire \in Seq(Bytes) /\ <<b>> \o wire # <<>>
             /\ Head(<<b>> \o wire) = b /\ Tail(<<b>> \o wire) = wire
  BY DEF TypeOK
<1> QED
  BY <1>1, <1>2 DEF Pending, TypeOK

\* Bytes sent come behind those that wait.
LEMMA PendingGrows ==
  ASSUME TypeOK, NEW bytes \in Seq(Bytes), wire' = wire \o bytes, obf' = obf
  PROVE  Pending' = Pending \o bytes
<1>1. CASE obf = {}
  BY <1>1 DEF Pending
<1>2. ASSUME NEW b \in obf PROVE Pending' = Pending \o bytes
  <2>1. Pending = <<b>> \o wire /\ b \in Bytes
    BY PendingBytes
  <2>2. Pending' = <<CHOOSE x \in obf : TRUE>> \o (wire \o bytes)
    BY <1>2 DEF Pending
  <2>3. (CHOOSE x \in obf : TRUE) = b
    BY <1>2 DEF TypeOK
  <2>4. <<b>> \in Seq(Bytes) /\ wire \in Seq(Bytes)
    BY <2>1 DEF TypeOK
  <2> QED
    BY <2>1, <2>2, <2>3, <2>4, ConcatAssociative
<1> QED
  BY <1>1, <1>2

\* Nothing changes for the keys if no byte moves.
LEMMA FollowUnchanged ==
  ASSUME KeysFollow, UNCHANGED <<wire, obf, prev_scancode, key_down, held>>
  PROVE  KeysFollow'
  BY DEF KeysFollow, Pending, ReadLast

\* What the keyboard sends for a key prolongs the path to the keys then held,
LEMMA PressFollows ==
  ASSUME TypeOK, KeysFollow, NEW k \in Key, Press(k) \/ Release(k)
  PROVE  KeysFollow' /\ wire' \in Seq(Bytes)
<1>1. PICK up \in BOOLEAN :
        /\ wire' = wire \o CodesOf(k, up)
        /\ up => k \in held
        /\ held' = IF up THEN held \ {k} ELSE held \cup {k}
  <2>1. CASE Press(k)
    BY <2>1 DEF Press, Transmit
  <2>2. CASE Release(k)
    BY <2>2 DEF Release, Transmit
  <2> QED
    BY <2>1, <2>2
<1>2. UNCHANGED <<obf, prev_scancode, key_down>>
  BY DEF Press, Release, deviceRest, keyVars
<1>3. LeadTo(Pending, ReadLast, key_down, held)
  BY DEF KeysFollow
<1>4. k \in KeyCode /\ Pending \in Seq(Bytes) /\ ReadLast \in Bytes
  BY KeyAssumption, PendingBytes DEF ReadLast, Bytes
<1>5. /\ CodesOf(k, up) \in Seq(Bytes)
      /\ LeadTo(Pending \o CodesOf(k, up), ReadLast, key_down,
                IF up THEN held \ {k} ELSE held \cup {k})
  BY <1>1, <1>3, <1>4, LeadsKey
<1>6. Pending' = Pending \o CodesOf(k, up)
  BY <1>1, <1>2, <1>5, PendingGrows
<1>7. wire' \in Seq(Bytes)
  BY <1>1, <1>5 DEF TypeOK
<1> QED
  BY <1>1, <1>2, <1>3, <1>5, <1>6, <1>7 DEF KeysFollow, ReadLast

\* its replies prolong it to the same keys,
LEMMA ReceiveFollows ==
  ASSUME TypeOK, KeysFollow, Receive
  PROVE  KeysFollow' /\ wire' \in Seq(Bytes)
<1>1. PICK r \in {ACK, RESEND} : wire' = wire \o <<r>>
  BY DEF Receive, Transmit
<1>2. UNCHANGED <<obf, prev_scancode, key_down, held>>
  BY DEF Receive, deviceRest, keyVars
<1>3. LeadTo(Pending, ReadLast, key_down, held)
  BY DEF KeysFollow
<1>4. /\ r \in Bytes /\ <<r>> \in Seq(Bytes)
      /\ Pending \in Seq(Bytes) /\ ReadLast \in Bytes
  <2>1. r \in Bytes
    BY DEF Bytes
  <2>2. <<r>> \in Seq(Bytes)
    BY <2>1
  <2>3. ReadLast \in Bytes
    BY DEF ReadLast, Bytes
  <2> QED
    BY <2>1, <2>2, <2>3, PendingBytes
<1>5. LeadTo(Pending \o <<r>>, ReadLast, key_down, held)
  BY <1>1, <1>3, <1>4, LeadsReply
<1>6. Pending' = Pending \o <<r>>
  BY <1>1, <1>2, <1>4, PendingGrows
<1>7. wire' \in Seq(Bytes)
  BY <1>1, <1>4 DEF TypeOK
<1> QED
  BY <1>2, <1>3, <1>5, <1>6, <1>7 DEF KeysFollow, ReadLast

\* and the path is the same with its first byte in the output buffer.
LEMMA DeliverFollows ==
  ASSUME TypeOK, KeysFollow, Deliver
  PROVE  KeysFollow' /\ wire' \in Seq(Bytes) /\ \E b \in Bytes : obf' = {b}
<1>1. /\ obf = {} /\ wire \in Seq(Bytes) /\ wire # <<>>
      /\ obf' = {Head(wire)} /\ wire' = Tail(wire)
  BY DEF Deliver, TypeOK
<1>2. UNCHANGED <<prev_scancode, key_down, held>>
  BY DEF Deliver, deviceRest, keyVars
<1>3. Head(wire) \in Bytes /\ Tail(wire) \in Seq(Bytes) /\ <<Head(wire)>> \o Tail(wire) = wire
  BY <1>1
<1>4. (CHOOSE x \in obf' : TRUE) = Head(wire)
  BY <1>1
<1>5. Pending = wire /\ Pending' = wire
  BY <1>1, <1>3, <1>4 DEF Pending
<1> QED
  BY <1>1, <1>2, <1>3, <1>5 DEF KeysFollow, ReadLast

\* A byte is read: the driver takes the keys to be down that it leads to.
LEMMA ReadFollows ==
  ASSUME TypeOK, KeysFollow, NEW b \in obf, obf' = {}, UNCHANGED <<wire, held>>,
         ReadLast' = E0 <=> b = E0, key_down' = After(b, ReadLast, key_down)
  PROVE  KeysFollow' /\ key_down' \in SUBSET KeyCode
<1>1. /\ Pending \in Seq(Bytes) /\ Pending # <<>>
      /\ Head(Pending) = b /\ Tail(Pending) = wire
  BY PendingBytes
<1>2. Pending' = wire
  BY DEF Pending
<1>3. ReadLast \in Bytes /\ LeadTo(Pending, ReadLast, key_down, held)
  BY DEF KeysFollow, ReadLast, Bytes
<1>4. /\ LeadTo(wire, ReadLast', After(b, ReadLast, key_down), held)
      /\ After(b, ReadLast, key_down) \in SUBSET KeyCode
  BY <1>1, <1>3, LeadsRest
<1> QED
  BY <1>2, <1>4 DEF KeysFollow

\* The first byte that waits fits.
LEMMA ReadFits ==
  ASSUME TypeOK, KeysFollow, NEW b \in obf
  PROVE  /\ b \in Bytes /\ Fits(b, ReadLast, key_down)
         /\ key_down \in SUBSET KeyCode
<1>1. /\ Pending \in Seq(Bytes) /\ Pending # <<>> /\ b \in Bytes
      /\ Head(Pending) = b /\ Tail(Pending) = wire
  BY PendingBytes
<1>2. ReadLast \in Bytes /\ LeadTo(Pending, ReadLast, key_down, held)
  BY DEF KeysFollow, ReadLast, Bytes
<1> QED
  BY <1>1, <1>2, LeadsRest

\* What the driver makes of a byte that fits: the prefix is no key, every other byte
\* is one.
LEMMA TranslationKey ==
  ASSUME NEW b \in Bytes, Fits(b, ReadLast, key_down), prev_scancode \in BOOLEAN
  PROVE  \/ b = E0 /\ Translation(b) = {} /\ KeysOf(b, ReadLast) = {}
         \/ /\ b # E0
            /\ \E k \in KeyCode \cup {"altl", "focus6", "focus10"} :
                 /\ Translation(b) = {k} /\ KeysOf(b, ReadLast) = {k}
                 /\ k \in DOMAIN ModifierOf => b \notin {ACK, RESEND}
<1>1. CASE b = E0
  <2>1. ~prev_scancode
    BY <1>1, ByteShape DEF Fits, ReadLast
  <2>2. Translation(b) = {}
    BY <1>1, <2>1 DEF Translation
  <2>3. KeysOf(b, ReadLast) = {}
    BY <1>1 DEF KeysOf
  <2> QED
    BY <1>1, <2>2, <2>3
<1>2. CASE b # E0 /\ prev_scancode
  <2>1. ReadLast = E0
    BY <1>2 DEF ReadLast
  <2>2. b.code \in {"ctrl", "alt"}
    BY <2>1, Tables DEF Fits
  <2>3. KeysOf(b, ReadLast) = {E0Keys[x] : x \in DOMAIN E0Keys \cap {b.code}}
    BY <1>2, <2>1 DEF KeysOf
  <2>4. Translation(b) = {E0Keys[x] : x \in DOMAIN E0Keys \cap {b.code}}
    BY <1>2 DEF Translation
  <2>5. {E0Keys[x] : x \in DOMAIN E0Keys \cap {b.code}} = {E0Keys[b.code]}
    BY <2>2, Tables
  <2>6. E0Keys[b.code] \in KeyCode
    BY <2>2, Tables DEF KeyCode
  <2>7. b \notin {ACK, RESEND}
    BY <2>2, ReplyKeys, Tables
  <2> QED
    BY <1>2, <2>3, <2>4, <2>5, <2>6, <2>7
<1>3. CASE b # E0 /\ ~prev_scancode
  <2>1. ReadLast # E0
    BY <1>3, NoPrefix DEF ReadLast
  <2>2. b.code \in DOMAIN PlainKeys
    BY <1>3, ByteShape
  <2>3. KeysOf(b, ReadLast) = {PlainKeys[b.code]}
    BY <1>3, <2>1 DEF KeysOf
  <2>4. Translation(b) = {PlainKeys[b.code]}
    BY <1>3 DEF Translation
  <2>5. PlainKeys[b.code] \in KeyCode \cup {"altl", "focus6", "focus10"}
    BY <2>2, Tables DEF KeyCode
  <2>6. PlainKeys[b.code] \in DOMAIN ModifierOf => b \notin {ACK, RESEND}
    <3>1. b \in {ACK, RESEND} => b.code \in {"fa", "fe"}
      BY ByteShape
    <3> QED
      BY <3>1, Tables DEF ModifierOf
  <2> QED
    BY <1>3, <2>3, <2>4, <2>5, <2>6
<1> QED
  BY <1>1, <1>2, <1>3

-----------------------------------------------------------------------------
(* The counters of the modifiers. *)

\* A modifier has finitely many keys, that can be counted.
LEMMA ModifierKeysFinite ==
  ASSUME NEW down, NEW m
  PROVE  IsFiniteSet({k \in down \cap DOMAIN ModifierOf : ModifierOf[k] = m})
<1>1. IsFiniteSet(DOMAIN ModifierOf)
  <2> DEFINE A == {"ctrlr"} \cup {"altgr"}
             B == A \cup {"ctrll"}
             C == B \cup {"shiftr"}
             D == C \cup {"shiftl"}
  <2>1. DOMAIN ModifierOf = D
    BY DEF ModifierOf
  <2>2. IsFiniteSet(A)
    BY FS_Singleton, FS_AddElement
  <2> HIDE DEF A
  <2>3. IsFiniteSet(B)
    BY <2>2, FS_AddElement
  <2> HIDE DEF B
  <2>4. IsFiniteSet(C)
    BY <2>3, FS_AddElement
  <2> HIDE DEF C
  <2> QED
    BY <2>1, <2>4, FS_AddElement
<1>2. {k \in down \cap DOMAIN ModifierOf : ModifierOf[k] = m} \subseteq DOMAIN ModifierOf
  OBVIOUS
<1> QED
  BY <1>1, <1>2, FS_Subset

\* The counts are numbers.
LEMMA CountType ==
  ASSUME NEW down
  PROVE  CountDown(down) \in [Modifier -> Nat]
  BY ModifierKeysFinite, FS_CardinalityType DEF CountDown

\* A key that comes or goes changes its modifier's count by one.
LEMMA CountAdd ==
  ASSUME NEW down, NEW k \in DOMAIN ModifierOf, k \notin down
  PROVE  CountDown(down \cup {k}) = [CountDown(down) EXCEPT ![ModifierOf[k]] = @ + 1]
<1> DEFINE keys(d, m) == {x \in d \cap DOMAIN ModifierOf : ModifierOf[x] = m}
<1>1. ASSUME NEW m \in Modifier
      PROVE  Cardinality(keys(down \cup {k}, m))
               = IF m = ModifierOf[k] THEN Cardinality(keys(down, m)) + 1
                 ELSE Cardinality(keys(down, m))
  <2>1. CASE m = ModifierOf[k]
    <3>1. keys(down \cup {k}, m) = keys(down, m) \cup {k} /\ k \notin keys(down, m)
      BY <2>1
    <3>2. IsFiniteSet(keys(down, m))
      BY ModifierKeysFinite
    <3> HIDE DEF keys
    <3> QED
      BY <2>1, <3>1, <3>2, FS_AddElement
  <2>2. CASE m # ModifierOf[k]
    <3>1. keys(down \cup {k}, m) = keys(down, m)
      BY <2>2
    <3> QED
      BY <2>2, <3>1
  <2> QED
    BY <2>1, <2>2
<1>2. ModifierOf[k] \in Modifier
  BY DEF ModifierOf, Modifier
<1>3. /\ CountDown(down) = [m \in Modifier |-> Cardinality(keys(down, m))]
      /\ CountDown(down \cup {k}) = [m \in Modifier |-> Cardinality(keys(down \cup {k}, m))]
  BY DEF CountDown
<1> HIDE DEF keys
<1> QED
  BY <1>1, <1>2, <1>3

\* One that goes was counted.
LEMMA CountRemove ==
  ASSUME NEW down, NEW k \in DOMAIN ModifierOf, k \in down
  PROVE  /\ CountDown(down \ {k}) = [CountDown(down) EXCEPT ![ModifierOf[k]] = @ - 1]
         /\ CountDown(down)[ModifierOf[k]] > 0
<1> DEFINE rest == down \ {k}
           m    == ModifierOf[k]
<1>1. down = rest \cup {k} /\ k \notin rest
  OBVIOUS
<1>2. m \in Modifier
  BY DEF ModifierOf, Modifier
<1>3. CountDown(rest) \in [Modifier -> Nat]
  BY CountType
<1> HIDE DEF rest
<1>4. CountDown(down) = [CountDown(rest) EXCEPT ![m] = @ + 1]
  BY <1>1, CountAdd
<1> HIDE DEF m
<1>5. CountDown(down)[m] = CountDown(rest)[m] + 1 /\ CountDown(rest)[m] \in Nat
  BY <1>2, <1>3, <1>4
<1>6. ASSUME NEW f \in [Modifier -> Nat], NEW g, g = [f EXCEPT ![m] = @ + 1]
      PROVE  f = [g EXCEPT ![m] = @ - 1]
  <2>1. ASSUME NEW n \in Modifier PROVE f[n] = [g EXCEPT ![m] = @ - 1][n]
    BY <1>2, <1>6
  <2> QED
    BY <2>1, <1>6
<1>7. CountDown(rest) = [CountDown(down) EXCEPT ![m] = @ - 1]
  BY <1>3, <1>4, <1>6
<1> QED
  BY <1>5, <1>7 DEF rest, m

\* Other keys do not count.
LEMMA CountOther ==
  ASSUME NEW down, NEW k, k \notin DOMAIN ModifierOf
  PROVE  /\ CountDown(down \cup {k}) = CountDown(down)
         /\ CountDown(down \ {k}) = CountDown(down)
<1>1. /\ (down \cup {k}) \cap DOMAIN ModifierOf = down \cap DOMAIN ModifierOf
      /\ (down \ {k}) \cap DOMAIN ModifierOf = down \cap DOMAIN ModifierOf
  OBVIOUS
<1> QED
  BY <1>1, Zenon DEF CountDown

-----------------------------------------------------------------------------
(* The driver's steps. *)

\* The handler of a key leaves the counters with the keys' count.
LEMMA HandlerCounts ==
  ASSUME NEW b, NEW k, NEW below, b.up \in BOOLEAN,
         ModifiersCounted, KeyHandler(k, b, below),
         b.up => key_down' = key_down \ {k},
         ~b.up => key_down' = key_down \cup {k},
         k \in DOMAIN ModifierOf /\ b.up => k \in key_down
  PROVE  ModifiersCounted'
<1>1. CASE k_down' = CountDown(key_down')
  BY <1>1 DEF ModifiersCounted
<1>2. CASE /\ k \in DOMAIN ModifierOf
           /\ IF IsRep(k, b) THEN UNCHANGED k_down ELSE do_shift(ModifierOf[k], IsUp(k, b))
  <2>1. CASE b.up
    <3>1. IsUp(k, b) /\ ~IsRep(k, b) /\ k \in key_down /\ key_down' = key_down \ {k}
      BY <1>2, <2>1 DEF IsUp, IsRep
    <3>2. k_down' = [k_down EXCEPT ![ModifierOf[k]] = IF @ > 0 THEN @ - 1 ELSE 0]
      BY <1>2, <3>1 DEF do_shift
    <3>3. k_down[ModifierOf[k]] > 0
      BY <1>2, <3>1, CountRemove DEF ModifiersCounted
    <3>4. k_down' = [k_down EXCEPT ![ModifierOf[k]] = @ - 1]
      BY <3>2, <3>3
    <3> QED
      BY <1>2, <3>1, <3>4, CountRemove DEF ModifiersCounted
  <2>2. CASE ~b.up /\ k \in key_down
    <3>1. k_down' = k_down /\ key_down' = key_down
      BY <1>2, <2>2 DEF IsRep
    <3> QED
      BY <3>1 DEF ModifiersCounted
  <2>3. CASE ~b.up /\ k \notin key_down
    <3>1. k_down' = [k_down EXCEPT ![ModifierOf[k]] = @ + 1] /\ key_down' = key_down \cup {k}
      BY <1>2, <2>3 DEF IsRep, IsUp, do_shift
    <3> QED
      BY <1>2, <2>3, <3>1, CountAdd DEF ModifiersCounted
  <2> QED
    BY <2>1, <2>2, <2>3
<1>3. CASE k \in LockKey /\ UNCHANGED k_down
  <2>1. k \notin DOMAIN ModifierOf
    BY <1>3 DEF LockKey, ModifierOf
  <2>2. CountDown(key_down') = CountDown(key_down)
    BY <2>1, CountOther
  <2> QED
    BY <1>3, <2>2 DEF ModifiersCounted
<1> QED
  BY <1>1, <1>2, <1>3 DEF KeyHandler

\* The handler of a key returns to where it was called, or starts a call of
\* pckbd_leds there.
LEMMA HandlerLights ==
  ASSUME TypeOK, NEW b, NEW k, NEW below \in Seq(Command), KeyHandler(k, b, below)
  PROVE  /\ commands' \in Seq(Command)
         /\ ledflagstate' \in Lights /\ ledstate' \in Lights \cup {LightsUndefined}
<1>1. CASE commands' = below /\ UNCHANGED <<ledflagstate, ledstate>>
  BY <1>1 DEF TypeOK
<1>2. CASE caps_toggle(below)
  <2>1. ledflagstate' \in Lights /\ ledstate' \in Lights
    BY <1>2 DEF caps_toggle, TypeOK, Lights, VC_CAPSLOCK
  <2> DEFINE c == [bytes   |-> <<KBD_CMD_SET_LEDS, ledflagstate'>>,
                   at      |-> "send",
                   retries |-> Retries]
  <2>2. Retries \in 0 .. Retries
    BY BoundAssumption
  <2>3. c \in Command
    BY <2>1, <2>2 DEF Command
  <2>4. commands' = below \/ commands' = <<c>> \o below
    BY <1>2 DEF caps_toggle
  <2> HIDE DEF c
  <2>5. <<c>> \in Seq(Command)
    BY <2>3
  <2>6. <<c>> \o below \in Seq(Command)
    BY <2>5
  <2> QED
    BY <2>1, <2>4, <2>6
<1> QED
  BY <1>1, <1>2 DEF KeyHandler

\* A byte that is no reply moves the driver along the path, and keeps the counters.
LEMMA ScanStep ==
  ASSUME TypeOK, KeysFollow, ModifiersCounted, NEW b \in obf,
         NEW below \in Seq(Command), handle_scancode(b, below)
  PROVE  /\ key_down' = After(b, ReadLast, key_down)
         /\ prev_scancode' \in BOOLEAN /\ (ReadLast' = E0 <=> b = E0)
         /\ ModifiersCounted'
         /\ commands' \in Seq(Command)
         /\ ledflagstate' \in Lights /\ ledstate' \in Lights \cup {LightsUndefined}
<1>1. b \in Bytes /\ b.up \in BOOLEAN /\ Fits(b, ReadLast, key_down)
  BY ReadFits, ByteShape
<1>2. prev_scancode' \in BOOLEAN /\ (ReadLast' = E0 <=> b = E0)
  BY NoPrefix DEF handle_scancode, ReadLast
<1>3. prev_scancode \in BOOLEAN
  BY DEF TypeOK
<1>4. CASE Translation(b) = {} /\ KeysOf(b, ReadLast) = {}
  <2>1. /\ commands' = below
        /\ UNCHANGED <<key_down, k_down, ledflagstate, ledstate>>
    BY <1>4 DEF handle_scancode
  <2>2. key_down' = After(b, ReadLast, key_down)
    BY <1>4, <2>1 DEF After
  <2> QED
    BY <1>2, <2>1, <2>2 DEF ModifiersCounted, TypeOK
<1>5. ASSUME NEW k, b # E0, Translation(b) = {k}, KeysOf(b, ReadLast) = {k},
             k \in DOMAIN ModifierOf => b \notin {ACK, RESEND}
      PROVE  /\ key_down' = After(b, ReadLast, key_down)
             /\ ModifiersCounted'
             /\ commands' \in Seq(Command)
             /\ ledflagstate' \in Lights /\ ledstate' \in Lights \cup {LightsUndefined}
  <2>1. /\ key_down' = IF b.up THEN key_down \ {k} ELSE key_down \cup {k}
        /\ KeyHandler(k, b, below)
    BY <1>5 DEF handle_scancode
  <2>2. key_down' = After(b, ReadLast, key_down)
    BY <1>5, <2>1 DEF After
  <2>3. k \in DOMAIN ModifierOf /\ b.up => k \in key_down
    BY <1>1, <1>5 DEF Fits
  <2>4. /\ b.up => key_down' = key_down \ {k}
        /\ ~b.up => key_down' = key_down \cup {k}
    BY <1>1, <2>1
  <2>5. ModifiersCounted'
    BY <1>1, <2>1, <2>3, <2>4, HandlerCounts
  <2> QED
    BY <2>1, <2>2, <2>5, HandlerLights
<1> QED
  BY <1>1, <1>2, <1>3, <1>4, <1>5, TranslationKey

\* The same of every byte read.
LEMMA ReadStep ==
  ASSUME TypeOK, KeysFollow, ModifiersCounted, NEW below \in Seq(Command),
         ReadByte(below), UNCHANGED deviceVars
  PROVE  /\ KeysFollow' /\ ModifiersCounted'
         /\ obf' = {} /\ commands' \in Seq(Command)
         /\ {reply_expected', acknowledge', resend', prev_scancode'} \subseteq BOOLEAN
         /\ key_down' \in SUBSET KeyCode /\ k_down' \in [Modifier -> Nat]
         /\ ledflagstate' \in Lights /\ ledstate' \in Lights \cup {LightsUndefined}
<1>1. PICK b \in obf :
        /\ obf' = {}
        /\ \/ /\ b \in {ACK, RESEND} /\ commands' = below /\ UNCHANGED keyVars
              /\ acknowledge' = (acknowledge \/ b = ACK)
              /\ resend' = (resend \/ b = RESEND)
              /\ reply_expected' = FALSE
           \/ handle_scancode(b, below) /\ UNCHANGED flagVars
  BY DEF ReadByte
<1>2. UNCHANGED <<wire, held>>
  BY DEF deviceVars
<1>3. b \in Bytes /\ Fits(b, ReadLast, key_down) /\ key_down \in SUBSET KeyCode
  BY <1>1, ReadFits
<1>4. CASE b \in {ACK, RESEND} /\ commands' = below /\ UNCHANGED keyVars
  <2>1. ReadLast # E0 /\ b # E0
    BY <1>3, <1>4, ReplyKeys DEF Fits
  <2>2. ReadLast' = ReadLast /\ UNCHANGED <<key_down, k_down, ledflagstate, ledstate, prev_scancode>>
    BY <1>4 DEF keyVars, ReadLast
  <2>3. key_down' = After(b, ReadLast, key_down)
    BY <1>3, <1>4, <2>1, <2>2, ReplyKeys
  <2>4. KeysFollow'
    BY <1>1, <1>2, <2>1, <2>2, <2>3, ReadFollows
  <2>5. ModifiersCounted'
    BY <2>2 DEF ModifiersCounted
  <2>6. {reply_expected', acknowledge', resend'} \subseteq BOOLEAN
    BY <1>1, <1>4 DEF TypeOK, flagVars
  <2> QED
    BY <1>1, <1>3, <1>4, <2>2, <2>4, <2>5, <2>6 DEF TypeOK
<1>5. CASE handle_scancode(b, below) /\ UNCHANGED flagVars
  <2>1. /\ key_down' = After(b, ReadLast, key_down)
        /\ prev_scancode' \in BOOLEAN /\ (ReadLast' = E0 <=> b = E0)
        /\ ModifiersCounted'
        /\ commands' \in Seq(Command)
        /\ ledflagstate' \in Lights /\ ledstate' \in Lights \cup {LightsUndefined}
    BY <1>1, <1>5, ScanStep
  <2>2. KeysFollow' /\ key_down' \in SUBSET KeyCode
    BY <1>1, <1>2, <2>1, ReadFollows
  <2>3. k_down' \in [Modifier -> Nat]
    BY <2>1, CountType DEF ModifiersCounted
  <2>4. {reply_expected', acknowledge', resend'} \subseteq BOOLEAN
    BY <1>5 DEF TypeOK, flagVars
  <2> QED
    BY <1>1, <2>1, <2>2, <2>3, <2>4
<1> QED
  BY <1>1, <1>4, <1>5

\* A call of pckbd_leds goes on with the byte it sends,
LEMMA CallGoesOn ==
  ASSUME TypeOK, commands # <<>>
  PROVE  /\ Top \in Command /\ Tail(commands) \in Seq(Command)
         /\ \A c \in Command : WithTop(c) \in Seq(Command)
         /\ \A place \in {"send", "wait", "status", "write", "reply"} : Goto(place) \in Seq(Command)
<1>1. Top \in Command /\ Tail(commands) \in Seq(Command)
  BY DEF TypeOK, Top
<1>2. ASSUME NEW c \in Command PROVE WithTop(c) \in Seq(Command)
  <2>1. <<c>> \in Seq(Command)
    OBVIOUS
  <2> QED
    BY <1>1, <2>1 DEF WithTop
<1>3. ASSUME NEW place \in {"send", "wait", "status", "write", "reply"}
      PROVE  [Top EXCEPT !.at = place] \in Command
  BY <1>1 DEF Command
<1> QED
  BY <1>1, <1>2, <1>3 DEF Goto

\* with the next one or with KBD_CMD_ENABLE, or returns.
LEMMA CallSendsFrom ==
  ASSUME TypeOK, commands # <<>>
  PROVE  /\ Head(Top.bytes) \in Lights \cup {KBD_CMD_SET_LEDS, KBD_CMD_ENABLE}
         /\ SendFrom(Tail(Top.bytes)) \in Seq(Command)
         /\ SendFrom(<<>>) \in Seq(Command)
         /\ SendFrom(<<KBD_CMD_ENABLE>>) \in Seq(Command)
<1>1. /\ Top \in Command /\ Tail(commands) \in Seq(Command)
      /\ \A c \in Command : WithTop(c) \in Seq(Command)
  BY CallGoesOn
<1> DEFINE Messages == {<<KBD_CMD_SET_LEDS, x>> : x \in Lights}
                         \cup {<<x>> : x \in Lights \cup {KBD_CMD_ENABLE}}
<1>2. Top.bytes \in Messages
  BY <1>1 DEF Command
<1>3. /\ Head(Top.bytes) \in Lights \cup {KBD_CMD_SET_LEDS, KBD_CMD_ENABLE}
      /\ Tail(Top.bytes) \in {<<>>} \cup {<<x>> : x \in Lights}
  <2>1. ASSUME NEW x \in Lights, Top.bytes = <<KBD_CMD_SET_LEDS, x>>
        PROVE  Head(Top.bytes) = KBD_CMD_SET_LEDS /\ Tail(Top.bytes) = <<x>>
    BY <2>1
  <2>2. ASSUME NEW x, Top.bytes = <<x>>
        PROVE  Head(Top.bytes) = x /\ Tail(Top.bytes) = <<>>
    BY <2>2
  <2> QED
    BY <1>2, <2>1, <2>2
<1>4. ASSUME NEW m \in Messages
      PROVE  [bytes |-> m, at |-> "send", retries |-> Retries] \in Command
  <2>1. Retries \in 0 .. Retries
    BY BoundAssumption
  <2> QED
    BY <2>1 DEF Command
<1>5. \A m \in Messages : SendFrom(m) \in Seq(Command)
  BY <1>1, <1>4 DEF SendFrom
<1>6. SendFrom(<<>>) \in Seq(Command)
  BY <1>1 DEF SendFrom
<1>7. <<KBD_CMD_ENABLE>> \in Messages /\ \A x \in Lights : <<x>> \in Messages
  OBVIOUS
<1> HIDE DEF Messages
<1> QED
  BY <1>3, <1>5, <1>6, <1>7

\* The driver's steps keep the invariant,
LEMMA DriverStep ==
  ASSUME IInv, Driver
  PROVE  IInv'
<1> USE DEF IInv
<1>1. CASE Interrupt
  <2>1. CASE ReadByte(<<>>)
    <3>1. <<>> \in Seq(Command) /\ UNCHANGED <<deviceVars, ibf>> /\ irq' = FALSE
      BY <1>1 DEF Interrupt
    <3>2. /\ KeysFollow' /\ ModifiersCounted'
          /\ obf' = {} /\ commands' \in Seq(Command)
          /\ {reply_expected', acknowledge', resend', prev_scancode'} \subseteq BOOLEAN
          /\ key_down' \in SUBSET KeyCode /\ k_down' \in [Modifier -> Nat]
          /\ ledflagstate' \in Lights /\ ledstate' \in Lights \cup {LightsUndefined}
      BY <2>1, <3>1, ReadStep
    <3>3. TypeOK'
      BY <3>1, <3>2 DEF TypeOK, deviceVars
    <3> QED
      BY <3>2, <3>3 DEF Raised
  <2>2. CASE NothingToRead /\ UNCHANGED <<obf, keyVars, commands>>
    <3>1. /\ UNCHANGED <<deviceVars, ibf, obf, keyVars, commands>> /\ irq' = FALSE /\ obf = {}
          /\ acknowledge' = TRUE /\ reply_expected' = FALSE /\ resend' = FALSE
      BY <1>1, <2>2 DEF Interrupt, NothingToRead
    <3>2. TypeOK'
      BY <3>1 DEF TypeOK, deviceVars, keyVars
    <3>3. KeysFollow' /\ ModifiersCounted' /\ Raised'
      BY <3>1, FollowUnchanged DEF deviceVars, keyVars, ModifiersCounted, Raised
    <3> QED
      BY <3>2, <3>3
  <2> QED
    BY <1>1, <2>1, <2>2 DEF Interrupt
<1>2. CASE KbWaitRead
  <2>1. /\ Goto("status") \in Seq(Command) /\ ReadByte(Goto("status"))
        /\ UNCHANGED <<deviceVars, ibf, irq>>
    BY <1>2, CallGoesOn DEF KbWaitRead, Running
  <2>2. /\ KeysFollow' /\ ModifiersCounted'
        /\ obf' = {} /\ commands' \in Seq(Command)
        /\ {reply_expected', acknowledge', resend', prev_scancode'} \subseteq BOOLEAN
        /\ key_down' \in SUBSET KeyCode /\ k_down' \in [Modifier -> Nat]
        /\ ledflagstate' \in Lights /\ ledstate' \in Lights \cup {LightsUndefined}
    BY <2>1, ReadStep
  <2>3. TypeOK'
    BY <2>1, <2>2 DEF TypeOK, deviceVars
  <2> QED
    BY <2>2, <2>3 DEF Raised
<1>3. CASE SendData \/ KbWaitStatus \/ KbWaitEmpty \/ KbWaitTimeout \/ WriteOutput \/ AwaitReply
  <2>1. UNCHANGED <<deviceVars, obf, irq, keyVars>> /\ commands # <<>>
    BY <1>3 DEF SendData, KbWaitStatus, KbWaitEmpty, KbWaitTimeout, WriteOutput, AwaitReply,
                Running
  <2>2. KeysFollow' /\ ModifiersCounted' /\ Raised'
    BY <2>1, FollowUnchanged DEF deviceVars, keyVars, ModifiersCounted, Raised
  <2>3. {reply_expected', acknowledge', resend'} \subseteq BOOLEAN
    BY <1>3 DEF SendData, KbWaitStatus, KbWaitEmpty, KbWaitTimeout, WriteOutput, AwaitReply,
                NothingToRead, flagVars, TypeOK
  <2>4. ibf' \in {{}} \cup {{x} : x \in Lights \cup {KBD_CMD_SET_LEDS, KBD_CMD_ENABLE}}
    <3>1. CASE WriteOutput
      BY <2>1, <3>1, CallSendsFrom DEF WriteOutput
    <3>2. CASE ibf' = ibf
      BY <3>2 DEF TypeOK
    <3> QED
      BY <1>3, <3>1, <3>2 DEF SendData, KbWaitStatus, KbWaitEmpty, KbWaitTimeout, AwaitReply
  <2>5. commands' \in Seq(Command)
    <3>1. CASE \E place \in {"send", "wait", "status", "write", "reply"} : commands' = Goto(place)
      BY <2>1, <3>1, CallGoesOn
    <3>2. CASE AwaitReply
      <4>1. /\ SendFrom(Tail(Top.bytes)) \in Seq(Command)
            /\ SendFrom(<<>>) \in Seq(Command)
            /\ SendFrom(<<KBD_CMD_ENABLE>>) \in Seq(Command)
            /\ Top \in Command
        BY <2>1, CallSendsFrom, CallGoesOn
      <4>2. Top.retries > 0 => [Top EXCEPT !.at = "send", !.retries = @ - 1] \in Command
        <5>1. Retries \in Nat
          BY BoundAssumption
        <5>2. Top.retries \in 0 .. Retries
          BY <4>1 DEF Command
        <5>3. Top.retries > 0 => Top.retries - 1 \in 0 .. Retries
          BY <5>1, <5>2
        <5> QED
          BY <4>1, <5>3 DEF Command
      <4>3. Top.retries > 0
              => WithTop([Top EXCEPT !.at = "send", !.retries = @ - 1]) \in Seq(Command)
        BY <2>1, <4>2, CallGoesOn
      <4> QED
        BY <3>2, <4>1, <4>3 DEF AwaitReply
    <3> QED
      BY <1>3, <3>1, <3>2 DEF SendData, KbWaitStatus, KbWaitEmpty, KbWaitTimeout, WriteOutput
  <2>6. TypeOK'
    BY <2>1, <2>3, <2>4, <2>5 DEF TypeOK, deviceVars, keyVars
  <2> QED
    BY <2>2, <2>6
<1> QED
  BY <1>1, <1>2, <1>3 DEF Driver, pckbd_leds

\* and so do the keyboard's and the controller's.
LEMMA DeviceStep ==
  ASSUME IInv, Device
  PROVE  IInv'
<1> USE DEF IInv
<1>1. CASE Deliver
  <2>1. KeysFollow' /\ wire' \in Seq(Bytes) /\ \E b \in Bytes : obf' = {b}
    BY <1>1, DeliverFollows
  <2>2. UNCHANGED <<held, presses, leds, dataNext, ibf, deviceRest>> /\ irq' = TRUE
    BY <1>1 DEF Deliver
  <2>3. TypeOK'
    BY <2>1, <2>2 DEF TypeOK, deviceRest, flagVars, keyVars
  <2> QED
    BY <2>1, <2>2, <2>3 DEF ModifiersCounted, Raised, deviceRest, keyVars
<1>2. CASE Receive
  <2>1. KeysFollow' /\ wire' \in Seq(Bytes)
    BY <1>2, ReceiveFollows
  <2>2. UNCHANGED <<held, presses, obf, irq, deviceRest>> /\ ibf' = {}
    BY <1>2 DEF Receive
  <2>3. leds' \in Lights /\ dataNext' \in BOOLEAN
    BY <1>2 DEF Receive, TypeOK
  <2>4. TypeOK'
    BY <2>1, <2>2, <2>3 DEF TypeOK, deviceRest, flagVars, keyVars
  <2> QED
    BY <2>1, <2>2, <2>4 DEF ModifiersCounted, Raised, deviceRest, keyVars
<1>3. ASSUME NEW k \in Key, Press(k) \/ Release(k) PROVE IInv'
  <2>1. KeysFollow' /\ wire' \in Seq(Bytes)
    BY <1>3, PressFollows
  <2>2. UNCHANGED <<leds, dataNext, obf, ibf, irq, deviceRest>>
    BY <1>3 DEF Press, Release
  <2>3. held' \subseteq Key /\ presses' \in 0 .. MaxPresses
    <3>1. MaxPresses \in Nat /\ presses \in 0 .. MaxPresses /\ held \subseteq Key
      BY BoundAssumption DEF TypeOK
    <3>2. \/ presses < MaxPresses /\ presses' = presses + 1 /\ held' = held \cup {k}
          \/ presses' = presses /\ held' = held \ {k}
      BY <1>3 DEF Press, Release
    <3> QED
      BY <3>1, <3>2
  <2>4. TypeOK'
    BY <2>1, <2>2, <2>3 DEF TypeOK, deviceRest, flagVars, keyVars
  <2> QED
    BY <2>1, <2>2, <2>4 DEF ModifiersCounted, Raised, deviceRest, keyVars
<1> QED
  BY <1>1, <1>2, <1>3 DEF Device

\* The invariant holds at first and is kept.
LEMMA Initially == Init => IInv
<1> SUFFICES ASSUME Init PROVE IInv
  OBVIOUS
<1>1. TypeOK
  <2>1. MaxPresses \in Nat
    BY BoundAssumption
  <2>2. wire \in Seq(Bytes) /\ commands \in Seq(Command)
    BY DEF Init
  <2>3. k_down \in [Modifier -> Nat]
    BY DEF Init
  <2>4. /\ held \subseteq Key /\ presses \in 0 .. MaxPresses /\ key_down \subseteq KeyCode \cup {"altl"}
        /\ obf = {} /\ ibf = {}
        /\ leds \in Lights /\ ledflagstate \in Lights /\ ledstate = LightsUndefined
    BY <2>1 DEF Init, Lights
  <2>5. {dataNext, irq, reply_expected, acknowledge, resend, prev_scancode} \subseteq BOOLEAN
    BY DEF Init
  <2> QED
    BY <2>2, <2>3, <2>4, <2>5 DEF TypeOK
<1>2. ModifiersCounted
  <2>1. \A m : {k \in {} \cap DOMAIN ModifierOf : ModifierOf[k] = m} = {}
    OBVIOUS
  <2>2. CountDown({}) = [m \in Modifier |-> 0]
    BY <2>1, FS_EmptySet DEF CountDown
  <2> QED
    BY <2>2 DEF Init, ModifiersCounted
<1>3. KeysFollow
  <2>1. Pending = <<>> /\ ReadLast = ACK /\ key_down = {} /\ held = {}
    BY DEF Init, Pending, ReadLast
  <2>2. Leads(<<>>, <<{}>>, ACK) /\ <<{}>>[1] = {} /\ <<{}>>[Len(<<{}>>)] = {}
    BY DEF Leads
  <2>3. LastOf(<<>>, ACK) # E0
    BY NoPrefix DEF LastOf, PrevAt
  <2> QED
    BY <2>1, <2>2, <2>3 DEF KeysFollow, LeadTo
<1>4. Raised
  BY DEF Init, Raised
<1> QED
  BY <1>1, <1>2, <1>3, <1>4 DEF IInv

\* Every reachable state has the invariant.
LEMMA Invariance == Spec => []IInv
<1>1. IInv /\ UNCHANGED vars => IInv'
  <2> SUFFICES ASSUME IInv, UNCHANGED vars PROVE IInv'
    OBVIOUS
  <2>1. TypeOK'
    BY DEF IInv, TypeOK, vars, deviceVars, flagVars, keyVars
  <2>2. KeysFollow' /\ ModifiersCounted' /\ Raised'
    BY FollowUnchanged DEF IInv, ModifiersCounted, Raised, vars, deviceVars, keyVars
  <2> QED
    BY <2>1, <2>2 DEF IInv
<1>2. IInv /\ [Next]_vars => IInv'
  BY <1>1, DriverStep, DeviceStep DEF Next
<1> QED
  BY <1>2, Initially, PTL DEF Spec

-----------------------------------------------------------------------------
(* What the driver guarantees. *)

\* Every variable keeps its type: calls of pckbd_leds nest, retry and give up, but
\* never send a byte there is not or count below zero (send_data).
THEOREM TypeCorrect == Spec => []TypeOK
  BY Invariance, PTL DEF IInv

\* The counters that do_shift moves by single events agree with the map of keys
\* (keyboard.c).
THEOREM ModifiersAreCounted == Spec => []ModifiersCounted
  BY Invariance, PTL DEF IInv

\* Once every byte is handled the driver's map of keys is the keyboard's, whoever
\* read the bytes, the interrupt or a wait for the controller (handle_kbd_event).
THEOREM KeysAreAgreed == Spec => []KeysAgree
<1>1. IInv => KeysAgree
  <2> SUFFICES ASSUME IInv, wire = <<>>, obf = {} PROVE key_down = held
    BY DEF KeysAgree
  <2>1. LeadTo(<<>>, ReadLast, key_down, held)
    BY DEF IInv, KeysFollow, Pending
  <2>2. PICK d : Leads(<<>>, d, ReadLast) /\ d[1] = key_down /\ d[Len(d)] = held
    BY <2>1 DEF LeadTo
  <2> QED
    BY <2>2 DEF Leads
<1> QED
  BY <1>1, Invariance, PTL

\* No byte waits in the output buffer unannounced, although others than its interrupt
\* read bytes (kb_wait).
THEOREM BytesAreAnnounced == Spec => []ByteAnnounced
<1>1. IInv => ByteAnnounced
  BY DEF IInv, Raised, ByteAnnounced
<1> QED
  BY <1>1, Invariance, PTL

=============================================================================
