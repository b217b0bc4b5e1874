--------------------------- MODULE GdbStubProofs ---------------------------
(***************************************************************************)
(* Proofs about GdbStub: the routine for faults, the types, and that a     *)
(* command is obeyed once and answered truly.  The last two share one      *)
(* invariant, ObeyInv: the accounts of what is on the line (one command or *)
(* one acknowledge for it; what is owed for a command that may be obeyed   *)
(* again) and the beliefs (what the replies on the line say is so).        *)
(***************************************************************************)
EXTENDS GdbStub, TLAPS

\* The routine for faults is set during an access only, an access starts without an
\* error, and none starts where putpacket returns to.
RoutineGuarded ==
  /\ pc # "memory" => mem_fault_routine = FALSE
  /\ pc = "memory" => mem_err = FALSE
  /\ next # "memory"
  /\ swallowed = FALSE

\* Sending and reading packets leaves the routine alone.
LEMMA LineGuarded ==
  ASSUME RoutineGuarded,
         PutAcknowledged \/ PutAgain \/ BreakIn \/ GetStart \/ GetByte \/ GetRefused
  PROVE  RoutineGuarded'
<1>1. UNCHANGED <<mem_fault_routine, mem_err, swallowed, next>>
  BY DEF PutAcknowledged, PutAgain, BreakIn, GetStart, GetByte, GetRefused,
         guestVars, historyVars, stubVars
<1>2. pc # "memory" /\ pc' # "memory"
  BY DEF PutAcknowledged, PutAgain, BreakIn, GetStart, GetByte, GetRefused, stubVars,
         RoutineGuarded
<1> QED
  BY <1>1, <1>2 DEF RoutineGuarded

\* Commands that need no access leave it alone as well.
LEMMA CommandGuarded ==
  ASSUME RoutineGuarded, ObeyAtOnce \/ ObeyResume
  PROVE  RoutineGuarded'
<1>1. UNCHANGED <<mem_fault_routine, mem_err, swallowed>>
  BY DEF ObeyAtOnce, ObeyResume, Accepts
<1>2. pc # "memory" /\ pc' # "memory" /\ next' # "memory"
  BY DEF ObeyAtOnce, ObeyResume, Accepts, RoutineGuarded
<1> QED
  BY <1>1, <1>2 DEF RoutineGuarded

\* The access: it begins without an error, and clears the routine with a fault and
\* without one.
LEMMA AccessGuarded ==
  ASSUME RoutineGuarded, ObeyMemory \/ Access \/ MemFault
  PROVE  RoutineGuarded'
<1>1. CASE ObeyMemory
  <2>1. pc' = "memory" /\ mem_err' = FALSE /\ swallowed' = swallowed /\ next' = next
    BY <1>1 DEF ObeyMemory, Accepts
  <2> QED
    BY <2>1 DEF RoutineGuarded
<1>2. CASE Access
  <2>1. pc = "memory" /\ pc' = "put" /\ next' = "get" /\ swallowed' = swallowed
    BY <1>2 DEF Access, putpacket
  <2>2. mem_fault_routine' = FALSE
    BY <1>2, <2>1 DEF Access, RoutineGuarded
  <2> QED
    BY <2>1, <2>2 DEF RoutineGuarded
<1>3. CASE MemFault
  <2>1. pc' = "put" /\ next' = "get" /\ swallowed' = swallowed /\ mem_fault_routine' = FALSE
    BY <1>3 DEF MemFault, putpacket
  <2> QED
    BY <2>1 DEF RoutineGuarded
<1> QED
  BY <1>1, <1>2, <1>3

\* An exception of the guest is reported, since the routine is not set.
LEMMA ExceptionGuarded ==
  ASSUME RoutineGuarded, NEW fault \in BOOLEAN, Exception(fault)
  PROVE  RoutineGuarded'
<1>1. pc = "run" /\ mem_fault_routine = FALSE
  BY DEF Exception, RoutineGuarded
<1>2. pc' = "put" /\ next' = "get"
  BY <1>1 DEF Exception, putpacket
<1>3. UNCHANGED <<swallowed, mem_fault_routine, mem_err>>
  BY <1>1 DEF Exception
<1> QED
  BY <1>1, <1>2, <1>3 DEF RoutineGuarded

\* gdb and the line have no hand in it.
LEMMA OthersGuarded ==
  ASSUME RoutineGuarded,
         Host \/ HostBreak \/ Fault \/ (\E c \in Commands : HostAsk(c)) \/ UNCHANGED vars
  PROVE  RoutineGuarded'
<1>1. UNCHANGED <<pc, next, mem_fault_routine, mem_err, swallowed>>
  BY DEF Host, HostAcknowledged, HostRefused, HostPacket, HostBroken, HostIgnores,
         HostTimeout, HostBreak, Fault, HostAsk, vars, stubVars, guestVars, historyVars
<1> QED
  BY <1>1 DEF RoutineGuarded

\* All steps together.
LEMMA GuardedStep ==
  ASSUME RoutineGuarded, [Next]_vars
  PROVE  RoutineGuarded'
  BY LineGuarded, CommandGuarded, AccessGuarded, ExceptionGuarded, OthersGuarded
  DEF Next, Stub, GetPacket

\* No exception of the guest is ever taken for an access of the stub, whatever the
\* line does to the packets and however long they are: mem2hex, hex2mem and mem_fault
\* clear mem_fault_routine on every way out.
THEOREM GuestExceptionsReported == Spec => []ExceptionsReported
<1>1. Init => RoutineGuarded
  BY DEF Init, RoutineGuarded
<1>2. RoutineGuarded /\ [Next]_vars => RoutineGuarded'
  BY GuardedStep
<1>3. RoutineGuarded => ExceptionsReported
  BY DEF RoutineGuarded, ExceptionsReported
<1> QED
  BY <1>1, <1>2, <1>3, PTL DEF Spec

-----------------------------------------------------------------------------
(* The types. *)

\* The bytes of a line on which packets with contents of V travel.
Bytes(V) ==
  [t : {"$", "+", "-", "junk", "^C"}, v : {NoValue}] \cup [t : {"data", "end"}, v : V]
StubBytes == Bytes(Commands)
HostBytes == Bytes(Answers)

\* What is on the line was sent by one of the two, or is junk.
LineTyped ==
  /\ toStub \in Seq(StubBytes) /\ Len(toStub) <= MaxLine
  /\ toHost \in Seq(HostBytes) /\ Len(toHost) <= MaxLine

\* The buffer has room as long as a packet is being read.
BufferTyped ==
  /\ remcomInBuffer \in Seq(StubBytes) /\ Len(remcomInBuffer) <= BUFMAX
  /\ pc = "body" => Len(remcomInBuffer) < BUFMAX

\* What the two of them work on: an access has a command on memory, and gdb waits for
\* the acknowledge of a command.
WorkTyped ==
  /\ pc = "memory" => cmd \in Commands /\ cmd.op \in {"m", "M"}
  /\ host = "ack" => asked \in Commands

TypeInv == TypeOK /\ LineTyped /\ BufferTyped /\ WorkTyped

\* The bytes that are sent are bytes of the line.
LEMMA BytesTyped ==
  ASSUME NEW V
  PROVE  /\ {Start, Plus, Minus, Junk, CtrlC} \subseteq Bytes(V)
         /\ \A v \in V : Packet(v) \in Seq(Bytes(V)) /\ Len(Packet(v)) = 3
         /\ \A b \in Bytes(V) : b.t \in {"data", "end"} => b.v \in V
<1>1. {Start, Plus, Minus, Junk, CtrlC} \subseteq Bytes(V)
  BY DEF Bytes, Start, Plus, Minus, Junk, CtrlC, Byte
<1>2. ASSUME NEW v \in V
      PROVE  Packet(v) \in Seq(Bytes(V)) /\ Len(Packet(v)) = 3
  <2>1. Byte("data", v) \in Bytes(V) /\ Byte("end", v) \in Bytes(V)
    BY DEF Bytes, Byte
  <2> QED
    BY <1>1, <2>1 DEF Packet
<1>3. \A b \in Bytes(V) : b.t \in {"data", "end"} => b.v \in V
  BY DEF Bytes
<1> QED
  BY <1>1, <1>2, <1>3

\* Reading and sending.
LEMMA GetTyped ==
  ASSUME LineTyped, Get
  PROVE  /\ toStub' \in Seq(StubBytes) /\ Len(toStub') <= MaxLine
         /\ Head(toStub) \in StubBytes
<1>1. /\ toStub \in Seq(StubBytes) /\ Len(toStub) <= MaxLine /\ MaxLine \in Nat
      /\ toStub # <<>> /\ toStub' = Tail(toStub)
  BY BoundsAssumption DEF LineTyped, Get
<1> QED
  BY <1>1

LEMMA PutTyped ==
  ASSUME LineTyped, NEW bytes \in Seq(HostBytes), Put(bytes)
  PROVE  toHost' \in Seq(HostBytes) /\ Len(toHost') <= MaxLine
<1>1. toHost \in Seq(HostBytes) /\ toHost' = toHost \o bytes
      /\ Len(toHost) + Len(bytes) <= MaxLine
  BY DEF LineTyped, Put
<1> QED
  BY <1>1

LEMMA SendTyped ==
  ASSUME LineTyped, NEW bytes \in Seq(StubBytes), Send(bytes)
  PROVE  toStub' \in Seq(StubBytes) /\ Len(toStub') <= MaxLine
<1>1. toStub \in Seq(StubBytes) /\ toStub' = toStub \o bytes
      /\ Len(toStub) + Len(bytes) <= MaxLine
  BY DEF LineTyped, Send
<1> QED
  BY <1>1

\* A packet of the stub.
LEMMA putpacketTyped ==
  ASSUME LineTyped, NEW out \in Answers, NEW ret \in {"get", "run"}, putpacket(out, ret)
  PROVE  /\ pc' = "put" /\ next' = ret /\ remcomOutBuffer' = out
         /\ toHost' \in Seq(HostBytes) /\ Len(toHost') <= MaxLine
<1>1. Packet(out) \in Seq(HostBytes)
  BY BytesTyped DEF HostBytes
<1> QED
  BY <1>1, PutTyped DEF putpacket

\* Replies and the values they are about.
LEMMA AnswersTyped ==
  /\ \A r \in {"T", "S", "", "OK", "E03"} : Answer(r, NoValue) \in Answers
  /\ \A v \in Values : Answer("data", v) \in Answers
  BY DEF Answer, Answers

LEMMA CommandsTyped ==
  ASSUME NEW c \in Commands
  PROVE  /\ c.op \in {"P", "M"} => c.val \in Values
         /\ c.op \in {"m", "M"} => c.addr \in Addresses
  BY DEF Commands

\* A byte of a line that is lost or damaged.
LEMMA SpoilTyped ==
  ASSUME NEW V, NEW s \in Seq(Bytes(V)), NEW u \in Spoil(s)
  PROVE  u \in Seq(Bytes(V)) /\ Len(u) <= Len(s)
<1>1. CASE \E i \in DOMAIN s : u = SubSeq(s, 1, i - 1) \o SubSeq(s, i + 1, Len(s))
  <2>1. PICK i \in DOMAIN s : u = SubSeq(s, 1, i - 1) \o SubSeq(s, i + 1, Len(s))
    BY <1>1
  <2>2. i \in 1 .. Len(s) /\ Len(s) \in Nat
    BY <2>1
  <2>3. SubSeq(s, 1, i - 1) \in Seq(Bytes(V)) /\ Len(SubSeq(s, 1, i - 1)) = i - 1
    BY <2>2
  <2>4. /\ SubSeq(s, i + 1, Len(s)) \in Seq(Bytes(V))
        /\ Len(SubSeq(s, i + 1, Len(s))) = Len(s) - i
    BY <2>2
  <2> QED
    BY <2>1, <2>2, <2>3, <2>4, SMTT(30)
<1>2. CASE \E i \in DOMAIN s : u = [s EXCEPT ![i] = Junk]
  <2>1. Junk \in Bytes(V)
    BY BytesTyped
  <2> QED
    BY <1>2, <2>1
<1> QED
  BY <1>1, <1>2 DEF Spoil

\* What is not read or written keeps its type.
LEMMA ReadTyped ==
  ASSUME TypeInv, PutAcknowledged \/ PutAgain \/ BreakIn \/ GetStart \/ GetByte \/ GetRefused
  PROVE  TypeInv'
<1>1. /\ toStub' \in Seq(StubBytes) /\ Len(toStub') <= MaxLine
      /\ Head(toStub) \in StubBytes
  BY GetTyped DEF TypeInv, PutAcknowledged, PutAgain, BreakIn, GetStart, GetByte, GetRefused
<1>2. toHost' \in Seq(HostBytes) /\ Len(toHost') <= MaxLine
  <2>1. CASE PutAgain
    <3>1. Packet(remcomOutBuffer) \in Seq(HostBytes)
      BY BytesTyped DEF HostBytes, TypeInv, TypeOK
    <3> QED
      BY <2>1, <3>1, PutTyped DEF PutAgain, TypeInv
  <2>2. CASE GetRefused
    <3>1. <<Minus>> \in Seq(HostBytes)
      BY BytesTyped DEF HostBytes
    <3> QED
      BY <2>2, <3>1, PutTyped DEF GetRefused, TypeInv
  <2>3. CASE PutAcknowledged \/ BreakIn \/ GetStart \/ GetByte
    BY <2>3 DEF PutAcknowledged, BreakIn, GetStart, GetByte, TypeInv, LineTyped
  <2> QED
    BY <2>1, <2>2, <2>3
<1>3. /\ UNCHANGED <<faults, remcomOutBuffer, next, cmd, registers, memory, mem_fault_routine,
                      mem_err, host, asked, answer, times>>
      /\ trace' \in BOOLEAN
  BY DEF PutAcknowledged, PutAgain, BreakIn, GetStart, GetByte, GetRefused, stubVars, guestVars,
     hostVars, historyVars, TypeInv, TypeOK
<1>4. BufferTyped' /\ pc' \in {"run", "put", "get", "body"}
  <2>1. CASE PutAcknowledged \/ PutAgain \/ BreakIn
    <3>1. remcomInBuffer' = remcomInBuffer /\ pc' \in {"run", "put", "get"}
      BY <2>1 DEF PutAcknowledged, PutAgain, BreakIn, stubVars, TypeInv, TypeOK
    <3> QED
      BY <3>1 DEF TypeInv, BufferTyped
  <2>2. CASE GetStart
    BY <2>2, BoundsAssumption DEF GetStart, BufferTyped
  <2>3. CASE GetByte
    <3>1. /\ remcomInBuffer \in Seq(StubBytes) /\ Len(remcomInBuffer) < BUFMAX
          /\ remcomInBuffer' = Append(remcomInBuffer, Head(toStub))
          /\ pc' = IF Len(remcomInBuffer') = BUFMAX THEN "get" ELSE "body"
      BY <2>3 DEF GetByte, TypeInv, BufferTyped
    <3>2. /\ remcomInBuffer' \in Seq(StubBytes)
          /\ Len(remcomInBuffer') = Len(remcomInBuffer) + 1
      BY <1>1, <3>1
    <3> QED
      BY <3>1, <3>2, BoundsAssumption DEF BufferTyped
  <2>4. CASE GetRefused
    BY <2>4 DEF GetRefused, TypeInv, BufferTyped
  <2> QED
    BY <2>1, <2>2, <2>3, <2>4
<1>5. TypeOK'
  BY <1>1, <1>2, <1>3, <1>4 DEF TypeInv, TypeOK, BufferTyped
<1> QED
  BY <1>1, <1>2, <1>3, <1>4, <1>5 DEF TypeInv, LineTyped, WorkTyped

\* A command: the acknowledge goes first.
LEMMA ObeyTyped ==
  ASSUME TypeInv, ObeyAtOnce \/ ObeyResume \/ ObeyMemory
  PROVE  TypeInv'
<1>1. PICK c \in Commands :
        /\ Accepts(c)
        /\ pc' \in {"put", "run", "memory"} /\ next' \in {"get", "run"}
        /\ pc' = "memory" => c.op \in {"m", "M"}
        /\ remcomOutBuffer' \in {Reply(c), remcomOutBuffer}
        /\ registers' \in {c.val, registers} /\ (registers' = registers \/ c.op = "P")
        /\ Put(<<Plus>>) \/ Put(<<Plus>> \o Packet(Reply(c)))
        /\ times' \in {times, times + 1}
        /\ memory' = memory /\ trace' \in BOOLEAN
        /\ mem_fault_routine' \in BOOLEAN /\ mem_err' \in BOOLEAN
  <2>1. CASE ObeyAtOnce
    BY <2>1 DEF ObeyAtOnce, Obeyed, Effect, TypeInv, TypeOK
  <2>2. CASE ObeyResume
    BY <2>2 DEF ObeyResume, Obeyed, TypeInv, TypeOK
  <2>3. CASE ObeyMemory
    BY <2>3 DEF ObeyMemory, TypeInv, TypeOK
  <2> QED
    BY <2>1, <2>2, <2>3
<1>2. Reply(c) \in Answers
  BY AnswersTyped DEF Reply, TypeInv, TypeOK
<1>3. /\ toStub' \in Seq(StubBytes) /\ Len(toStub') <= MaxLine
  BY <1>1, GetTyped DEF Accepts, TypeInv
<1>4. toHost' \in Seq(HostBytes) /\ Len(toHost') <= MaxLine
  <2>1. <<Plus>> \in Seq(HostBytes) /\ Packet(Reply(c)) \in Seq(HostBytes)
    BY <1>2, BytesTyped DEF HostBytes
  <2>2. <<Plus>> \o Packet(Reply(c)) \in Seq(HostBytes)
    BY <2>1
  <2> QED
    BY <1>1, <2>1, <2>2, PutTyped DEF TypeInv
<1>5. cmd' = c /\ UNCHANGED <<faults, remcomInBuffer, host, asked, answer>>
  BY <1>1 DEF Accepts, hostVars
<1>6. registers' \in Values
  BY <1>1, CommandsTyped DEF TypeInv, TypeOK
<1>7. TypeOK'
  BY <1>1, <1>2, <1>3, <1>4, <1>5, <1>6 DEF TypeInv, TypeOK
<1> QED
  BY <1>1, <1>3, <1>4, <1>5, <1>7 DEF TypeInv, LineTyped, BufferTyped, WorkTyped

\* An access, and an exception of the guest, end with a packet.
LEMMA ReportTyped ==
  ASSUME TypeInv, Access \/ MemFault \/ (\E fault \in BOOLEAN : Exception(fault))
  PROVE  TypeInv'
<1>1. /\ \/ \E out \in Answers : putpacket(out, "get")
         \/ pc' = "run" /\ UNCHANGED <<toHost, next, remcomOutBuffer>>
      /\ memory' \in [Addresses -> Values] /\ registers' \in Values
  <2>1. CASE Access
    <3>1. cmd \in Commands /\ cmd.op \in {"m", "M"} /\ cmd.addr \in Addresses
          /\ (cmd.op = "M" => cmd.val \in Values)
      BY <2>1, CommandsTyped DEF Access, TypeInv, WorkTyped
    <3>2. memory' \in [Addresses -> Values]
      BY <2>1, <3>1 DEF Access, TypeInv, TypeOK
    <3>3. memory[cmd.addr] \in Values
      BY <3>1 DEF TypeInv, TypeOK
    <3>4. PICK out \in Answers : putpacket(out, "get")
      BY <2>1, <3>3, AnswersTyped DEF Access
    <3> QED
      BY <2>1, <3>2, <3>4 DEF Access, TypeInv, TypeOK
  <2>2. CASE MemFault
    BY <2>2, AnswersTyped DEF MemFault, TypeInv, TypeOK
  <2>3. CASE \E fault \in BOOLEAN : Exception(fault)
    BY <2>3, AnswersTyped DEF Exception, TypeInv, TypeOK
  <2> QED
    BY <2>1, <2>2, <2>3
<1>2. /\ pc' \in {"put", "run"} /\ next' \in {"get", "run"} /\ remcomOutBuffer' \in Answers
      /\ toHost' \in Seq(HostBytes) /\ Len(toHost') <= MaxLine
  BY <1>1, putpacketTyped DEF TypeInv, TypeOK, LineTyped
<1>3. /\ UNCHANGED <<toStub, faults, remcomInBuffer, cmd, trace, host, asked, answer>>
      /\ times' \in Nat /\ mem_fault_routine' \in BOOLEAN /\ mem_err' \in BOOLEAN
  <2>1. CASE Access
    <3>1. mem_err' = mem_err /\ mem_fault_routine' = (mem_fault_routine /\ mem_err)
      BY <2>1 DEF Access
    <3>2. mem_fault_routine' \in BOOLEAN /\ mem_err' \in BOOLEAN
      BY <3>1 DEF TypeInv, TypeOK
    <3> QED
      BY <2>1, <3>2 DEF Access, Obeyed, hostVars, TypeInv, TypeOK
  <2>2. CASE MemFault
    <3>1. times' = times + 1 /\ mem_fault_routine' = FALSE /\ mem_err' = TRUE
      BY <2>2 DEF MemFault, Obeyed
    <3>2. times' \in Nat
      BY <3>1 DEF TypeInv, TypeOK
    <3>3. mem_fault_routine' \in BOOLEAN /\ mem_err' \in BOOLEAN
      BY <3>1, Zenon
    <3> QED
      BY <2>2, <3>2, <3>3 DEF MemFault, hostVars
  <2>3. CASE \E fault \in BOOLEAN : Exception(fault)
    BY <2>3 DEF Exception, hostVars, TypeInv, TypeOK
  <2> QED
    BY <2>1, <2>2, <2>3
<1>4. TypeOK'
  BY <1>1, <1>2, <1>3 DEF TypeInv, TypeOK
<1> QED
  BY <1>2, <1>3, <1>4 DEF TypeInv, LineTyped, BufferTyped, WorkTyped

\* gdb: a command is asked, acknowledged and answered.
LEMMA HostTyped ==
  ASSUME TypeInv, Host \/ HostBreak \/ (\E c \in Commands : HostAsk(c))
  PROVE  TypeInv'
<1>1. /\ UNCHANGED <<faults, pc, remcomInBuffer, remcomOutBuffer, next, cmd, registers, trace, memory,
                      mem_fault_routine, mem_err>>
      /\ times' \in Nat
  BY DEF Host, HostAcknowledged, HostRefused, HostPacket, HostBroken, HostIgnores, HostTimeout,
     HostBreak, HostAsk, stubVars, guestVars, historyVars, TypeInv, TypeOK
<1>2. <<Plus>> \in Seq(StubBytes) /\ <<Minus>> \in Seq(StubBytes) /\ <<CtrlC>> \in Seq(StubBytes)
  BY BytesTyped DEF StubBytes
<1>3. \A c \in Commands : Packet(c) \in Seq(StubBytes)
  BY BytesTyped DEF StubBytes
<1>4. toStub' \in Seq(StubBytes) /\ Len(toStub') <= MaxLine
  <2>1. \/ UNCHANGED toStub
        \/ \E bytes \in Seq(StubBytes) : Send(bytes)
    <3>1. CASE HostPacket \/ HostBroken \/ HostBreak
      BY <1>2, <3>1 DEF HostPacket, HostBroken, HostBreak
    <3>2. CASE HostRefused
      <4>1. asked \in Commands /\ Send(Packet(asked))
        BY <3>2 DEF HostRefused, TypeInv, WorkTyped
      <4> QED
        BY <1>3, <4>1
    <3>3. CASE HostTimeout
      <4>1. host = "ack" => Packet(asked) \in Seq(StubBytes)
        BY <1>3 DEF TypeInv, WorkTyped
      <4> QED
        BY <1>2, <3>3, <4>1 DEF HostTimeout
    <3>4. CASE \E c \in Commands : HostAsk(c)
      BY <1>3, <3>4 DEF HostAsk
    <3>5. CASE HostAcknowledged \/ HostIgnores
      BY <3>5 DEF HostAcknowledged, HostIgnores
    <3> QED
      BY <3>1, <3>2, <3>3, <3>4, <3>5 DEF Host
  <2> QED
    BY <2>1, SendTyped DEF TypeInv, LineTyped
<1>5. toHost' \in Seq(HostBytes) /\ Len(toHost') <= MaxLine
  <2>1. \/ UNCHANGED toHost \/ toHost' = <<>>
        \/ toHost # <<>> /\ toHost' = Tail(toHost)
        \/ \E i \in 1 .. Len(toHost) : toHost' = SubSeq(toHost, i + 1, Len(toHost))
    <3>1. CASE HostPacket
      <4>1. Len(toHost) >= 3 /\ toHost' = SubSeq(toHost, 3 + 1, Len(toHost))
        BY <3>1 DEF HostPacket, WholePacket
      <4>2. 3 \in 1 .. Len(toHost)
        BY <4>1 DEF TypeInv, LineTyped
      <4> QED
        BY <4>1, <4>2
    <3>2. CASE HostBroken
      <4>1. PICK i \in 2 .. Len(toHost) : toHost' = SubSeq(toHost, i + 1, Len(toHost))
        BY <3>2 DEF HostBroken
      <4>2. i \in 1 .. Len(toHost)
        BY <4>1 DEF TypeInv, LineTyped
      <4> QED
        BY <4>1, <4>2
    <3>3. CASE HostAcknowledged \/ HostRefused \/ HostIgnores \/ HostTimeout
      BY <3>3 DEF HostAcknowledged, HostRefused, HostIgnores, HostTimeout
    <3>4. CASE HostBreak \/ (\E c \in Commands : HostAsk(c))
      BY <3>4 DEF HostBreak, HostAsk
    <3> QED
      BY <3>1, <3>2, <3>3, <3>4 DEF Host
  <2>2. toHost \in Seq(HostBytes) /\ Len(toHost) <= MaxLine /\ MaxLine \in Nat
    BY BoundsAssumption DEF TypeInv, LineTyped
  <2>3. CASE UNCHANGED toHost
    BY <2>2, <2>3
  <2>6. CASE toHost' = <<>>
    <3>1. <<>> \in Seq(HostBytes) /\ Len(<<>>) = 0
      OBVIOUS
    <3> QED
      BY <2>2, <2>6, <3>1
  <2>5. CASE toHost # <<>> /\ toHost' = Tail(toHost)
    BY <2>2, <2>5
  <2>4. ASSUME NEW i \in 1 .. Len(toHost), toHost' = SubSeq(toHost, i + 1, Len(toHost))
        PROVE  toHost' \in Seq(HostBytes) /\ Len(toHost') <= MaxLine
    <3>1. SubSeq(toHost, i + 1, Len(toHost)) \in Seq(HostBytes)
      BY <2>2
    <3>2. Len(SubSeq(toHost, i + 1, Len(toHost))) = Len(toHost) - i
      BY <2>2
    <3> QED
      BY <2>2, <2>4, <3>1, <3>2
  <2> QED
    BY <2>1, <2>3, <2>4, <2>5, <2>6
<1>6. /\ host' \in {"idle", "ack", "reply"} /\ asked' \in Commands \cup {NoValue}
      /\ answer' \in Answers \cup {NoValue}
      /\ host' = "ack" => asked' \in Commands
  <2>1. CASE HostPacket
    <3>1. toHost[2] \in HostBytes /\ toHost[2].t = "data"
      BY <2>1 DEF HostPacket, WholePacket, TypeInv, LineTyped
    <3>2. toHost[2].v \in Answers
      BY <3>1, BytesTyped DEF HostBytes
    <3> QED
      BY <2>1, <3>2 DEF HostPacket, TypeInv, TypeOK, WorkTyped
  <2>2. CASE \E c \in Commands : HostAsk(c)
    BY <2>2 DEF HostAsk
  <2>3. CASE HostAcknowledged \/ HostRefused \/ HostBroken \/ HostIgnores \/ HostTimeout \/ HostBreak
    BY <2>3 DEF HostAcknowledged, HostRefused, HostBroken, HostIgnores, HostTimeout, HostBreak,
       hostVars, TypeInv, TypeOK, WorkTyped
  <2> QED
    BY <2>1, <2>2, <2>3 DEF Host
<1>7. TypeOK'
  BY <1>1, <1>4, <1>5, <1>6 DEF TypeInv, TypeOK
<1> QED
  BY <1>1, <1>4, <1>5, <1>6, <1>7 DEF TypeInv, LineTyped, BufferTyped, WorkTyped

\* The line keeps its bytes, or junk.
LEMMA FaultTyped ==
  ASSUME TypeInv, Fault
  PROVE  TypeInv'
<1>1. /\ UNCHANGED <<stubVars, guestVars, hostVars, historyVars>>
      /\ faults' \in 0 .. MaxFaults
  BY BoundsAssumption DEF Fault, TypeInv, TypeOK
<1>2. toStub' \in Seq(StubBytes) /\ Len(toStub') <= MaxLine
  <2>1. toStub' = toStub \/ toStub' \in Spoil(toStub)
    BY DEF Fault
  <2>2. toStub \in Seq(StubBytes) /\ Len(toStub) <= MaxLine /\ MaxLine \in Nat
    BY BoundsAssumption DEF TypeInv, LineTyped
  <2>3. CASE toStub' \in Spoil(toStub)
    <3>1. toStub' \in Seq(StubBytes) /\ Len(toStub') <= Len(toStub)
      BY <2>2, <2>3, SpoilTyped DEF StubBytes
    <3> QED
      BY <2>2, <3>1
  <2> QED
    BY <2>1, <2>2, <2>3
<1>3. toHost' \in Seq(HostBytes) /\ Len(toHost') <= MaxLine
  <2>1. toHost' = toHost \/ toHost' \in Spoil(toHost)
    BY DEF Fault
  <2>2. toHost \in Seq(HostBytes) /\ Len(toHost) <= MaxLine /\ MaxLine \in Nat
    BY BoundsAssumption DEF TypeInv, LineTyped
  <2>3. CASE toHost' \in Spoil(toHost)
    <3>1. toHost' \in Seq(HostBytes) /\ Len(toHost') <= Len(toHost)
      BY <2>2, <2>3, SpoilTyped DEF HostBytes
    <3> QED
      BY <2>2, <3>1
  <2> QED
    BY <2>1, <2>2, <2>3
<1>4. TypeOK'
  BY <1>1, <1>2, <1>3 DEF TypeInv, TypeOK, stubVars, guestVars, hostVars, historyVars
<1> QED
  BY <1>1, <1>2, <1>3, <1>4 DEF TypeInv, LineTyped, BufferTyped, WorkTyped, stubVars, hostVars

LEMMA InitTyped ==
  ASSUME Init
  PROVE  TypeInv
<1>1. /\ toStub = <<>> /\ toHost = <<Plus>> /\ remcomInBuffer = <<>> /\ pc = "run"
      /\ host = "reply"
  BY DEF Init
<1>2. <<Plus>> \in Seq(HostBytes) /\ Len(<<Plus>>) = 1
  BY BytesTyped DEF HostBytes
<1>3. LineTyped /\ BufferTyped /\ WorkTyped
  BY <1>1, <1>2, BoundsAssumption DEF LineTyped, BufferTyped, WorkTyped
<1>4. TypeOK
  <2>1. /\ faults \in 0 .. MaxFaults /\ next \in {"get", "run"} /\ cmd = NoValue /\ asked = NoValue
        /\ answer = NoValue /\ times \in Nat /\ registers \in Values
    <3>1. /\ faults = 0 /\ next = "get" /\ cmd = NoValue /\ asked = NoValue /\ answer = NoValue
          /\ times = 0 /\ registers \in Values
      BY DEF Init
    <3> QED
      BY <3>1, BoundsAssumption
  <2>2. trace = FALSE /\ mem_fault_routine = FALSE /\ mem_err = FALSE
    BY DEF Init
  <2>3. memory \in [Addresses -> Values]
    BY DEF Init
  <2>4. remcomOutBuffer \in Answers
    BY AnswersTyped DEF Init
  <2> QED
    BY <1>1, <1>3, <2>1, <2>2, <2>3, <2>4 DEF LineTyped, BufferTyped, TypeOK
<1> QED
  BY <1>3, <1>4 DEF TypeInv

\* All steps together.
LEMMA TypeStep ==
  ASSUME TypeInv, [Next]_vars
  PROVE  TypeInv'
<1>1. CASE UNCHANGED vars
  BY <1>1 DEF TypeInv, TypeOK, LineTyped, BufferTyped, WorkTyped, vars, lineVars, stubVars, guestVars,
     hostVars, historyVars
<1> QED
  BY <1>1, ReadTyped, ObeyTyped, ReportTyped, HostTyped, FaultTyped DEF Next, Stub, GetPacket

\* The variables have their types, whatever is on the line and however long it is.  The
\* bytes of a packet fit in remcomInBuffer (i386-stub.c:489-497), and while getpacket
\* waits for the next one there is a place left: a packet that ends with "#", the only
\* kind that is obeyed or refused, has room for the NUL of line 498.  Nothing is said of
\* a packet thrown away because the buffer is full, whose NUL is stored past the end.
\* What the stub sends is an answer.
THEOREM TypeCorrect == Spec => []TypeOK
<1>1. Init => TypeInv
  BY InitTyped
<1>2. TypeInv /\ [Next]_vars => TypeInv'
  BY TypeStep
<1>3. TypeInv => TypeOK
  BY DEF TypeInv
<1> QED
  BY <1>1, <1>2, <1>3, PTL DEF Spec

-----------------------------------------------------------------------------
(* What is on a line, and what is left of it when bytes are sent, read, lost and damaged. *)

\* The bytes on a line, and which come before which.
Has(s, b) == \E i \in DOMAIN s : s[i] = b

\* The line to the stub holds the end of a command; it is at most one, and it is c.
Ends(s) == \E i \in DOMAIN s : s[i].t = "end"
OneCommand(s, c) ==
  /\ \A i \in DOMAIN s : s[i].t = "end" => s[i].v = c
  /\ \A i, j \in DOMAIN s : s[i].t = "end" /\ s[j].t = "end" => i = j

\* The line to gdb holds at most one acknowledge, positive or negative.
OneSign(s) == \A i, j \in DOMAIN s : s[i] \in {Plus, Minus} /\ s[j] \in {Plus, Minus} => i = j
PlusFirst(s) == \A i \in DOMAIN s : s[i] = Plus => i = 1

\* A packet on it is not as it was sent; one of these comes before a "+".
WholeAt(s, k) ==
  k + 2 <= Len(s) /\ s[k + 1].t = "data" /\ s[k + 2] = Byte("end", s[k + 1].v)
BrokenAt(s, k) == s[k] = Start /\ ~WholeAt(s, k)
Broken(s) == \E k \in DOMAIN s : BrokenAt(s, k)
BrokenBefore(s) == \E k, i \in DOMAIN s : k < i /\ BrokenAt(s, k) /\ s[i] = Plus

\* Packets on it, or those after a "+", carry replies of V only, or there are none.
Framing(b) == b.t \in {"$", "end"}
Clean(s) == \A j \in DOMAIN s : ~Framing(s[j])
CleanAfter(s) == \A i, j \in DOMAIN s : i < j /\ s[i] = Plus => ~Framing(s[j])
Carries(s, V) == \A j \in DOMAIN s : s[j].t = "end" => s[j].v \in V
CarriesAfter(s, V) ==
  \A i, j \in DOMAIN s : i < j /\ s[i] = Plus /\ s[j].t = "end" => s[j].v \in V

\* The bytes are told apart by their marks.
LEMMA Marks ==
  /\ Start.t = "$" /\ Plus.t = "+" /\ Minus.t = "-" /\ Junk.t = "junk" /\ CtrlC.t = "^C"
  /\ \A t, v : Byte(t, v).t = t /\ Byte(t, v).v = v
  BY DEF Start, Plus, Minus, Junk, CtrlC, Byte

\* Some bytes of a line are left, in their order, and some of these may be junk.
Thinned(u, s) ==
  \E f \in [DOMAIN u -> DOMAIN s] :
    /\ \A i, j \in DOMAIN u : i < j => f[i] < f[j]
    /\ \A i \in DOMAIN u : u[i] \in {s[f[i]], Junk}

\* The first n bytes of a line have been read.
Dropped(u, s, n) ==
  /\ Len(u) = Len(s) - n
  /\ \A k \in DOMAIN u : k + n \in DOMAIN s /\ u[k] = s[k + n]

\* Reading from the front of a line,
LEMMA TailDrops ==
  ASSUME NEW S, NEW s \in Seq(S), s # <<>>
  PROVE  Tail(s) \in Seq(S) /\ Dropped(Tail(s), s, 1) /\ 1 \in 0 .. Len(s) /\ s[1] = Head(s)
  BY DEF Dropped

\* and several bytes at once.
LEMMA SubSeqDrops ==
  ASSUME NEW S, NEW s \in Seq(S), NEW n \in 0 .. Len(s)
  PROVE  SubSeq(s, n + 1, Len(s)) \in Seq(S) /\ Dropped(SubSeq(s, n + 1, Len(s)), s, n)
<1> DEFINE u == SubSeq(s, n + 1, Len(s))
<1>1. Len(s) \in Nat /\ n \in Nat /\ n <= Len(s)
  OBVIOUS
<1>2. u \in Seq(S) /\ Len(u) = Len(s) - n
  BY <1>1
<1>3. ASSUME NEW k \in DOMAIN u
      PROVE  k + n \in DOMAIN s /\ u[k] = s[k + n]
  <2>1. k \in 1 .. Len(s) - n
    BY <1>2
  <2>2. u[k] = s[n + 1 + k - 1]
    BY <1>1, <2>1
  <2> QED
    BY <1>1, <2>1, <2>2
<1> QED
  BY <1>2, <1>3 DEF Dropped

\* What has not been read yet, and a line with a byte lost,
LEMMA DroppedThins ==
  ASSUME NEW S, NEW s \in Seq(S), NEW u \in Seq(S), NEW n \in 0 .. Len(s), Dropped(u, s, n)
  PROVE  Thinned(u, s)
<1> DEFINE f == [k \in DOMAIN u |-> k + n]
<1>1. n \in Nat /\ DOMAIN u \subseteq Nat
  OBVIOUS
<1>2. f \in [DOMAIN u -> DOMAIN s]
  BY DEF Dropped
<1>3. \A i, j \in DOMAIN u : i < j => f[i] < f[j]
  BY <1>1
<1>4. \A i \in DOMAIN u : u[i] \in {s[f[i]], Junk}
  BY DEF Dropped
<1> QED
  BY <1>2, <1>3, <1>4 DEF Thinned

LEMMA LossThins ==
  ASSUME NEW S, NEW s \in Seq(S), NEW i \in 1 .. Len(s), NEW a \in Seq(S), NEW z \in Seq(S),
         Len(a) = i - 1, \A k \in 1 .. i - 1 : a[k] = s[k],
         Len(z) = Len(s) - i, \A k \in 1 .. Len(s) - i : z[k] = s[k + i]
  PROVE  Thinned(a \o z, s)
<1> DEFINE u == a \o z
           f == [k \in 1 .. Len(s) - 1 |-> IF k < i THEN k ELSE k + 1]
<1>1. Len(s) \in Nat /\ i \in 1 .. Len(s)
  OBVIOUS
<1>2. /\ u \in Seq(S) /\ Len(u) = Len(s) - 1
      /\ \A k \in 1 .. i - 1 : u[k] = a[k]
      /\ \A k \in 1 .. Len(s) - i : u[i - 1 + k] = z[k]
  <2>1. /\ u \in Seq(S) /\ Len(u) = Len(a) + Len(z)
        /\ \A k \in 1 .. Len(a) : u[k] = a[k]
        /\ \A k \in 1 .. Len(z) : u[Len(a) + k] = z[k]
    <3>1. a \in Seq(S) /\ z \in Seq(S)
      OBVIOUS
    <3>2. a \o z \in Seq(S) /\ Len(a \o z) = Len(a) + Len(z)
      BY ONLY <3>1
    <3>3. \A k \in 1 .. Len(a) : (a \o z)[k] = a[k]
      BY ONLY <3>1
    <3>4. \A k \in 1 .. Len(z) : (a \o z)[Len(a) + k] = z[k]
      BY ONLY <3>1
    <3> QED
      BY <3>2, <3>3, <3>4
  <2> HIDE DEF u
  <2> QED
    BY <1>1, <2>1
<1>3. DOMAIN u = 1 .. Len(s) - 1
  BY <1>2
<1> HIDE DEF u
<1>4. ASSUME NEW k \in 1 .. Len(s) - 1
      PROVE  f[k] \in 1 .. Len(s) /\ u[k] = s[f[k]]
  <2>1. CASE k < i
    <3>1. k \in 1 .. i - 1 /\ f[k] = k
      BY <1>1, <2>1
    <3> QED
      BY <1>1, <1>2, <3>1
  <2>2. CASE ~(k < i)
    <3>1. k - (i - 1) \in 1 .. Len(s) - i /\ f[k] = k + 1 /\ k + 1 \in 1 .. Len(s)
      BY <1>1, <2>2
    <3>2. i - 1 + (k - (i - 1)) = k /\ k - (i - 1) + i = k + 1
      BY <1>1
    <3>3. u[k] = z[k - (i - 1)] /\ z[k - (i - 1)] = s[k + 1]
      BY <1>2, <3>1, <3>2
    <3> HIDE DEF f
    <3> QED
      BY <3>1, <3>3
  <2> QED
    BY <2>1, <2>2
<1>5. \A j, k \in 1 .. Len(s) - 1 : j < k => f[j] < f[k]
  BY <1>1
<1>6. f \in [DOMAIN u -> DOMAIN s]
  BY <1>3, <1>4
<1> HIDE DEF f
<1>7. Thinned(u, s)
  BY <1>3, <1>4, <1>5, <1>6 DEF Thinned
<1> QED
  BY <1>7 DEF u

\* or damaged, hold no more than before.
LEMMA SpoilThins ==
  ASSUME NEW S, NEW s \in Seq(S), NEW u \in Spoil(s)
  PROVE  Thinned(u, s)
<1>1. CASE \E i \in DOMAIN s : u = SubSeq(s, 1, i - 1) \o SubSeq(s, i + 1, Len(s))
  <2>1. PICK i \in DOMAIN s : u = SubSeq(s, 1, i - 1) \o SubSeq(s, i + 1, Len(s))
    BY <1>1
  <2>2. i \in 1 .. Len(s) /\ Len(s) \in Nat
    BY <2>1
  <2>3. PICK a : a = SubSeq(s, 1, i - 1)
    OBVIOUS
  <2>4. PICK z : z = SubSeq(s, i + 1, Len(s))
    OBVIOUS
  <2>5. a \in Seq(S) /\ Len(a) = i - 1 /\ \A k \in 1 .. i - 1 : a[k] = s[k]
    BY <2>2, <2>3
  <2>6. z \in Seq(S) /\ Len(z) = Len(s) - i /\ \A k \in 1 .. Len(s) - i : z[k] = s[k + i]
    <3>1. z \in Seq(S) /\ Dropped(z, s, i)
      BY <2>2, <2>4, SubSeqDrops
    <3> QED
      BY <2>2, <3>1 DEF Dropped
  <2>7. Thinned(a \o z, s)
    BY <2>2, <2>5, <2>6, LossThins
  <2> QED
    BY <2>1, <2>3, <2>4, <2>7
<1>2. CASE \E i \in DOMAIN s : u = [s EXCEPT ![i] = Junk]
  <2> DEFINE f == [k \in DOMAIN u |-> k]
  <2>1. PICK i \in DOMAIN s : u = [s EXCEPT ![i] = Junk]
    BY <1>2
  <2>2. DOMAIN u = DOMAIN s /\ \A k \in DOMAIN u : u[k] \in {s[k], Junk}
    BY <2>1
  <2>3. f \in [DOMAIN u -> DOMAIN s]
    BY <2>2
  <2> QED
    BY <2>2, <2>3 DEF Thinned
<1> QED
  BY <1>1, <1>2 DEF Spoil

\* Nothing is on a thinned line that was not there before.
LEMMA ThinnedKeeps ==
  ASSUME NEW S, NEW s \in Seq(S), NEW u \in Seq(S), Thinned(u, s)
  PROVE  /\ Has(u, Plus) => Has(s, Plus)
         /\ Has(u, Minus) => Has(s, Minus)
         /\ Ends(u) => Ends(s)
         /\ OneSign(s) => OneSign(u)
         /\ PlusFirst(s) => PlusFirst(u)
         /\ \A c : OneCommand(s, c) => OneCommand(u, c)
         /\ Clean(s) => Clean(u)
         /\ CleanAfter(s) => CleanAfter(u)
         /\ \A V : Carries(s, V) => Carries(u, V)
         /\ \A V : CarriesAfter(s, V) => CarriesAfter(u, V)
<1>1. PICK f \in [DOMAIN u -> DOMAIN s] :
        /\ \A i, j \in DOMAIN u : i < j => f[i] < f[j]
        /\ \A i \in DOMAIN u : u[i] \in {s[f[i]], Junk}
  BY DEF Thinned
<1>2. /\ DOMAIN u = 1 .. Len(u) /\ DOMAIN s = 1 .. Len(s) /\ Len(u) \in Nat /\ Len(s) \in Nat
  OBVIOUS
<1>3. \A i \in DOMAIN u : f[i] \in DOMAIN s
  BY <1>1
<1>4. ASSUME NEW i \in DOMAIN u, u[i] # Junk
      PROVE  u[i] = s[f[i]]
  BY <1>1, <1>4
<1>5. /\ Plus # Junk /\ Minus # Junk /\ ~Framing(Junk)
      /\ \A b : b.t = "end" => b # Junk /\ Framing(b)
  BY Marks DEF Framing
<1>6. \A i, j \in DOMAIN u : f[i] = f[j] => i = j
  BY <1>1, <1>2, <1>3
<1>7. Has(u, Plus) => Has(s, Plus)
  BY <1>3, <1>4, <1>5 DEF Has
<1>8. Has(u, Minus) => Has(s, Minus)
  BY <1>3, <1>4, <1>5 DEF Has
<1>9. Ends(u) => Ends(s)
  BY <1>3, <1>4, <1>5 DEF Ends
<1>10. OneSign(s) => OneSign(u)
  BY <1>3, <1>4, <1>5, <1>6 DEF OneSign
<1>11. PlusFirst(s) => PlusFirst(u)
  <2>1. ASSUME PlusFirst(s), NEW i \in DOMAIN u, u[i] = Plus
        PROVE  i = 1
    <3>1. f[i] = 1
      BY <1>3, <1>4, <1>5, <2>1 DEF PlusFirst
    <3>2. 1 \in DOMAIN u /\ (1 < i => f[1] < f[i]) /\ f[1] \in DOMAIN s
      BY <1>1, <1>2, <1>3, SMTT(30)
    <3> QED
      BY <1>2, <3>1, <3>2
  <2> QED
    BY <2>1 DEF PlusFirst
<1>12. \A c : OneCommand(s, c) => OneCommand(u, c)
  BY <1>3, <1>4, <1>5, <1>6 DEF OneCommand
<1>13. Clean(s) => Clean(u)
  BY <1>3, <1>4, <1>5 DEF Clean
<1>14. CleanAfter(s) => CleanAfter(u)
  BY <1>1, <1>3, <1>4, <1>5 DEF CleanAfter
<1>15. \A V : Carries(s, V) => Carries(u, V)
  BY <1>3, <1>4, <1>5 DEF Carries
<1>16. \A V : CarriesAfter(s, V) => CarriesAfter(u, V)
  BY <1>1, <1>3, <1>4, <1>5 DEF CarriesAfter
<1> QED
  BY <1>7, <1>8, <1>9, <1>10, <1>11, <1>12, <1>13, <1>14, <1>15, <1>16

\* What has not been read is as it was: no packet is broken that was not.
LEMMA DroppedWhole ==
  ASSUME NEW S, NEW s \in Seq(S), NEW u \in Seq(S), NEW n \in 0 .. Len(s), Dropped(u, s, n)
  PROVE  /\ Broken(u) => Broken(s)
         /\ BrokenBefore(u) => BrokenBefore(s)
         /\ Has(s, Plus) /\ (\A i \in 1 .. n : s[i] # Plus) => Has(u, Plus)
<1>1. /\ DOMAIN u = 1 .. Len(u) /\ DOMAIN s = 1 .. Len(s) /\ Len(u) \in Nat /\ Len(s) \in Nat
      /\ n \in Nat /\ n <= Len(s)
  OBVIOUS
<1>2. Len(u) = Len(s) - n /\ \A k \in DOMAIN u : k + n \in DOMAIN s /\ u[k] = s[k + n]
  BY DEF Dropped
<1>3. ASSUME NEW k \in DOMAIN u, BrokenAt(u, k)
      PROVE  BrokenAt(s, k + n)
  <2>1. u[k] = s[k + n] /\ k \in Nat
    BY <1>1, <1>2
  <2>2. ASSUME WholeAt(s, k + n)
        PROVE  WholeAt(u, k)
    <3>1. k + n + 2 <= Len(s) /\ s[k + n + 1].t = "data" /\ s[k + n + 2] = Byte("end", s[k + n + 1].v)
      BY <2>2 DEF WholeAt
    <3>2. k + 1 \in DOMAIN u /\ k + 2 \in DOMAIN u /\ k + 2 <= Len(u)
      BY <1>1, <1>2, <2>1, <3>1, SMTT(30)
    <3>3. k + 1 + n = k + n + 1 /\ k + 2 + n = k + n + 2
      BY <1>1, <2>1
    <3>4. u[k + 1] = s[k + n + 1] /\ u[k + 2] = s[k + n + 2]
      BY <1>2, <3>2, <3>3
    <3> QED
      BY <3>1, <3>2, <3>4 DEF WholeAt
  <2> QED
    BY <1>3, <2>1, <2>2 DEF BrokenAt
<1>4. Broken(u) => Broken(s)
  BY <1>2, <1>3 DEF Broken
<1>5. BrokenBefore(u) => BrokenBefore(s)
  <2>1. ASSUME NEW k \in DOMAIN u, NEW i \in DOMAIN u, k < i, BrokenAt(u, k), u[i] = Plus
        PROVE  BrokenBefore(s)
    <3>1. k + n \in DOMAIN s /\ i + n \in DOMAIN s /\ s[i + n] = Plus /\ k + n < i + n
      BY <1>1, <1>2, <2>1
    <3> QED
      BY <1>3, <2>1, <3>1 DEF BrokenBefore
  <2> QED
    BY <2>1 DEF BrokenBefore
<1>6. ASSUME Has(s, Plus), \A i \in 1 .. n : s[i] # Plus
      PROVE  Has(u, Plus)
  <2>1. PICK j \in DOMAIN s : s[j] = Plus
    BY <1>6 DEF Has
  <2>2. j - n \in DOMAIN u /\ j - n + n = j
    BY <1>1, <1>2, <1>6, <2>1
  <2> QED
    BY <1>2, <2>1, <2>2 DEF Has
<1> QED
  BY <1>4, <1>5, <1>6

\* What a line holds when bytes have been sent.
LEMMA Joined ==
  ASSUME NEW S, NEW s \in Seq(S), NEW r \in Seq(S)
  PROVE  /\ s \o r \in Seq(S) /\ Len(s \o r) = Len(s) + Len(r)
         /\ \A i \in DOMAIN s : i \in DOMAIN (s \o r) /\ (s \o r)[i] = s[i]
         /\ \A i \in DOMAIN r : Len(s) + i \in DOMAIN (s \o r) /\ (s \o r)[Len(s) + i] = r[i]
         /\ \A i \in DOMAIN (s \o r) :
              \/ i \in DOMAIN s /\ (s \o r)[i] = s[i]
              \/ i - Len(s) \in DOMAIN r /\ (s \o r)[i] = r[i - Len(s)]
  OBVIOUS

\* Whatever is on the joined line is on one of the two.
LEMMA JoinedKeeps ==
  ASSUME NEW S, NEW s \in Seq(S), NEW r \in Seq(S)
  PROVE  /\ \A b : Has(s \o r, b) <=> Has(s, b) \/ Has(r, b)
         /\ Ends(s \o r) => Ends(s) \/ Ends(r)
         /\ OneSign(s) /\ ~Has(r, Plus) /\ ~Has(r, Minus) => OneSign(s \o r)
         /\ OneSign(r) /\ ~Has(s, Plus) /\ ~Has(s, Minus) => OneSign(s \o r)
         /\ PlusFirst(s) /\ ~Has(r, Plus) => PlusFirst(s \o r)
         /\ \A c : OneCommand(s, c) /\ ~Ends(r) => OneCommand(s \o r, c)
         /\ \A c : OneCommand(r, c) /\ ~Ends(s) => OneCommand(s \o r, c)
         /\ CleanAfter(s) /\ Clean(r) => CleanAfter(s \o r)
         /\ \A V : Carries(s, V) /\ Carries(r, V) => Carries(s \o r, V)
         /\ \A V : CarriesAfter(s, V) /\ Carries(r, V) => CarriesAfter(s \o r, V)
<1> DEFINE u == s \o r
           n == Len(s)
<1>1. /\ DOMAIN u \subseteq Nat /\ DOMAIN s = 1 .. n /\ DOMAIN r \subseteq Nat /\ n \in Nat
  BY Joined
<1>2. \A i \in DOMAIN s : i \in DOMAIN u /\ u[i] = s[i]
  BY Joined
<1>3. \A i \in DOMAIN r : n + i \in DOMAIN u /\ u[n + i] = r[i]
  BY Joined
<1>4. \A i \in DOMAIN u : (i \in DOMAIN s /\ u[i] = s[i]) \/ (i - n \in DOMAIN r /\ u[i] = r[i - n])
  BY Joined
<1>5. \A i, j \in DOMAIN u : i < j /\ j \in DOMAIN s => i \in DOMAIN s
  BY <1>1
<1>6. \A i, j \in DOMAIN u : i - n = j - n => i = j
  BY <1>1
<1> HIDE DEF u, n
<1>7. \A b : Has(u, b) <=> Has(s, b) \/ Has(r, b)
  BY <1>2, <1>3, <1>4 DEF Has
<1>8. Ends(u) => Ends(s) \/ Ends(r)
  BY <1>4 DEF Ends
<1>9. OneSign(s) /\ ~Has(r, Plus) /\ ~Has(r, Minus) => OneSign(u)
  BY <1>4 DEF OneSign, Has
<1>10. OneSign(r) /\ ~Has(s, Plus) /\ ~Has(s, Minus) => OneSign(u)
  BY <1>4, <1>6 DEF OneSign, Has
<1>11. PlusFirst(s) /\ ~Has(r, Plus) => PlusFirst(u)
  BY <1>4 DEF PlusFirst, Has
<1>12. \A c : OneCommand(s, c) /\ ~Ends(r) => OneCommand(u, c)
  BY <1>4 DEF OneCommand, Ends
<1>13. \A c : OneCommand(r, c) /\ ~Ends(s) => OneCommand(u, c)
  BY <1>4, <1>6 DEF OneCommand, Ends
<1>14. CleanAfter(s) /\ Clean(r) => CleanAfter(u)
  BY <1>2, <1>4, <1>5 DEF CleanAfter, Clean
<1>15. \A V : Carries(s, V) /\ Carries(r, V) => Carries(u, V)
  BY <1>4 DEF Carries
<1>16. \A V : CarriesAfter(s, V) /\ Carries(r, V) => CarriesAfter(u, V)
  BY <1>2, <1>4, <1>5 DEF CarriesAfter, Carries
<1> QED
  BY <1>7, <1>8, <1>9, <1>10, <1>11, <1>12, <1>13, <1>14, <1>15, <1>16 DEF u

\* No packet that was whole is broken when more is sent.
LEMMA JoinedWhole ==
  ASSUME NEW S, NEW s \in Seq(S), NEW r \in Seq(S)
  PROVE  /\ Broken(s \o r) => Broken(s) \/ Broken(r)
         /\ BrokenBefore(s \o r) =>
              BrokenBefore(s) \/ (Broken(s) /\ Has(r, Plus)) \/ BrokenBefore(r)
<1> DEFINE u == s \o r
           n == Len(s)
<1>1. /\ Len(u) = n + Len(r) /\ n \in Nat /\ Len(r) \in Nat
      /\ DOMAIN u = 1 .. Len(u) /\ DOMAIN s = 1 .. n /\ DOMAIN r = 1 .. Len(r)
  BY Joined
<1>2. \A i \in DOMAIN s : u[i] = s[i]
  BY Joined
<1>3. \A i \in DOMAIN r : u[n + i] = r[i]
  BY Joined
<1>4. \A i \in DOMAIN u : (i \in DOMAIN s /\ u[i] = s[i]) \/ (i - n \in DOMAIN r /\ u[i] = r[i - n])
  BY Joined
<1> HIDE DEF u
<1>5. ASSUME NEW k \in DOMAIN u, BrokenAt(u, k), k \in DOMAIN s
      PROVE  BrokenAt(s, k)
  <2>1. ASSUME WholeAt(s, k)
        PROVE  WholeAt(u, k)
    <3>1. k + 2 <= n /\ s[k + 1].t = "data" /\ s[k + 2] = Byte("end", s[k + 1].v)
      BY <2>1 DEF WholeAt
    <3>2. k + 1 \in DOMAIN s /\ k + 2 \in DOMAIN s /\ k + 2 <= Len(u)
      BY <1>1, <1>5, <3>1
    <3>3. u[k + 1] = s[k + 1] /\ u[k + 2] = s[k + 2]
      BY <1>2, <3>2
    <3> QED
      BY <3>1, <3>2, <3>3 DEF WholeAt
  <2> QED
    BY <1>2, <1>5, <2>1 DEF BrokenAt
<1>6. ASSUME NEW k \in DOMAIN u, BrokenAt(u, k), k - n \in DOMAIN r
      PROVE  BrokenAt(r, k - n)
  <2>1. n + (k - n) = k /\ n + (k - n + 1) = k + 1 /\ n + (k - n + 2) = k + 2
    BY <1>1, <1>6
  <2>2. ASSUME WholeAt(r, k - n)
        PROVE  WholeAt(u, k)
    <3>1. k - n + 2 <= Len(r) /\ r[k - n + 1].t = "data" /\ r[k - n + 2] = Byte("end", r[k - n + 1].v)
      BY <2>2 DEF WholeAt
    <3>2. k - n + 1 \in DOMAIN r /\ k - n + 2 \in DOMAIN r /\ k + 2 <= Len(u)
      BY <1>1, <1>6, <3>1
    <3>3. u[n + (k - n + 1)] = r[k - n + 1] /\ u[n + (k - n + 2)] = r[k - n + 2]
      BY <1>3, <3>2
    <3>4. u[k + 1] = r[k - n + 1] /\ u[k + 2] = r[k - n + 2]
      BY <2>1, <3>3
    <3> QED
      BY <3>1, <3>2, <3>4 DEF WholeAt
  <2>3. u[n + (k - n)] = r[k - n]
    BY <1>3, <1>6
  <2>4. u[k] = r[k - n]
    BY <2>1, <2>3
  <2> QED
    BY <1>6, <2>2, <2>4 DEF BrokenAt
<1>7. Broken(u) => Broken(s) \/ Broken(r)
  BY <1>4, <1>5, <1>6 DEF Broken
<1>8. ASSUME NEW k \in DOMAIN u, NEW i \in DOMAIN u, k < i, BrokenAt(u, k), u[i] = Plus
      PROVE  BrokenBefore(s) \/ (Broken(s) /\ Has(r, Plus)) \/ BrokenBefore(r)
  <2>1. CASE k \in DOMAIN s
    <3>1. BrokenAt(s, k)
      BY <1>5, <1>8, <2>1
    <3>2. (i \in DOMAIN s /\ s[i] = Plus) \/ (i - n \in DOMAIN r /\ r[i - n] = Plus)
      BY <1>4, <1>8
    <3> QED
      BY <1>8, <2>1, <3>1, <3>2 DEF Broken, BrokenBefore, Has
  <2>2. CASE k \notin DOMAIN s
    <3>1. k - n \in DOMAIN r
      BY <1>4, <2>2
    <3>2. i \notin DOMAIN s /\ k - n < i - n
      BY <1>1, <1>8, <2>2
    <3>3. i - n \in DOMAIN r /\ r[i - n] = Plus
      BY <1>4, <1>8, <3>2
    <3> QED
      BY <1>6, <1>8, <3>1, <3>2, <3>3 DEF BrokenBefore
  <2> QED
    BY <2>1, <2>2
<1>9. BrokenBefore(u) => BrokenBefore(s) \/ (Broken(s) /\ Has(r, Plus)) \/ BrokenBefore(r)
  BY <1>8 DEF BrokenBefore
<1> QED
  BY <1>7, <1>9 DEF u

\* What is sent.
LEMMA PacketSent ==
  ASSUME NEW v
  PROVE  /\ ~Has(Packet(v), Plus) /\ ~Has(Packet(v), Minus)
         /\ OneCommand(Packet(v), v)
         /\ ~Broken(Packet(v)) /\ ~BrokenBefore(Packet(v))
         /\ \A V : v \in V => Carries(Packet(v), V)
<1> DEFINE p == Packet(v)
<1>1. /\ DOMAIN p = {1, 2, 3} /\ Len(p) = 3
      /\ p[1] = Start /\ p[2] = Byte("data", v) /\ p[3] = Byte("end", v)
  BY DEF Packet
<1> HIDE DEF p
<1>2. /\ p[1] # Plus /\ p[2] # Plus /\ p[3] # Plus
      /\ p[1] # Minus /\ p[2] # Minus /\ p[3] # Minus
      /\ p[1].t # "end" /\ p[2].t # "end" /\ p[3].v = v /\ p[2].t = "data" /\ p[2].v = v
      /\ p[2] # Start /\ p[3] # Start
  BY <1>1, Marks
<1>3. ~Has(p, Plus) /\ ~Has(p, Minus)
  BY <1>1, <1>2 DEF Has
<1>4. OneCommand(p, v)
  BY <1>1, <1>2 DEF OneCommand
<1>5. ~Broken(p) /\ ~BrokenBefore(p)
  <2>1. WholeAt(p, 1)
    BY <1>1, <1>2 DEF WholeAt
  <2>2. \A k \in DOMAIN p : ~BrokenAt(p, k)
    BY <1>1, <1>2, <2>1 DEF BrokenAt
  <2> QED
    BY <2>2 DEF Broken, BrokenBefore
<1>6. \A V : v \in V => Carries(p, V)
  BY <1>1, <1>2 DEF Carries
<1> QED
  BY <1>3, <1>4, <1>5, <1>6 DEF p

\* A mark that is sent is no part of a packet.
LEMMA MarkSent ==
  ASSUME NEW b \in {Plus, Minus, CtrlC}
  PROVE  /\ \A a : Has(<<b>>, a) <=> a = b
         /\ ~Ends(<<b>>) /\ OneSign(<<b>>) /\ PlusFirst(<<b>>)
         /\ ~Broken(<<b>>) /\ ~BrokenBefore(<<b>>)
         /\ Clean(<<b>>) /\ \A V : Carries(<<b>>, V)
<1> DEFINE s == <<b>>
<1>1. Len(s) = 1 /\ DOMAIN s = 1 .. 1 /\ s[1] = b
  OBVIOUS
<1>2. b.t \notin {"end", "$"} /\ b # Start
  BY Marks
<1>3. \A i \in DOMAIN s : i = 1 /\ s[i] = b
  BY <1>1
<1>4. 1 \in DOMAIN s
  BY <1>1
<1> HIDE DEF s
<1>5. \A a : Has(s, a) <=> a = b
  BY <1>3, <1>4 DEF Has
<1>6. ~Ends(s) /\ Clean(s) /\ \A V : Carries(s, V)
  BY <1>2, <1>3 DEF Ends, Clean, Framing, Carries
<1>7. OneSign(s) /\ PlusFirst(s)
  BY <1>3 DEF OneSign, PlusFirst
<1>8. ~Broken(s) /\ ~BrokenBefore(s)
  BY <1>2, <1>3 DEF Broken, BrokenBefore, BrokenAt
<1> QED
  BY <1>5, <1>6, <1>7, <1>8 DEF s

\* Where there is no "+" nothing is after one.
LEMMA NoPlus ==
  ASSUME NEW s, ~Has(s, Plus)
  PROVE  PlusFirst(s) /\ ~BrokenBefore(s) /\ CleanAfter(s) /\ \A V : CarriesAfter(s, V)
  BY DEF Has, PlusFirst, BrokenBefore, CleanAfter, CarriesAfter

\* Where there are no packets all of them are true.
LEMMA CleanCarries ==
  ASSUME NEW s
  PROVE  /\ Clean(s) => \A V : Carries(s, V)
         /\ CleanAfter(s) => \A V : CarriesAfter(s, V)
  BY DEF Clean, CleanAfter, Carries, CarriesAfter, Framing

-----------------------------------------------------------------------------
(* The answers: a command is obeyed once, and what gdb is told is so. *)

\* How often the command has been obeyed, the access under way included, and whether it
\* may be obeyed again: it is on the line, or asked for.
Obeys == times + (IF pc = "memory" THEN 1 ELSE 0)
Outstanding == Ends(toStub) \/ Has(toHost, Minus)

\* There is one command or one acknowledge on the line, or none.
OneOutstanding ==
  /\ OneSign(toHost) /\ OneCommand(toStub, asked)
  /\ Ends(toStub) => ~Has(toHost, Plus) /\ ~Has(toHost, Minus)

\* None unless gdb waits for it.  The "+" of set_debug_traps may come first.
OnlyAsked ==
  host # "ack" =>
    /\ ~Ends(toStub) /\ ~Has(toHost, Minus)
    /\ PlusFirst(toHost) /\ (Has(toHost, Plus) => host = "reply")

\* A command is obeyed again only where a fault has been paid for it: with a "+" that is
\* lost, or cut off behind a broken packet.
Paid ==
  /\ Obeys <= 1 + faults
  /\ host = "ack" /\ ~Has(toHost, Plus) => Obeys <= faults
  /\ Outstanding /\ Broken(toHost) => Obeys + 1 <= faults
  /\ BrokenBefore(toHost) => Obeys <= faults
  /\ Broken(toHost) => 1 <= faults

Accounts == OneOutstanding /\ OnlyAsked /\ Paid

\* While an access is under way gdb waits, and no packet is sent.
Accessing ==
  pc = "memory" =>
    /\ host # "idle"
    /\ host = "reply" => Clean(toHost)
    /\ host = "ack" => CleanAfter(toHost)

\* Once the command asked has been obeyed, or the guest runs on as it told, whatever
\* is sent is a true answer to it.
Answered == asked # NoValue /\ (host # "ack" \/ Has(toHost, Plus))
Truths == {a \in Answers : Holds(asked, a)}
Replies ==
  Answered =>
    /\ pc = "put" => Holds(asked, remcomOutBuffer)
    /\ pc = "put" /\ next = "run" => asked.op = "D"
    /\ pc = "run" => asked.op \in {"c", "s", "D"}
    /\ pc = "memory" => cmd = asked
    /\ host = "reply" => Carries(toHost, Truths)
    /\ host = "ack" => CarriesAfter(toHost, Truths)
NotYet == host # "idle" => answer = NoValue

Beliefs == Accessing /\ Replies /\ NotYet /\ AnswerHolds

ObeyInv == TypeInv /\ RoutineGuarded /\ Accounts /\ Beliefs

\* A step after which nothing is on the lines that was not there before, but for whole
\* packets, and no "+" that gdb waits for is taken away, unless it was paid for.
LEMMA CalmStep ==
  ASSUME Accounts, faults' = faults, Obeys' = Obeys, asked' = asked,
         Ends(toStub') => Ends(toStub), OneCommand(toStub', asked),
         OneSign(toHost'), PlusFirst(toHost) => PlusFirst(toHost'),
         Has(toHost', Plus) => Has(toHost, Plus), Has(toHost', Minus) => Has(toHost, Minus),
         host = "ack" /\ Has(toHost, Plus) => Has(toHost', Plus) \/ BrokenBefore(toHost),
         Broken(toHost') => Broken(toHost), BrokenBefore(toHost') => BrokenBefore(toHost),
         host' = host \/ (host = "reply" /\ host' = "idle" /\ ~Has(toHost', Plus))
  PROVE  Accounts'
<1>1. OneOutstanding'
  BY DEF Accounts, OneOutstanding
<1>2. OnlyAsked'
  BY DEF Accounts, OnlyAsked
<1>3. Paid'
  BY DEF Accounts, Paid, Outstanding
<1> QED
  BY <1>1, <1>2, <1>3 DEF Accounts

\* The command that the stub reads is the one asked, and the only one.
LEMMA StubReads ==
  ASSUME LineTyped, Accounts, Get
  PROVE  /\ Ends(toStub') => Ends(toStub)
         /\ OneCommand(toStub', asked)
         /\ Head(toStub).t = "end" =>
              Ends(toStub) /\ ~Ends(toStub') /\ Head(toStub).v = asked
<1>1. /\ toStub \in Seq(StubBytes) /\ toStub # <<>> /\ toStub' = Tail(toStub)
      /\ OneCommand(toStub, asked)
  BY DEF LineTyped, Get, Accounts, OneOutstanding
<1>2. /\ toStub' \in Seq(StubBytes) /\ Dropped(toStub', toStub, 1) /\ 1 \in 0 .. Len(toStub)
      /\ toStub[1] = Head(toStub) /\ 1 \in DOMAIN toStub
  BY <1>1, TailDrops
<1>3. Thinned(toStub', toStub)
  BY <1>1, <1>2, DroppedThins
<1>4. ASSUME Head(toStub).t = "end"
      PROVE  Ends(toStub) /\ ~Ends(toStub') /\ Head(toStub).v = asked
  <2>1. ASSUME NEW k \in DOMAIN toStub', toStub'[k].t = "end"
        PROVE  FALSE
    <3>1. k + 1 \in DOMAIN toStub /\ toStub[k + 1].t = "end" /\ k \in Nat \ {0}
      BY <1>2, <2>1 DEF Dropped
    <3>2. k + 1 = 1
      BY <1>1, <1>2, <1>4, <3>1 DEF OneCommand
    <3> QED
      BY <3>1, <3>2
  <2> QED
    BY <1>1, <1>2, <1>4, <2>1 DEF Ends, OneCommand
<1> QED
  BY <1>1, <1>2, <1>3, <1>4, ThinnedKeeps

\* What gdb is sent with a packet.
LEMMA PacketPut ==
  ASSUME LineTyped, NEW v \in Answers, Put(Packet(v))
  PROVE  /\ Has(toHost', Plus) <=> Has(toHost, Plus)
         /\ Has(toHost', Minus) <=> Has(toHost, Minus)
         /\ OneSign(toHost) => OneSign(toHost')
         /\ PlusFirst(toHost) => PlusFirst(toHost')
         /\ Broken(toHost') => Broken(toHost)
         /\ BrokenBefore(toHost') => BrokenBefore(toHost)
         /\ \A V : v \in V /\ Carries(toHost, V) => Carries(toHost', V)
         /\ \A V : v \in V /\ CarriesAfter(toHost, V) => CarriesAfter(toHost', V)
<1>1. toHost \in Seq(HostBytes) /\ toHost' = toHost \o Packet(v)
  BY DEF LineTyped, Put
<1>2. Packet(v) \in Seq(HostBytes)
  BY BytesTyped DEF HostBytes
<1> HIDE DEF Packet
<1> QED
  BY <1>1, <1>2, JoinedKeeps, JoinedWhole, PacketSent

\* What is left when gdb has read something.
LEMMA HostReads ==
  ASSUME LineTyped, NEW n \in 0 .. Len(toHost), Dropped(toHost', toHost, n),
         toHost' \in Seq(HostBytes)
  PROVE  /\ Has(toHost', Plus) => Has(toHost, Plus)
         /\ Has(toHost', Minus) => Has(toHost, Minus)
         /\ OneSign(toHost) => OneSign(toHost')
         /\ PlusFirst(toHost) => PlusFirst(toHost')
         /\ Broken(toHost') => Broken(toHost)
         /\ BrokenBefore(toHost') => BrokenBefore(toHost)
         /\ Clean(toHost) => Clean(toHost')
         /\ CleanAfter(toHost) => CleanAfter(toHost')
         /\ \A V : Carries(toHost, V) => Carries(toHost', V)
         /\ \A V : CarriesAfter(toHost, V) => CarriesAfter(toHost', V)
         /\ Has(toHost, Plus) /\ (\A i \in 1 .. n : toHost[i] # Plus) => Has(toHost', Plus)
<1>1. toHost \in Seq(HostBytes)
  BY DEF LineTyped
<1>2. Thinned(toHost', toHost)
  BY <1>1, DroppedThins
<1> QED
  BY <1>1, <1>2, ThinnedKeeps, DroppedWhole

\* The reports of an access and of an exception are packets.
LEMMA Reported ==
  ASSUME TypeInv, RoutineGuarded, Access \/ MemFault \/ (\E fault \in BOOLEAN : Exception(fault))
  PROVE  /\ pc' = "put" /\ next' = "get" /\ remcomOutBuffer' \in Answers
         /\ Put(Packet(remcomOutBuffer'))
         /\ UNCHANGED <<toStub, faults, hostVars>> /\ Obeys' = Obeys
<1>1. TypeInv'
  BY ReportTyped
<1>2. /\ \E out : putpacket(out, "get")
      /\ UNCHANGED <<toStub, faults, hostVars>> /\ Obeys' = Obeys
  <2>1. CASE Access
    BY <2>1 DEF Access, Obeyed, Obeys, putpacket, TypeInv, TypeOK
  <2>2. CASE MemFault
    BY <2>2 DEF MemFault, Obeyed, Obeys, putpacket, TypeInv, TypeOK
  <2>3. CASE \E fault \in BOOLEAN : Exception(fault)
    BY <2>3 DEF Exception, Obeys, putpacket, RoutineGuarded
  <2> QED
    BY <2>1, <2>2, <2>3
<1> QED
  BY <1>1, <1>2 DEF putpacket, TypeInv, TypeOK

\* They add a whole packet, and nothing else.
LEMMA ReportAccounts ==
  ASSUME TypeInv, RoutineGuarded, Accounts,
         Access \/ MemFault \/ (\E fault \in BOOLEAN : Exception(fault))
  PROVE  Accounts'
<1>1. /\ remcomOutBuffer' \in Answers /\ Put(Packet(remcomOutBuffer'))
      /\ UNCHANGED <<toStub, faults, asked, host>> /\ Obeys' = Obeys
  BY Reported DEF hostVars
<1>2. LineTyped
  BY DEF TypeInv
<1>3. OneSign(toHost) /\ OneCommand(toStub, asked)
  BY DEF Accounts, OneOutstanding
<1> QED
  BY <1>1, <1>2, <1>3, PacketPut, CalmStep

\* Bytes that are read and obey no command.
LEMMA ReadAccounts ==
  ASSUME TypeInv, Accounts, PutAcknowledged \/ PutAgain \/ BreakIn \/ GetStart \/ GetByte
  PROVE  Accounts'
<1>1. /\ Get /\ UNCHANGED <<faults, asked, host, times>>
      /\ pc # "memory" /\ pc' # "memory"
      /\ toHost' = toHost \/ Put(Packet(remcomOutBuffer))
  BY DEF PutAcknowledged, PutAgain, BreakIn, GetStart, GetByte, stubVars, hostVars, historyVars,
     TypeInv, TypeOK
<1>2. LineTyped /\ remcomOutBuffer \in Answers
  BY DEF TypeInv, TypeOK
<1>3. OneSign(toHost)
  BY DEF Accounts, OneOutstanding
<1>4. Obeys' = Obeys
  BY <1>1 DEF Obeys
<1> QED
  BY <1>1, <1>2, <1>3, <1>4, PacketPut, StubReads, CalmStep

\* A packet that is refused was the command asked, which is asked for again now.
LEMMA RefusalAccounts ==
  ASSUME TypeInv, Accounts, GetRefused
  PROVE  Accounts' /\ host = "ack" /\ ~Has(toHost', Plus)
<1>1. /\ Get /\ Head(toStub).t = "end" /\ toHost' = toHost \o <<Minus>>
      /\ UNCHANGED <<faults, asked, host, times>>
      /\ pc # "memory" /\ pc' # "memory"
  BY DEF GetRefused, Put, hostVars, historyVars
<1>2. LineTyped /\ toHost \in Seq(HostBytes) /\ <<Minus>> \in Seq(HostBytes)
  BY BytesTyped DEF HostBytes, TypeInv, LineTyped
<1>3. Obeys' = Obeys
  BY <1>1 DEF Obeys
<1>4. Ends(toStub) /\ ~Ends(toStub') /\ OneCommand(toStub', asked)
  BY <1>1, <1>2, StubReads
<1>5. host = "ack" /\ ~Has(toHost, Plus) /\ ~Has(toHost, Minus)
  BY <1>4 DEF Accounts, OneOutstanding, OnlyAsked
<1>6. /\ ~Has(<<Minus>>, Plus) /\ OneSign(<<Minus>>)
      /\ ~Broken(<<Minus>>) /\ ~BrokenBefore(<<Minus>>)
  BY MarkSent, Marks
<1>7. /\ ~Has(toHost', Plus) /\ OneSign(toHost')
      /\ Broken(toHost') => Broken(toHost)
  BY <1>1, <1>2, <1>5, <1>6, JoinedKeeps, JoinedWhole
<1>8. ~BrokenBefore(toHost')
  BY <1>7, NoPlus
<1>9. OneOutstanding'
  BY <1>1, <1>4, <1>7 DEF OneOutstanding
<1>10. OnlyAsked'
  BY <1>1, <1>5 DEF OnlyAsked
<1>11. Paid'
  BY <1>1, <1>3, <1>4, <1>5, <1>7, <1>8 DEF Accounts, Paid, Outstanding
<1> QED
  BY <1>5, <1>7, <1>9, <1>10, <1>11 DEF Accounts

\* What follows the acknowledge of a command at once.
Said == {<<>>} \cup {Packet(v) : v \in Answers}

(* A member of Said is the empty sequence or the packet of an answer. *)
LEMMA SaidIs ==
  /\ <<>> \in Said /\ (\A v \in Answers : Packet(v) \in Said)
  /\ \A q \in Said : q = <<>> \/ (\E v \in Answers : q = Packet(v))
  BY DEF Said

\* The command is read and acknowledged: it has been paid for, and cannot be read again.
LEMMA Acknowledged ==
  ASSUME TypeInv, Accounts, NEW c \in Commands, Accepts(c), NEW q \in Said,
         Put(<<Plus>> \o q)
  PROVE  /\ c = asked /\ host = "ack" /\ ~Has(toHost, Plus)
         /\ ~Ends(toStub') /\ OneCommand(toStub', asked)
         /\ Has(toHost', Plus) /\ ~Has(toHost', Minus) /\ OneSign(toHost')
         /\ Broken(toHost') \/ BrokenBefore(toHost') => Outstanding /\ Broken(toHost)
         /\ \A V : Carries(q, V) => CarriesAfter(toHost', V)
         /\ q = <<>> => CleanAfter(toHost')
<1>1. Get /\ Head(toStub).t = "end" /\ c = Head(toStub).v
  BY DEF Accepts
<1>2. LineTyped
  BY DEF TypeInv
<1>3. Ends(toStub) /\ ~Ends(toStub') /\ OneCommand(toStub', asked) /\ c = asked
  BY <1>1, <1>2, StubReads
<1>4. host = "ack" /\ ~Has(toHost, Plus) /\ ~Has(toHost, Minus)
  BY <1>3 DEF Accounts, OneOutstanding, OnlyAsked
<1>5. /\ toHost \in Seq(HostBytes) /\ <<Plus>> \in Seq(HostBytes) /\ q \in Seq(HostBytes)
  <2>1. /\ toHost \in Seq(HostBytes) /\ Plus \in HostBytes
        /\ \A v \in Answers : Packet(v) \in Seq(HostBytes)
    BY <1>2, BytesTyped DEF HostBytes, LineTyped
  <2>2. <<Plus>> \in Seq(HostBytes) /\ <<>> \in Seq(HostBytes)
    BY <2>1
  <2> HIDE DEF Packet
  <2> QED
    BY <2>1, <2>2, SaidIs
<1> DEFINE s == toHost \o <<Plus>>
<1>6. s \in Seq(HostBytes) /\ toHost' = s \o q
  BY <1>5 DEF Put
<1> HIDE DEF s
<1>7. /\ Has(<<Plus>>, Plus) /\ ~Has(<<Plus>>, Minus) /\ OneSign(<<Plus>>) /\ Clean(<<Plus>>)
      /\ ~Broken(<<Plus>>) /\ ~BrokenBefore(<<Plus>>) /\ \A V : Carries(<<Plus>>, V)
  BY MarkSent, Marks
<1>8. /\ Has(s, Plus) /\ ~Has(s, Minus) /\ OneSign(s) /\ CleanAfter(s)
      /\ Broken(s) \/ BrokenBefore(s) => Broken(toHost)
      /\ \A V : CarriesAfter(s, V)
  BY <1>4, <1>5, <1>7, JoinedKeeps, JoinedWhole, NoPlus DEF s
<1>9. CASE q = <<>>
  <2>1. toHost' = s
    BY <1>6, <1>9
  <2> QED
    BY <1>3, <1>4, <1>8, <2>1 DEF Outstanding
<1>10. ASSUME NEW v \in Answers, q = Packet(v)
       PROVE  /\ Has(toHost', Plus) /\ ~Has(toHost', Minus) /\ OneSign(toHost')
              /\ Broken(toHost') \/ BrokenBefore(toHost') => Broken(toHost)
              /\ \A V : Carries(q, V) => CarriesAfter(toHost', V)
              /\ q # <<>>
  <2>1. ~Has(q, Plus) /\ ~Has(q, Minus) /\ ~Broken(q) /\ ~BrokenBefore(q)
    BY <1>10, PacketSent
  <2>2. q # <<>>
    BY <1>10 DEF Packet
  <2> QED
    BY <1>5, <1>6, <1>8, <2>1, <2>2, JoinedKeeps, JoinedWhole
<1> QED
  BY <1>3, <1>4, <1>9, <1>10, SaidIs DEF Outstanding

\* A command is obeyed: what it costs is what is owed for it.
LEMMA ObeyAccounts ==
  ASSUME TypeInv, Accounts, ObeyAtOnce \/ ObeyResume \/ ObeyMemory
  PROVE  Accounts'
<1>1. PICK c \in Commands, q \in Said :
        /\ Accepts(c) /\ Put(<<Plus>> \o q)
        /\ Obeys' = Obeys + 1
  <2>1. CASE ObeyAtOnce
    <3>1. PICK c \in Commands :
            /\ Accepts(c) /\ Put(<<Plus>> \o Packet(Reply(c))) /\ times' = times + 1
            /\ pc = "body" /\ pc' = "put"
      BY <2>1 DEF ObeyAtOnce, Obeyed, Accepts
    <3>2. Reply(c) \in Answers
      BY AnswersTyped DEF Reply, TypeInv, TypeOK
    <3>3. Obeys' = Obeys + 1
      BY <3>1 DEF Obeys, TypeInv, TypeOK
    <3> QED
      BY <3>1, <3>2, <3>3, SaidIs
  <2>2. CASE ObeyResume \/ ObeyMemory
    <3>1. PICK c \in Commands :
            /\ Accepts(c) /\ Put(<<Plus>>) /\ pc = "body"
            /\ \/ pc' = "run" /\ times' = times + 1
               \/ pc' = "memory" /\ times' = times
      BY <2>2 DEF ObeyResume, ObeyMemory, Obeyed, Accepts
    <3>2. <<Plus>> = <<Plus>> \o <<>>
      OBVIOUS
    <3>3. Obeys' = Obeys + 1
      BY <3>1 DEF Obeys, TypeInv, TypeOK
    <3> QED
      BY <3>1, <3>2, <3>3, SaidIs
  <2> QED
    BY <2>1, <2>2
<1>2. UNCHANGED <<faults, asked, host>>
  BY <1>1 DEF Accepts, hostVars
<1>3. /\ host = "ack" /\ ~Has(toHost, Plus)
      /\ ~Ends(toStub') /\ OneCommand(toStub', asked)
      /\ Has(toHost', Plus) /\ ~Has(toHost', Minus) /\ OneSign(toHost')
      /\ Broken(toHost') \/ BrokenBefore(toHost') => Outstanding /\ Broken(toHost)
  BY <1>1, Acknowledged
<1>4. OneOutstanding'
  BY <1>2, <1>3 DEF OneOutstanding
<1>5. OnlyAsked'
  BY <1>2, <1>3 DEF OnlyAsked
<1>6. Paid'
  <2>1. Obeys \in Nat /\ faults \in Nat
    BY DEF Obeys, TypeInv, TypeOK
  <2> QED
    BY <1>1, <1>2, <1>3, <2>1 DEF Accounts, Paid, Outstanding
<1> QED
  BY <1>4, <1>5, <1>6 DEF Accounts

\* gdb reads from the front of the line, and gives up a line on which nothing comes.
LEMMA HostDrops ==
  ASSUME TypeInv, HostAcknowledged \/ HostRefused \/ HostPacket \/ HostBroken \/ HostIgnores
                  \/ HostTimeout
  PROVE  /\ toHost' \in Seq(HostBytes) /\ DOMAIN toHost = 1 .. Len(toHost)
         /\ \E n \in 0 .. Len(toHost) : Dropped(toHost', toHost, n)
         /\ HostPacket => Dropped(toHost', toHost, 3) /\ 3 \in 0 .. Len(toHost)
         /\ HostAcknowledged \/ HostRefused \/ HostIgnores =>
              /\ Dropped(toHost', toHost, 1) /\ 1 \in 0 .. Len(toHost)
              /\ toHost[1] = Head(toHost) /\ 1 \in DOMAIN toHost
<1>1. toHost \in Seq(HostBytes) /\ Len(toHost) \in Nat /\ DOMAIN toHost = 1 .. Len(toHost)
  BY DEF TypeInv, LineTyped
<1>2. CASE HostAcknowledged \/ HostRefused \/ HostIgnores
  <2>1. toHost # <<>> /\ toHost' = Tail(toHost)
    BY <1>2 DEF HostAcknowledged, HostRefused, HostIgnores
  <2>2. /\ toHost' \in Seq(HostBytes) /\ Dropped(toHost', toHost, 1) /\ 1 \in 0 .. Len(toHost)
        /\ toHost[1] = Head(toHost) /\ 1 \in DOMAIN toHost
    BY <1>1, <2>1, TailDrops
  <2>3. ~HostPacket
    BY <1>2, <2>2, Marks DEF HostAcknowledged, HostRefused, HostIgnores, HostPacket, WholePacket
  <2> QED
    BY <1>1, <2>2, <2>3
<1>3. CASE HostPacket
  <2>1. 3 \in 0 .. Len(toHost) /\ toHost' = SubSeq(toHost, 3 + 1, Len(toHost)) /\ toHost[1] = Start
        /\ toHost # <<>>
    BY <1>1, <1>3 DEF HostPacket, WholePacket
  <2>2. toHost' \in Seq(HostBytes) /\ Dropped(toHost', toHost, 3)
    BY <1>1, <2>1, SubSeqDrops
  <2>3. Head(toHost) = Start /\ Start # Plus /\ Start # Minus
    BY <1>1, <2>1, Marks
  <2>4. ~(HostAcknowledged \/ HostRefused \/ HostIgnores)
    BY <2>3 DEF HostAcknowledged, HostRefused, HostIgnores
  <2> QED
    BY <1>1, <2>1, <2>2, <2>4
<1>4. CASE HostBroken
  <2>1. PICK i \in 2 .. Len(toHost) : toHost' = SubSeq(toHost, i + 1, Len(toHost))
    BY <1>4 DEF HostBroken
  <2>2. i \in 0 .. Len(toHost)
    BY <1>1, <2>1
  <2>3. toHost' \in Seq(HostBytes) /\ Dropped(toHost', toHost, i)
    BY <1>1, <2>1, <2>2, SubSeqDrops
  <2>4. toHost # <<>> /\ toHost[1] = Start /\ ~WholePacket
    BY <1>4 DEF HostBroken, BrokenPacket
  <2>5. Head(toHost) = Start /\ Start # Plus /\ Start # Minus
    BY <1>1, <2>4, Marks
  <2>6. ~(HostAcknowledged \/ HostRefused \/ HostIgnores \/ HostPacket)
    BY <2>4, <2>5 DEF HostAcknowledged, HostRefused, HostIgnores, HostPacket
  <2> QED
    BY <1>1, <2>2, <2>3, <2>6
<1>5. CASE HostTimeout
  <2>1. toHost' = <<>> /\ ~WholePacket /\ (toHost # <<>> => Head(toHost) = Start)
    BY <1>5 DEF HostTimeout, Silent
  <2>2. <<>> \in Seq(HostBytes) /\ Len(<<>>) = 0 /\ DOMAIN <<>> = {}
    OBVIOUS
  <2>3. Dropped(toHost', toHost, Len(toHost)) /\ Len(toHost) \in 0 .. Len(toHost)
    BY <1>1, <2>1, <2>2 DEF Dropped
  <2>4. ~(HostAcknowledged \/ HostRefused \/ HostIgnores \/ HostPacket)
    BY <2>1, Marks DEF HostAcknowledged, HostRefused, HostIgnores, HostPacket
  <2> QED
    BY <1>1, <2>1, <2>2, <2>3, <2>4
<1> QED
  BY <1>2, <1>3, <1>4, <1>5

\* A line that begins with a packet that is not whole.
LEMMA BrokenFirst ==
  ASSUME LineTyped, toHost # <<>>, Head(toHost) = Start, ~WholePacket
  PROVE  Has(toHost, Plus) => BrokenBefore(toHost)
<1>1. /\ toHost \in Seq(HostBytes) /\ 1 \in DOMAIN toHost /\ toHost[1] = Start
      /\ DOMAIN toHost \subseteq Nat \ {0}
  BY DEF LineTyped
<1>2. BrokenAt(toHost, 1)
  <2>1. Len(toHost) \in Nat
    BY <1>1
  <2> QED
    BY <1>1, <2>1 DEF BrokenAt, WholeAt, WholePacket
<1>3. ASSUME NEW i \in DOMAIN toHost, toHost[i] = Plus
      PROVE  1 < i
  BY <1>1, <1>3, Marks
<1> QED
  BY <1>1, <1>2, <1>3 DEF Has, BrokenBefore

\* The bytes that gdb sends do not end a command.
LEMMA MarkSends ==
  ASSUME LineTyped, Accounts, NEW b \in {Plus, Minus, CtrlC}, Send(<<b>>)
  PROVE  (Ends(toStub') => Ends(toStub)) /\ OneCommand(toStub', asked)
<1>1. toStub \in Seq(StubBytes) /\ toStub' = toStub \o <<b>> /\ OneCommand(toStub, asked)
  BY DEF LineTyped, Send, Accounts, OneOutstanding
<1>2. b \in StubBytes
  BY BytesTyped DEF StubBytes
<1>3. <<b>> \in Seq(StubBytes)
  BY <1>2
<1>4. ~Ends(<<b>>)
  BY MarkSent
<1> QED
  BY <1>1, <1>3, <1>4, JoinedKeeps

\* What gdb reads when it waits for something else, and what it says then.
LEMMA HostAccounts ==
  ASSUME TypeInv, Accounts,
         HostPacket \/ HostBroken \/ HostIgnores \/ HostBreak \/ (HostTimeout /\ host = "reply")
  PROVE  Accounts'
<1>1. LineTyped /\ toHost \in Seq(HostBytes)
  BY DEF TypeInv, LineTyped
<1>2. UNCHANGED <<faults, asked, pc, times>>
  BY DEF HostPacket, HostBroken, HostIgnores, HostBreak, HostTimeout, stubVars, hostVars, historyVars
<1>3. Obeys' = Obeys
  BY <1>2 DEF Obeys
<1>4. (Ends(toStub') => Ends(toStub)) /\ OneCommand(toStub', asked)
  <2>1. toStub' = toStub \/ (\E b \in {Plus, Minus, CtrlC} : Send(<<b>>))
    BY DEF HostPacket, HostBroken, HostIgnores, HostBreak, HostTimeout
  <2> QED
    BY <1>1, <2>1, MarkSends DEF Accounts, OneOutstanding
<1>5. /\ Has(toHost', Plus) => Has(toHost, Plus)
      /\ Has(toHost', Minus) => Has(toHost, Minus)
      /\ OneSign(toHost') /\ (PlusFirst(toHost) => PlusFirst(toHost'))
      /\ Broken(toHost') => Broken(toHost)
      /\ BrokenBefore(toHost') => BrokenBefore(toHost)
  <2>1. CASE HostBreak
    BY <2>1 DEF HostBreak, Accounts, OneOutstanding
  <2>2. CASE ~HostBreak
    <3>1. toHost' \in Seq(HostBytes) /\ \E n \in 0 .. Len(toHost) : Dropped(toHost', toHost, n)
      BY <2>2, HostDrops
    <3> QED
      BY <1>1, <3>1, HostReads DEF Accounts, OneOutstanding
  <2> QED
    BY <2>1, <2>2
<1>6. host = "ack" /\ Has(toHost, Plus) => Has(toHost', Plus) \/ BrokenBefore(toHost)
  <2>1. CASE HostPacket
    <3>1. /\ Dropped(toHost', toHost, 3) /\ 3 \in 0 .. Len(toHost) /\ toHost' \in Seq(HostBytes)
          /\ DOMAIN toHost = 1 .. Len(toHost)
      BY <2>1, HostDrops
    <3>2. toHost[1] # Plus /\ toHost[2] # Plus /\ toHost[3] # Plus
      BY <2>1, Marks DEF HostPacket, WholePacket
    <3>3. \A i \in 1 .. 3 : toHost[i] # Plus
      BY <3>2
    <3> QED
      BY <1>1, <3>1, <3>3, HostReads
  <2>2. CASE HostBroken
    <3>1. toHost # <<>> /\ Head(toHost) = Start /\ ~WholePacket
      BY <1>1, <2>2 DEF HostBroken, BrokenPacket
    <3> QED
      BY <1>1, <3>1, BrokenFirst
  <2>3. CASE HostIgnores /\ host = "ack"
    <3>1. /\ Dropped(toHost', toHost, 1) /\ 1 \in 0 .. Len(toHost) /\ toHost' \in Seq(HostBytes)
          /\ toHost[1] = Head(toHost)
      BY <2>3, HostDrops
    <3>2. \A i \in 1 .. 1 : toHost[i] # Plus
      BY <2>3, <3>1 DEF HostIgnores
    <3> QED
      BY <1>1, <3>1, <3>2, HostReads
  <2> QED
    BY <2>1, <2>2, <2>3 DEF HostBreak
<1>7. host' = host \/ (host = "reply" /\ host' = "idle" /\ ~Has(toHost', Plus))
  <2>1. CASE HostPacket /\ host = "reply"
    <3>1. PlusFirst(toHost) /\ toHost[1] = Start
      BY <2>1 DEF HostPacket, WholePacket, Accounts, OnlyAsked
    <3>2. ~Has(toHost, Plus)
      BY <3>1, Marks DEF PlusFirst, Has
    <3> QED
      BY <1>5, <2>1, <3>2 DEF HostPacket
  <2>2. CASE HostTimeout /\ host = "reply"
    <3>1. toHost' = <<>> /\ DOMAIN <<>> = {}
      BY <2>2 DEF HostTimeout
    <3>2. ~Has(toHost', Plus)
      BY <3>1 DEF Has
    <3> QED
      BY <2>2, <3>2 DEF HostTimeout
  <2> QED
    BY <2>1, <2>2 DEF HostPacket, HostBroken, HostIgnores, HostBreak, hostVars
<1> QED
  BY <1>2, <1>3, <1>4, <1>5, <1>6, <1>7, CalmStep

\* gdb reads the acknowledge: none is left.
LEMMA AcknowledgedAccounts ==
  ASSUME TypeInv, Accounts, HostAcknowledged
  PROVE  Accounts' /\ toHost[1] = Plus /\ Has(toHost, Plus)
<1>1. /\ host = "ack" /\ host' = "reply" /\ Head(toHost) = Plus
      /\ UNCHANGED <<toStub, faults, asked, pc, times>>
  BY DEF HostAcknowledged, stubVars, historyVars
<1>2. /\ toHost' \in Seq(HostBytes) /\ Dropped(toHost', toHost, 1) /\ 1 \in 0 .. Len(toHost)
      /\ toHost[1] = Plus /\ 1 \in DOMAIN toHost
  BY <1>1, HostDrops
<1>3. LineTyped
  BY DEF TypeInv
<1>4. Has(toHost, Plus) /\ ~Has(toHost, Minus) /\ OneSign(toHost)
  <2>1. Plus # Minus
    BY Marks
  <2> QED
    BY <1>2, <2>1 DEF Has, Accounts, OneOutstanding, OneSign
<1>5. ~Has(toHost', Plus)
  <2>1. ASSUME NEW k \in DOMAIN toHost', toHost'[k] = Plus
        PROVE  FALSE
    <3>1. k + 1 \in DOMAIN toHost /\ toHost[k + 1] = Plus /\ k \in Nat \ {0}
      BY <1>2, <2>1 DEF Dropped
    <3>2. k + 1 = 1
      BY <1>2, <1>4, <3>1 DEF OneSign
    <3> QED
      BY <3>1, <3>2
  <2> QED
    BY <2>1 DEF Has
<1>6. /\ ~Has(toHost', Minus) /\ OneSign(toHost')
      /\ Broken(toHost') => Broken(toHost)
      /\ BrokenBefore(toHost') => BrokenBefore(toHost)
  BY <1>2, <1>3, <1>4, HostReads
<1>7. ~Ends(toStub)
  BY <1>4 DEF Accounts, OneOutstanding
<1>8. PlusFirst(toHost') /\ ~BrokenBefore(toHost')
  BY <1>5, NoPlus
<1>9. Obeys' = Obeys
  BY <1>1 DEF Obeys
<1>10. OneOutstanding'
  BY <1>1, <1>5, <1>6 DEF Accounts, OneOutstanding
<1>11. OnlyAsked'
  BY <1>1, <1>5, <1>6, <1>7, <1>8 DEF OnlyAsked
<1>12. Paid'
  BY <1>1, <1>6, <1>7, <1>8, <1>9 DEF Accounts, Paid, Outstanding
<1> QED
  BY <1>2, <1>4, <1>10, <1>11, <1>12 DEF Accounts

\* The command is sent again: it has been refused, or its acknowledge has not come, which
\* is then behind a packet that is not whole.
LEMMA AgainAccounts ==
  ASSUME TypeInv, Accounts, HostRefused \/ (HostTimeout /\ host = "ack")
  PROVE  Accounts' /\ ~Has(toHost', Plus)
<1>1. /\ host = "ack" /\ UNCHANGED <<faults, asked, host, pc, times>>
      /\ toStub' = toStub \o Packet(asked) /\ asked \in Commands
  BY DEF HostRefused, HostTimeout, Send, stubVars, hostVars, historyVars, TypeInv, WorkTyped
<1>2. LineTyped /\ toStub \in Seq(StubBytes) /\ Packet(asked) \in Seq(StubBytes)
  BY <1>1, BytesTyped DEF StubBytes, TypeInv, LineTyped
<1>3. /\ ~Ends(toStub) /\ ~Has(toHost', Plus) /\ ~Has(toHost', Minus) /\ OneSign(toHost')
      /\ Obeys <= faults
      /\ Broken(toHost') => Obeys + 1 <= faults
  <2>1. CASE HostRefused
    <3>1. /\ toHost' \in Seq(HostBytes) /\ Dropped(toHost', toHost, 1) /\ 1 \in 0 .. Len(toHost)
          /\ toHost[1] = Minus /\ 1 \in DOMAIN toHost
      BY <2>1, HostDrops DEF HostRefused
    <3>2. Has(toHost, Minus) /\ OneSign(toHost)
      BY <3>1 DEF Has, Accounts, OneOutstanding
    <3>3. ~Has(toHost, Plus)
      BY <3>1, <3>2, Marks DEF Has, OneSign
    <3>4. ~Ends(toStub)
      BY <3>2 DEF Accounts, OneOutstanding
    <3>5. /\ ~Has(toHost', Plus) /\ OneSign(toHost')
          /\ Broken(toHost') => Broken(toHost)
      BY <1>2, <3>1, <3>2, <3>3, HostReads
    <3>6. ~Has(toHost', Minus)
      <4>1. ASSUME NEW k \in DOMAIN toHost', toHost'[k] = Minus
            PROVE  FALSE
        <5>1. k + 1 \in DOMAIN toHost /\ toHost[k + 1] = Minus /\ k \in Nat \ {0}
          BY <3>1, <4>1 DEF Dropped
        <5>2. k + 1 = 1
          BY <3>1, <3>2, <5>1 DEF OneSign
        <5> QED
          BY <5>1, <5>2
      <4> QED
        BY <4>1 DEF Has
    <3> QED
      BY <1>1, <3>2, <3>3, <3>4, <3>5, <3>6 DEF Accounts, Paid, Outstanding
  <2>2. CASE HostTimeout
    <3>1. /\ toStub = <<>> /\ ~WholePacket /\ toHost' = <<>>
          /\ toHost # <<>> => Head(toHost) = Start
      BY <2>2 DEF HostTimeout, Silent
    <3>2. DOMAIN <<>> = {}
      OBVIOUS
    <3>3. ~Ends(toStub)
      BY <3>1, <3>2 DEF Ends
    <3>4. ~Has(toHost', Plus) /\ ~Has(toHost', Minus) /\ OneSign(toHost') /\ ~Broken(toHost')
      BY <3>1, <3>2 DEF Has, OneSign, Broken
    <3>5. Has(toHost, Plus) => toHost # <<>>
      BY <3>2 DEF Has
    <3>6. Has(toHost, Plus) => BrokenBefore(toHost)
      BY <1>2, <3>1, <3>5, BrokenFirst
    <3> QED
      BY <1>1, <3>3, <3>4, <3>6 DEF Accounts, Paid
  <2> QED
    BY <2>1, <2>2
<1>4. OneCommand(toStub', asked)
  <2>1. OneCommand(Packet(asked), asked)
    BY PacketSent
  <2> HIDE DEF Packet
  <2> QED
    BY <1>1, <1>2, <1>3, <2>1, JoinedKeeps
<1>5. ~BrokenBefore(toHost')
  BY <1>3, NoPlus
<1>6. Obeys' = Obeys /\ Obeys \in Nat /\ faults \in Nat
  BY <1>1 DEF Obeys, TypeInv, TypeOK
<1>7. OneOutstanding'
  BY <1>1, <1>3, <1>4 DEF OneOutstanding
<1>8. OnlyAsked'
  BY <1>1 DEF OnlyAsked
<1>9. Paid'
  BY <1>1, <1>3, <1>5, <1>6 DEF Paid, Outstanding, Accounts
<1> QED
  BY <1>3, <1>7, <1>8, <1>9 DEF Accounts

\* A new command: the one before is not on the line any more.
LEMMA AskAccounts ==
  ASSUME TypeInv, Accounts, Accessing, NEW c \in Commands, HostAsk(c)
  PROVE  Accounts' /\ ~Has(toHost', Plus)
<1>1. /\ host = "idle" /\ host' = "ack" /\ asked' = c /\ toStub' = toStub \o Packet(c)
      /\ times' = 0 /\ UNCHANGED <<toHost, faults, pc>>
  BY DEF HostAsk, Send, stubVars
<1>2. toStub \in Seq(StubBytes) /\ Packet(c) \in Seq(StubBytes)
  BY BytesTyped DEF StubBytes, TypeInv, LineTyped
<1>3. ~Ends(toStub) /\ ~Has(toHost, Plus) /\ ~Has(toHost, Minus) /\ OneSign(toHost)
  BY <1>1 DEF Accounts, OnlyAsked, OneOutstanding
<1>4. OneCommand(toStub', asked')
  <2>1. OneCommand(Packet(c), c)
    BY PacketSent
  <2> HIDE DEF Packet
  <2> QED
    BY <1>1, <1>2, <1>3, <2>1, JoinedKeeps
<1>5. Obeys' = 0 /\ faults \in Nat
  BY <1>1 DEF Obeys, Accessing, TypeInv, TypeOK
<1>6. ~BrokenBefore(toHost)
  BY <1>3, NoPlus
<1>7. OneOutstanding'
  BY <1>1, <1>3, <1>4 DEF OneOutstanding
<1>8. OnlyAsked'
  BY <1>1 DEF OnlyAsked
<1>9. Paid'
  BY <1>1, <1>5, <1>6 DEF Accounts, Paid
<1> QED
  BY <1>1, <1>3, <1>7, <1>8, <1>9 DEF Accounts

\* A fault pays for whatever comes of it.
LEMMA FaultThins ==
  ASSUME TypeInv, Fault
  PROVE  /\ Thinned(toStub', toStub) /\ Thinned(toHost', toHost)
         /\ toStub \in Seq(StubBytes) /\ toStub' \in Seq(StubBytes)
         /\ toHost \in Seq(HostBytes) /\ toHost' \in Seq(HostBytes)
<1>1. TypeInv'
  BY FaultTyped
<1>2. /\ toStub \in Seq(StubBytes) /\ toStub' \in Seq(StubBytes)
      /\ toHost \in Seq(HostBytes) /\ toHost' \in Seq(HostBytes)
  BY <1>1 DEF TypeInv, LineTyped
<1>3. Thinned(toStub, toStub) /\ Thinned(toHost, toHost)
  <2>1. Dropped(toStub, toStub, 0) /\ Dropped(toHost, toHost, 0)
    BY <1>2 DEF Dropped
  <2>2. 0 \in 0 .. Len(toStub) /\ 0 \in 0 .. Len(toHost)
    BY <1>2
  <2> QED
    BY <1>2, <2>1, <2>2, DroppedThins
<1> QED
  BY <1>2, <1>3, SpoilThins DEF Fault

LEMMA FaultAccounts ==
  ASSUME TypeInv, Accounts, Fault
  PROVE  Accounts'
<1>1. faults' = faults + 1 /\ UNCHANGED <<asked, host, pc, times>>
  BY DEF Fault, stubVars, hostVars, historyVars
<1>2. /\ Ends(toStub') => Ends(toStub)
      /\ OneCommand(toStub, asked) => OneCommand(toStub', asked)
  BY FaultThins, ThinnedKeeps
<1>3. /\ Has(toHost', Plus) => Has(toHost, Plus)
      /\ Has(toHost', Minus) => Has(toHost, Minus)
      /\ OneSign(toHost) => OneSign(toHost')
      /\ PlusFirst(toHost) => PlusFirst(toHost')
  BY FaultThins, ThinnedKeeps
<1>4. Obeys' = Obeys /\ Obeys \in Nat /\ faults \in Nat
  BY <1>1 DEF Obeys, TypeInv, TypeOK
<1>5. OneOutstanding'
  BY <1>1, <1>2, <1>3 DEF Accounts, OneOutstanding
<1>6. OnlyAsked'
  BY <1>1, <1>2, <1>3 DEF Accounts, OnlyAsked
<1>7. Paid'
  <2>1. Outstanding' => Obeys <= faults
    <3>1. Outstanding' => Outstanding
      BY <1>2, <1>3 DEF Outstanding
    <3>2. Outstanding => host = "ack" /\ ~Has(toHost, Plus)
      <4>1. Has(toHost, Minus) => ~Has(toHost, Plus)
        BY Marks DEF Accounts, OneOutstanding, OneSign, Has
      <4> QED
        BY <4>1 DEF Accounts, OneOutstanding, OnlyAsked, Outstanding
    <3> QED
      BY <3>1, <3>2 DEF Accounts, Paid
  <2>2. Obeys <= 1 + faults
    BY DEF Accounts, Paid
  <2> QED
    BY <1>1, <1>4, <2>1, <2>2 DEF Paid
<1> QED
  BY <1>5, <1>6, <1>7 DEF Accounts

\* What is true of the guest stays so while registers and memory do.
LEMMA TruthsKept ==
  ASSUME UNCHANGED <<registers, memory, asked>>
  PROVE  Truths' = Truths /\ \A a : Holds(asked, a)' <=> Holds(asked, a)
  BY DEF Truths, Holds

\* Nothing is believed of a command that has not been acknowledged.
LEMMA Unanswered ==
  ASSUME host' = "ack", ~Has(toHost', Plus), answer' = NoValue
  PROVE  Beliefs'
<1>1. CleanAfter(toHost')
  BY NoPlus
<1> QED
  BY <1>1 DEF Beliefs, Accessing, Replies, Answered, NotYet, AnswerHolds

\* Nothing that is read without obeying a command changes what is true.
LEMMA ReadBeliefs ==
  ASSUME TypeInv, Beliefs, PutAcknowledged \/ PutAgain \/ BreakIn \/ GetStart \/ GetByte
  PROVE  Beliefs'
<1>1. /\ UNCHANGED <<registers, memory, asked, host, answer, cmd, next, remcomOutBuffer>>
      /\ pc' # "memory" /\ (pc' = "put" => pc = "put")
      /\ pc' = "run" => pc = "run" \/ (pc = "put" /\ next = "run")
      /\ toHost' = toHost \/ (pc = "put" /\ Put(Packet(remcomOutBuffer)))
  BY DEF PutAcknowledged, PutAgain, BreakIn, GetStart, GetByte, stubVars, guestVars, hostVars,
     TypeInv, TypeOK
<1>2. Truths' = Truths /\ \A a : Holds(asked, a)' <=> Holds(asked, a)
  BY <1>1, TruthsKept
<1>3. LineTyped /\ remcomOutBuffer \in Answers
  BY DEF TypeInv, TypeOK
<1>4. Answered' => Answered
  BY <1>1, <1>3, PacketPut DEF Answered
<1>5. Answered /\ pc = "put" => remcomOutBuffer \in Truths
  BY <1>3 DEF Beliefs, Replies, Truths
<1>6. Answered => /\ host = "reply" => Carries(toHost', Truths)
                  /\ host = "ack" => CarriesAfter(toHost', Truths)
  BY <1>1, <1>3, <1>5, PacketPut DEF Beliefs, Replies
<1>7. Replies'
  <2> SUFFICES ASSUME Answered'
               PROVE  /\ pc' = "put" => Holds(asked, remcomOutBuffer)'
                      /\ pc' = "put" /\ next' = "run" => asked'.op = "D"
                      /\ pc' = "run" => asked'.op \in {"c", "s", "D"}
                      /\ pc' = "memory" => cmd' = asked'
                      /\ host' = "reply" => Carries(toHost', Truths')
                      /\ host' = "ack" => CarriesAfter(toHost', Truths')
    BY DEF Replies
  <2>1. /\ pc = "put" => Holds(asked, remcomOutBuffer)
        /\ pc = "put" /\ next = "run" => asked.op = "D"
        /\ pc = "run" => asked.op \in {"c", "s", "D"}
    BY <1>4 DEF Beliefs, Replies
  <2>2. pc' = "put" => Holds(asked, remcomOutBuffer)'
    BY <1>1, <2>1 DEF Holds
  <2> QED
    BY <1>1, <1>2, <1>4, <1>6, <2>1, <2>2
<1>8. AnswerHolds'
  BY <1>1 DEF Beliefs, AnswerHolds, Holds
<1> QED
  BY <1>1, <1>7, <1>8 DEF Beliefs, Accessing, NotYet

\* The answer to an access is true of the memory after it, and nothing that was true of
\* it before is on the line.
LEMMA AccessBeliefs ==
  ASSUME TypeInv, RoutineGuarded, Beliefs, Access \/ MemFault
  PROVE  Beliefs'
<1>1. /\ pc' = "put" /\ next' = "get" /\ remcomOutBuffer' \in Answers
      /\ Put(Packet(remcomOutBuffer')) /\ UNCHANGED <<asked, host, answer>>
      /\ pc = "memory" /\ registers' = registers
  BY Reported DEF hostVars, Access, MemFault
<1>2. LineTyped /\ cmd \in Commands /\ cmd.op \in {"m", "M"} /\ cmd.addr \in Addresses
  BY <1>1, CommandsTyped DEF TypeInv, WorkTyped
<1>3. host # "idle" /\ (host = "reply" => Clean(toHost)) /\ (host = "ack" => CleanAfter(toHost))
  BY <1>1 DEF Beliefs, Accessing
<1>4. Holds(cmd, remcomOutBuffer)'
  <2>1. CASE Access
    <3>1. mem_err = FALSE /\ cmd' = cmd
      BY <1>1, <2>1 DEF Access, RoutineGuarded
    <3>2. CASE cmd.op = "M"
      <4>1. remcomOutBuffer' = Answer("OK", NoValue)
        BY <2>1, <3>1, <3>2 DEF Access, putpacket
      <4>2. memory'[cmd.addr] = cmd.val
        BY <1>2, <2>1, <3>2 DEF Access, TypeInv, TypeOK
      <4> QED
        BY <2>1, <3>1, <3>2, <4>1, <4>2 DEF Access, Holds, Answer
    <3>3. CASE cmd.op = "m"
      <4>1. remcomOutBuffer' = Answer("data", memory[cmd.addr]) /\ memory' = memory
        BY <2>1, <3>1, <3>3 DEF Access, putpacket
      <4> QED
        BY <2>1, <3>1, <3>3, <4>1 DEF Access, Holds
    <3> QED
      BY <1>2, <3>2, <3>3
  <2>2. CASE MemFault
    BY <1>2, <2>2 DEF MemFault, putpacket, Holds, Answer
  <2> QED
    BY <2>1, <2>2
<1>5. Answered' => Answered
  BY <1>1, <1>2, PacketPut DEF Answered
<1>6. Answered => cmd = asked
  BY <1>1 DEF Beliefs, Replies
<1>7. cmd' = cmd
  BY DEF Access, MemFault
<1>8. Answered => Holds(asked, remcomOutBuffer)'
  BY <1>1, <1>4, <1>6, <1>7 DEF Holds
<1>9. Answered => remcomOutBuffer' \in Truths'
  BY <1>1, <1>8 DEF Truths, Answers
<1>10. Answered => /\ host = "reply" => Carries(toHost', Truths')
                   /\ host = "ack" => CarriesAfter(toHost', Truths')
  BY <1>1, <1>2, <1>3, <1>9, CleanCarries, PacketPut
<1>11. Replies'
  BY <1>1, <1>5, <1>8, <1>10 DEF Replies
<1> QED
  BY <1>1, <1>3, <1>11 DEF Beliefs, Accessing, NotYet, AnswerHolds

\* An exception stops a guest that was let run; what was told before does not depend on
\* its registers.
LEMMA ExceptionBeliefs ==
  ASSUME TypeInv, RoutineGuarded, Beliefs, NEW fault \in BOOLEAN, Exception(fault)
  PROVE  Beliefs'
<1>1. /\ pc' = "put" /\ next' = "get" /\ remcomOutBuffer' \in Answers
      /\ Put(Packet(remcomOutBuffer')) /\ UNCHANGED <<asked, host, answer>>
  BY Reported DEF hostVars
<1>2. pc = "run" /\ memory' = memory /\ remcomOutBuffer' = Answer("T", NoValue)
  BY DEF Exception, putpacket, RoutineGuarded
<1>3. LineTyped
  BY DEF TypeInv
<1>4. Answered' => Answered
  BY <1>1, <1>3, PacketPut DEF Answered
<1>5. Answered => asked.op \in {"c", "s", "D"}
  BY <1>2 DEF Beliefs, Replies
<1>6. Answered => /\ Truths' = Truths /\ Holds(asked, remcomOutBuffer)'
                  /\ Holds(asked, answer)' <=> Holds(asked, answer)
  BY <1>1, <1>2, <1>5 DEF Truths, Holds, Answer
<1>7. Answered => remcomOutBuffer' \in Truths'
  BY <1>1, <1>6 DEF Truths, Answers
<1>8. Answered => /\ host = "reply" => Carries(toHost', Truths')
                  /\ host = "ack" => CarriesAfter(toHost', Truths')
  BY <1>1, <1>3, <1>6, <1>7, PacketPut DEF Beliefs, Replies
<1>9. Replies'
  BY <1>1, <1>4, <1>6, <1>8 DEF Replies
<1>10. AnswerHolds'
  BY <1>1, <1>6 DEF Beliefs, AnswerHolds, Answered
<1> QED
  BY <1>1, <1>9, <1>10 DEF Beliefs, Accessing, NotYet

\* A command is answered by what it has done.
LEMMA ObeyBeliefs ==
  ASSUME TypeInv, Accounts, Beliefs, ObeyAtOnce \/ ObeyResume \/ ObeyMemory
  PROVE  Beliefs'
<1>1. PICK c \in Commands, q \in Said :
        /\ Accepts(c) /\ Put(<<Plus>> \o q) /\ memory' = memory
        /\ \/ /\ pc' = "put" /\ (next' = "run" => c.op = "D")
              /\ remcomOutBuffer' \in Answers /\ Holds(c, remcomOutBuffer)'
              /\ q = Packet(remcomOutBuffer')
           \/ pc' = "run" /\ q = <<>> /\ c.op \in {"c", "s"}
           \/ pc' = "memory" /\ q = <<>>
  <2>1. CASE ObeyAtOnce
    <3>1. PICK c \in Commands :
            /\ c.op \in {"?", "g", "P", "k", "D"} /\ Accepts(c) /\ Effect(c)
            /\ remcomOutBuffer' = Reply(c) /\ pc' = "put"
            /\ next' = (IF c.op = "D" THEN "run" ELSE "get")
            /\ Put(<<Plus>> \o Packet(Reply(c))) /\ memory' = memory
      BY <2>1 DEF ObeyAtOnce
    <3>2. Reply(c) \in Answers
      BY AnswersTyped DEF Reply, TypeInv, TypeOK
    <3>3. Holds(c, remcomOutBuffer)'
      BY <3>1 DEF Effect, Reply, Holds, Answer
    <3> QED
      BY <3>1, <3>2, <3>3, SaidIs
  <2>2. CASE ObeyResume \/ ObeyMemory
    <3>1. PICK c \in Commands :
            /\ Accepts(c) /\ Put(<<Plus>>) /\ memory' = memory
            /\ (pc' = "run" /\ c.op \in {"c", "s"}) \/ pc' = "memory"
      BY <2>2 DEF ObeyResume, ObeyMemory
    <3>2. <<Plus>> = <<Plus>> \o <<>>
      OBVIOUS
    <3> QED
      BY <3>1, <3>2, SaidIs
  <2> QED
    BY <2>1, <2>2
<1>2. cmd' = c /\ UNCHANGED <<asked, host, answer>>
  BY <1>1 DEF Accepts, hostVars
<1>3. /\ c = asked /\ host = "ack"
      /\ \A V : Carries(q, V) => CarriesAfter(toHost', V)
      /\ q = <<>> => CleanAfter(toHost')
  BY <1>1, Acknowledged
<1>4. Carries(q, Truths')
  <2>1. CASE q = <<>>
    BY <2>1 DEF Carries
  <2>2. CASE q = Packet(remcomOutBuffer') /\ remcomOutBuffer' \in Answers /\ Holds(c, remcomOutBuffer)'
    <3>1. Holds(asked, remcomOutBuffer)'
      BY <1>2, <1>3, <2>2 DEF Holds
    <3>2. remcomOutBuffer' \in Truths'
      BY <2>2, <3>1 DEF Truths, Answers
    <3> QED
      BY <2>2, <3>2, PacketSent
  <2> QED
    BY <1>1, <2>1, <2>2
<1>5. pc' = "put" => Holds(asked, remcomOutBuffer)'
  BY <1>1, <1>2, <1>3 DEF Holds
<1>6. Replies'
  BY <1>1, <1>2, <1>3, <1>4, <1>5 DEF Replies
<1>7. Accessing'
  BY <1>1, <1>2, <1>3 DEF Accessing
<1> QED
  BY <1>2, <1>3, <1>6, <1>7 DEF Beliefs, NotYet, AnswerHolds

\* gdb takes the reply that comes after the acknowledge.
LEMMA HostBeliefs ==
  ASSUME TypeInv, Accounts, Beliefs,
         HostAcknowledged \/ HostPacket \/ HostBroken \/ HostIgnores \/ HostBreak
           \/ (HostTimeout /\ host = "reply")
  PROVE  Beliefs'
<1>1. UNCHANGED <<registers, memory, asked, pc, next, cmd, remcomOutBuffer>>
  BY DEF HostAcknowledged, HostPacket, HostBroken, HostIgnores, HostBreak, HostTimeout,
     stubVars, guestVars, hostVars
<1>2. Truths' = Truths /\ \A a : Holds(asked, a)' <=> Holds(asked, a)
  BY <1>1, TruthsKept
<1>3. LineTyped
  BY DEF TypeInv
<1>4. /\ Has(toHost', Plus) => Has(toHost, Plus)
      /\ Clean(toHost) => Clean(toHost')
      /\ CleanAfter(toHost) => CleanAfter(toHost')
      /\ \A V : Carries(toHost, V) => Carries(toHost', V)
      /\ \A V : CarriesAfter(toHost, V) => CarriesAfter(toHost', V)
  <2>1. CASE HostBreak
    BY <2>1 DEF HostBreak
  <2>2. CASE ~HostBreak
    <3>1. toHost' \in Seq(HostBytes) /\ \E n \in 0 .. Len(toHost) : Dropped(toHost', toHost, n)
      BY <2>2, HostDrops
    <3> QED
      BY <1>3, <3>1, HostReads
  <2> QED
    BY <2>1, <2>2
<1>5. CASE HostAcknowledged
  <2>1. /\ host = "ack" /\ host' = "reply" /\ answer' = answer /\ Has(toHost, Plus)
        /\ toHost[1] = Plus /\ Dropped(toHost', toHost, 1) /\ 1 \in DOMAIN toHost
    BY <1>5, AcknowledgedAccounts, HostDrops DEF HostAcknowledged
  <2>2. \A k \in DOMAIN toHost' : k + 1 \in DOMAIN toHost /\ 1 < k + 1 /\ toHost'[k] = toHost[k + 1]
    <3>1. toHost' \in Seq(HostBytes)
      BY <1>5, HostDrops
    <3> QED
      BY <2>1, <3>1 DEF Dropped
  <2>3. CleanAfter(toHost) => Clean(toHost')
    BY <2>1, <2>2 DEF CleanAfter, Clean
  <2>4. CarriesAfter(toHost, Truths) => Carries(toHost', Truths)
    BY <2>1, <2>2 DEF CarriesAfter, Carries
  <2>5. Replies'
    <3>1. Answered' => Answered
      BY <1>1, <2>1 DEF Answered
    <3>2. pc' = "put" /\ Answered => Holds(asked, remcomOutBuffer)'
      BY <1>1 DEF Beliefs, Replies, Holds
    <3> QED
      BY <1>1, <1>2, <2>1, <2>4, <3>1, <3>2 DEF Beliefs, Replies
  <2> QED
    BY <1>1, <2>1, <2>3, <2>5 DEF Beliefs, Accessing, NotYet, AnswerHolds
<1>6. CASE ~HostAcknowledged
  <2>1. \/ host' = host /\ answer' = answer /\ host # "idle"
        \/ /\ host = "reply" /\ host' = "idle" /\ pc # "memory"
           /\ answer' = answer \/ (answer' \in Truths \/ ~Answered)
    <3>1. CASE HostPacket
      <4>1. /\ 3 \in DOMAIN toHost /\ 1 \in DOMAIN toHost
            /\ toHost[1] = Start /\ toHost[3] = Byte("end", toHost[2].v)
        BY <3>1, HostDrops DEF HostPacket, WholePacket
      <4>2. Carries(toHost, Truths) => toHost[2].v \in Truths
        BY <4>1, Marks DEF Carries
      <4>3. ~Clean(toHost)
        BY <4>1, Marks DEF Clean, Framing
      <4>4. host = "reply" => pc # "memory"
        BY <4>3 DEF Beliefs, Accessing
      <4>5. host = "reply" => toHost[2].v \in Truths \/ ~Answered
        BY <4>2 DEF Beliefs, Replies
      <4> QED
        BY <3>1, <4>4, <4>5 DEF HostPacket
    <3>2. CASE HostTimeout /\ host = "reply"
      BY <3>2 DEF HostTimeout, Silent
    <3> QED
      BY <1>6, <3>1, <3>2 DEF HostBroken, HostIgnores, HostBreak, hostVars
  <2>2. Answered' => Answered
    BY <1>1, <1>4, <2>1 DEF Answered
  <2>3. Replies'
    <3>1. pc' = "put" /\ Answered => Holds(asked, remcomOutBuffer)'
      BY <1>1 DEF Beliefs, Replies, Holds
    <3>2. Answered' => /\ host' = "reply" => Carries(toHost', Truths')
                       /\ host' = "ack" => CarriesAfter(toHost', Truths')
      BY <1>2, <1>4, <2>1, <2>2 DEF Beliefs, Replies
    <3> QED
      BY <1>1, <2>2, <3>1, <3>2 DEF Beliefs, Replies
  <2>4. Accessing'
    BY <1>1, <1>4, <2>1 DEF Beliefs, Accessing
  <2>5. NotYet'
    BY <2>1 DEF Beliefs, NotYet
  <2>6. AnswerHolds'
    <3> SUFFICES ASSUME host' = "idle", asked # NoValue, answer' # NoValue
                 PROVE  Holds(asked, answer)'
      BY <1>1 DEF AnswerHolds
    <3>1. host = "reply" /\ answer' \in Truths
      BY <2>1 DEF Beliefs, NotYet, Answered
    <3> QED
      BY <1>1, <3>1 DEF Truths, Holds
  <2> QED
    BY <2>3, <2>4, <2>5, <2>6 DEF Beliefs
<1> QED
  BY <1>5, <1>6

\* A fault makes no reply of what was none.
LEMMA FaultBeliefs ==
  ASSUME TypeInv, Beliefs, Fault
  PROVE  Beliefs'
<1>1. UNCHANGED <<registers, memory, asked, host, answer, pc, next, cmd, remcomOutBuffer>>
  BY DEF Fault, stubVars, guestVars, hostVars
<1>2. Truths' = Truths /\ \A a : Holds(asked, a)' <=> Holds(asked, a)
  BY <1>1, TruthsKept
<1>3. /\ Has(toHost', Plus) => Has(toHost, Plus)
      /\ Clean(toHost) => Clean(toHost')
      /\ CleanAfter(toHost) => CleanAfter(toHost')
      /\ \A V : Carries(toHost, V) => Carries(toHost', V)
      /\ \A V : CarriesAfter(toHost, V) => CarriesAfter(toHost', V)
  BY FaultThins, ThinnedKeeps
<1>4. Replies'
  <2>1. Answered' => Answered
    BY <1>1, <1>3 DEF Answered
  <2>2. pc' = "put" /\ Answered => Holds(asked, remcomOutBuffer)'
    BY <1>1 DEF Beliefs, Replies, Holds
  <2> QED
    BY <1>1, <1>2, <1>3, <2>1, <2>2 DEF Beliefs, Replies
<1>5. AnswerHolds'
  BY <1>1 DEF Beliefs, AnswerHolds, Holds
<1> QED
  BY <1>1, <1>3, <1>4, <1>5 DEF Beliefs, Accessing, NotYet

-----------------------------------------------------------------------------
(* The theorems. *)
LEMMA InitObeys ==
  ASSUME Init
  PROVE  ObeyInv
<1>1. /\ toStub = <<>> /\ toHost = <<Plus>> /\ faults = 0 /\ pc = "run" /\ host = "reply"
      /\ asked = NoValue /\ answer = NoValue /\ times = 0 /\ next = "get"
      /\ mem_fault_routine = FALSE /\ swallowed = FALSE
  BY DEF Init
<1>2. ~Ends(toStub) /\ OneCommand(toStub, asked)
  <2>1. DOMAIN <<>> = {}
    OBVIOUS
  <2> QED
    BY <1>1, <2>1 DEF Ends, OneCommand
<1>3. /\ OneSign(toHost) /\ PlusFirst(toHost) /\ ~Has(toHost, Minus)
      /\ ~Broken(toHost) /\ ~BrokenBefore(toHost)
  BY <1>1, MarkSent, Marks
<1>4. Accounts
  BY <1>1, <1>2, <1>3 DEF Accounts, OneOutstanding, OnlyAsked, Paid, Obeys
<1>5. Beliefs
  BY <1>1 DEF Beliefs, Accessing, Replies, Answered, NotYet, AnswerHolds
<1>6. RoutineGuarded
  BY <1>1 DEF RoutineGuarded
<1> QED
  BY <1>4, <1>5, <1>6, InitTyped DEF ObeyInv

\* Each action keeps the accounts and the beliefs.
LEMMA StepObeys ==
  ASSUME ObeyInv, [Next]_vars
  PROVE  ObeyInv'
<1>1. TypeInv' /\ RoutineGuarded'
  BY TypeStep, GuardedStep DEF ObeyInv
<1>2. CASE UNCHANGED vars
  <2>1. UNCHANGED <<toStub, toHost, faults, pc, remcomOutBuffer, next, cmd, registers, memory,
                    host, asked, answer, times>>
    BY <1>2 DEF vars, lineVars, stubVars, guestVars, hostVars, historyVars
  <2>2. Accounts'
    BY <2>1 DEF ObeyInv, Accounts, OneOutstanding, OnlyAsked, Paid, Outstanding, Obeys
  <2>3. Accessing' /\ NotYet'
    BY <2>1 DEF ObeyInv, Beliefs, Accessing, NotYet
  <2>4. Truths' = Truths /\ \A a : Holds(asked, a)' <=> Holds(asked, a)
    BY <2>1, TruthsKept
  <2>5. Holds(asked, remcomOutBuffer)' <=> Holds(asked, remcomOutBuffer)
    BY <2>1 DEF Holds
  <2>6. Replies'
    BY <2>1, <2>4, <2>5 DEF ObeyInv, Beliefs, Replies, Answered
  <2>7. AnswerHolds'
    BY <2>1 DEF ObeyInv, Beliefs, AnswerHolds, Holds
  <2> QED
    BY <1>1, <2>2, <2>3, <2>6, <2>7 DEF ObeyInv, Beliefs
<1>3. CASE PutAcknowledged \/ PutAgain \/ BreakIn \/ GetStart \/ GetByte
  BY <1>1, <1>3, ReadAccounts, ReadBeliefs DEF ObeyInv
<1>4. CASE GetRefused
  <2>1. Accounts' /\ host = "ack" /\ ~Has(toHost', Plus)
    BY <1>4, RefusalAccounts DEF ObeyInv
  <2>2. host' = "ack" /\ answer' = NoValue
    BY <1>4, <2>1 DEF GetRefused, hostVars, ObeyInv, Beliefs, NotYet
  <2> QED
    BY <1>1, <2>1, <2>2, Unanswered DEF ObeyInv
<1>5. CASE ObeyAtOnce \/ ObeyResume \/ ObeyMemory
  BY <1>1, <1>5, ObeyAccounts, ObeyBeliefs DEF ObeyInv
<1>6. CASE Access \/ MemFault
  BY <1>1, <1>6, ReportAccounts, AccessBeliefs DEF ObeyInv
<1>7. CASE \E fault \in BOOLEAN : Exception(fault)
  BY <1>1, <1>7, ReportAccounts, ExceptionBeliefs DEF ObeyInv
<1>8. CASE HostPacket \/ HostBroken \/ HostIgnores \/ HostBreak \/ (HostTimeout /\ host = "reply")
  BY <1>1, <1>8, HostAccounts, HostBeliefs DEF ObeyInv
<1>9. CASE HostAcknowledged
  BY <1>1, <1>9, AcknowledgedAccounts, HostBeliefs DEF ObeyInv
<1>10. CASE HostRefused \/ (HostTimeout /\ host = "ack")
  <2>1. Accounts' /\ ~Has(toHost', Plus)
    BY <1>10, AgainAccounts DEF ObeyInv
  <2>2. host' = "ack" /\ answer' = NoValue
    BY <1>10 DEF HostRefused, HostTimeout, hostVars, ObeyInv, Beliefs, NotYet
  <2> QED
    BY <1>1, <2>1, <2>2, Unanswered DEF ObeyInv
<1>11. CASE \E c \in Commands : HostAsk(c)
  <2>1. Accounts' /\ ~Has(toHost', Plus)
    BY <1>11, AskAccounts DEF ObeyInv, Beliefs
  <2>2. host' = "ack" /\ answer' = NoValue
    BY <1>11 DEF HostAsk
  <2> QED
    BY <1>1, <2>1, <2>2, Unanswered DEF ObeyInv
<1>12. CASE Fault
  BY <1>1, <1>12, FaultAccounts, FaultBeliefs DEF ObeyInv
<1>13. HostTimeout => host \in {"ack", "reply"}
  BY DEF HostTimeout
<1> QED
  BY <1>2, <1>3, <1>4, <1>5, <1>6, <1>7, <1>8, <1>9, <1>10, <1>11, <1>12, <1>13
  DEF Next, Stub, GetPacket, Host

\* A command is obeyed once, and once more at most for every byte of the line that was
\* damaged or lost, however many commands gdb sends: getpacket acknowledges a command before
\* it is obeyed (i386-stub.c:510-514), and only an acknowledge that was spoilt, or stuck
\* behind a packet that was, makes gdb send it again.
THEOREM CommandObeyedOnce == Spec => []ObeyedOnce
<1>1. Init => ObeyInv
  BY InitObeys
<1>2. ObeyInv /\ [Next]_vars => ObeyInv'
  BY StepObeys
<1>3. ObeyInv => ObeyedOnce
  BY DEF ObeyInv, TypeInv, TypeOK, Accounts, Paid, Obeys, ObeyedOnce
<1> QED
  BY <1>1, <1>2, <1>3, PTL DEF Spec

\* The answer that gdb takes for the one to its command is, and it is true of the guest,
\* whatever the line has done to commands, replies and acknowledges.
THEOREM AnswersAreTrue == Spec => []AnswerHolds
<1>1. Init => ObeyInv
  BY InitObeys
<1>2. ObeyInv /\ [Next]_vars => ObeyInv'
  BY StepObeys
<1>3. ObeyInv => AnswerHolds
  BY DEF ObeyInv, Beliefs
<1> QED
  BY <1>1, <1>2, <1>3, PTL DEF Spec

=============================================================================
