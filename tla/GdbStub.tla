------------------------------ MODULE GdbStub ------------------------------
(***************************************************************************)
(* The remote debugging stub (i386-stub.c, i386-stub-glue.c): the guest    *)
(* stops at an exception, reports it to gdb over a serial line and obeys   *)
(* its commands until one of them lets the guest run again.                *)
(*                                                                         *)
(* The line damages and loses bytes.  A packet is three bytes here: "$",   *)
(* its contents, and the end, which stands for "#" and the checksum.       *)
(* Damaged and incomplete contents never have the right checksum (eight    *)
(* bits do not always tell).  The stub polls the line and runs with        *)
(* interrupts closed; what it sends it sends in one step.                  *)
(***************************************************************************)
EXTENDS Naturals, Sequences

CONSTANTS
  Values,     \* contents of a register or a byte of memory
  Addresses,  \* addresses gdb asks for
  Bad,        \* those that fault
  NoValue,    \* nothing
  BUFMAX,     \* bytes of a packet that the stub keeps
  MaxLine,    \* bound: bytes on the line in one direction
  MaxFaults   \* bound: bytes damaged or lost

ASSUME BadAssumption == Bad \subseteq Addresses
ASSUME BoundsAssumption ==
  BUFMAX \in Nat \ {0} /\ MaxLine \in Nat \ {0} /\ MaxFaults \in Nat

\* The commands of handle_exception: state enquiries, writes, resuming commands,
\* and those that are answered with nothing.  G and P differ in how much they set.
Commands ==
       [op : {"?", "g", "k", "c", "s", "D"}, addr : {NoValue}, val : {NoValue}]
  \cup [op : {"P"}, addr : {NoValue}, val : Values]
  \cup [op : {"m"}, addr : Addresses, val : {NoValue}]
  \cup [op : {"M"}, addr : Addresses, val : Values]

Byte(t, v) == [t |-> t, v |-> v]
Start == Byte("$", NoValue)
Plus  == Byte("+", NoValue)
Minus == Byte("-", NoValue)
Junk  == Byte("junk", NoValue)
CtrlC == Byte("^C", NoValue)
Packet(v) == <<Start, Byte("data", v), Byte("end", v)>>

VARIABLES
  toStub, toHost,   \* bytes on the line
  faults,           \* how many of them have been damaged or lost
  pc,               \* where the stub is
  remcomInBuffer,   \* the bytes received after "$"
  remcomOutBuffer,  \* the packet being sent
  next,             \* where putpacket returns to
  cmd,              \* the command being obeyed
  registers,        \* a register
  trace,            \* the trace bit of the flags
  memory,           \* the memory gdb asks for
  mem_fault_routine,  \* is set
  mem_err,
  host,             \* gdb: idle, waiting for an acknowledge or for a reply
  asked,            \* its command
  answer,           \* the reply it has accepted
  times,            \* history: how often the stub has obeyed the command asked
  swallowed         \* history: an exception of the guest was taken for the stub's

lineVars == <<toStub, toHost, faults>>
stubVars == <<pc, remcomInBuffer, remcomOutBuffer, next, cmd>>
guestVars == <<registers, trace, memory, mem_fault_routine, mem_err>>
hostVars == <<host, asked, answer>>
historyVars == <<times, swallowed>>
vars == <<lineVars, stubVars, guestVars, hostVars, historyVars>>

Answer(r, v) == [r |-> r, v |-> v]
Answers ==
       [r : {"T", "S", "", "OK", "E03"}, v : {NoValue}]
  \cup [r : {"data"}, v : Values]

TypeOK ==
  /\ Len(toStub) <= MaxLine /\ Len(toHost) <= MaxLine
  /\ faults \in 0 .. MaxFaults
  /\ pc \in {"run", "put", "get", "body", "memory"}
  /\ Len(remcomInBuffer) <= BUFMAX
  /\ pc = "body" => Len(remcomInBuffer) < BUFMAX
  /\ remcomOutBuffer \in Answers
  /\ next \in {"get", "run"}
  /\ cmd \in Commands \cup {NoValue}
  /\ registers \in Values /\ trace \in BOOLEAN
  /\ memory \in [Addresses -> Values]
  /\ mem_fault_routine \in BOOLEAN /\ mem_err \in BOOLEAN
  /\ host \in {"idle", "ack", "reply"}
  /\ asked \in Commands \cup {NoValue}
  /\ answer \in Answers \cup {NoValue}
  /\ times \in Nat

\* set_debug_traps has acknowledged whatever gdb may have sent before.
Init ==
  /\ toStub = <<>> /\ toHost = <<Plus>> /\ faults = 0
  /\ pc = "run" /\ remcomInBuffer = <<>>
  /\ remcomOutBuffer = Answer("", NoValue) /\ next = "get" /\ cmd = NoValue
  /\ registers \in Values /\ trace = FALSE
  /\ \E v \in Values : memory = [a \in Addresses |-> v]
  /\ mem_fault_routine = FALSE /\ mem_err = FALSE
  /\ host = "reply" /\ asked = NoValue /\ answer = NoValue
  /\ times = 0 /\ swallowed = FALSE

-----------------------------------------------------------------------------
\* getDebugChar and putDebugChar.
Get == toStub # <<>> /\ toStub' = Tail(toStub)
Put(bytes) ==
  /\ Len(toHost) + Len(bytes) <= MaxLine
  /\ toHost' = toHost \o bytes

\* putpacket: the packet is sent, and sent again for every byte that is not "+".
putpacket(out, ret) ==
  /\ pc' = "put" /\ next' = ret
  /\ remcomOutBuffer' = out
  /\ Put(Packet(out))

PutAcknowledged ==
  /\ pc = "put" /\ Get /\ Head(toStub) = Plus
  /\ pc' = next
  /\ UNCHANGED <<toHost, faults, remcomInBuffer, remcomOutBuffer, next, cmd, guestVars,
                 hostVars, historyVars>>

\* Mutant: putpacket only waits for "+" and does not send again.
PutAgainWaits ==
  /\ pc = "put" /\ Get /\ Head(toStub) # Plus
  /\ UNCHANGED <<toHost, faults, stubVars, guestVars, hostVars, historyVars>>

PutAgain ==
  /\ pc = "put" /\ Get /\ Head(toStub) # Plus
  /\ Put(Packet(remcomOutBuffer))
  /\ UNCHANGED <<faults, stubVars, guestVars, hostVars, historyVars>>

-----------------------------------------------------------------------------
\* An exception of the guest: its registers are saved and handle_exception reports it.
\* While mem_fault_routine is set, a fault is taken for one of the stub's own accesses.
Exception(fault) ==
  /\ pc = "run"
  /\ IF fault /\ mem_fault_routine
       THEN /\ swallowed' = TRUE
            /\ mem_fault_routine' = FALSE /\ mem_err' = TRUE
            /\ UNCHANGED <<toHost, pc, next, remcomOutBuffer, registers>>
       ELSE /\ registers' \in Values
            /\ putpacket(Answer("T", NoValue), "get")
            /\ UNCHANGED <<swallowed, mem_fault_routine, mem_err>>
  /\ UNCHANGED <<toStub, faults, remcomInBuffer, cmd, trace, memory, hostVars, times>>

\* BSP_uart_dbgisr_com1 and _com2: while the guest runs, the interrupt routine eats
\* what arrives; ^C sets the trace bit.
BreakIn ==
  /\ pc = "run" /\ Get
  /\ trace' = (trace \/ Head(toStub) = CtrlC)
  /\ UNCHANGED <<toHost, faults, stubVars, registers, memory, mem_fault_routine, mem_err,
                 hostVars, historyVars>>

-----------------------------------------------------------------------------
\* getpacket: bytes are ignored until "$",
GetStart ==
  /\ pc = "get" /\ Get
  /\ remcomInBuffer' = <<>>
  /\ pc' = IF Head(toStub) = Start THEN "body" ELSE "get"
  /\ UNCHANGED <<toHost, faults, remcomOutBuffer, next, cmd, guestVars, hostVars,
                 historyVars>>

\* stored until "#" or until the buffer is full (and then thrown away).  The NUL that
\* getpacket puts behind the bytes is not a byte of remcomInBuffer here: behind those
\* of a full buffer it is stored at buffer[BUFMAX], one past the end (i386-stub.c:498).
\* Mutant: the end of the buffer is not looked at.
GetByteUnbounded ==
  /\ pc = "body" /\ Get /\ Head(toStub).t # "end"
  /\ remcomInBuffer' = Append(remcomInBuffer, Head(toStub))
  /\ UNCHANGED <<toHost, faults, pc, remcomOutBuffer, next, cmd, guestVars, hostVars,
                 historyVars>>

GetByte ==
  /\ pc = "body" /\ Get /\ Head(toStub).t # "end"
  /\ remcomInBuffer' = Append(remcomInBuffer, Head(toStub))
  /\ pc' = IF Len(remcomInBuffer') = BUFMAX THEN "get" ELSE "body"
  /\ UNCHANGED <<toHost, faults, remcomOutBuffer, next, cmd, guestVars, hostVars,
                 historyVars>>

\* A packet that ends is refused if the checksum is wrong.
Intact == remcomInBuffer = <<Byte("data", Head(toStub).v)>>

GetRefused ==
  /\ pc = "body" /\ Get /\ Head(toStub).t = "end" /\ ~Intact
  /\ Put(<<Minus>>)
  /\ pc' = "get"
  /\ UNCHANGED <<faults, remcomInBuffer, remcomOutBuffer, next, cmd, guestVars, hostVars,
                 historyVars>>

Accepts(c) ==
  /\ pc = "body" /\ Get /\ Head(toStub).t = "end" /\ Intact
  /\ c = Head(toStub).v
  /\ cmd' = c
  /\ UNCHANGED <<faults, remcomInBuffer, hostVars, swallowed>>

Obeyed == times' = times + 1

\* Commands that are answered at once: "+" and the reply follow each other.
Effect(c) ==
  registers' = IF c.op = "P" THEN c.val ELSE registers

Reply(c) ==
  CASE c.op = "?" -> Answer("S", NoValue)
    [] c.op = "g" -> Answer("data", registers)
    [] c.op = "P" -> Answer("OK", NoValue)
    [] OTHER      -> Answer("", NoValue)

\* Mutant: the command is answered without being acknowledged.
ObeyAtOnceSilent ==
  \E c \in Commands :
    /\ c.op \in {"?", "g", "P", "k", "D"}
    /\ Accepts(c)
    /\ Effect(c)
    /\ remcomOutBuffer' = Reply(c)
    /\ pc' = "put" /\ next' = IF c.op = "D" THEN "run" ELSE "get"
    /\ trace' = (trace /\ c.op # "D")
    /\ Put(Packet(Reply(c)))
    /\ Obeyed
    /\ UNCHANGED <<memory, mem_fault_routine, mem_err>>

ObeyAtOnce ==
  \E c \in Commands :
    /\ c.op \in {"?", "g", "P", "k", "D"}
    /\ Accepts(c)
    /\ Effect(c)
    /\ remcomOutBuffer' = Reply(c)
    /\ pc' = "put" /\ next' = IF c.op = "D" THEN "run" ELSE "get"
    /\ trace' = (trace /\ c.op # "D")
    /\ Put(<<Plus>> \o Packet(Reply(c)))
    /\ Obeyed
    /\ UNCHANGED <<memory, mem_fault_routine, mem_err>>

\* Commands that let the guest run: there is no reply until it stops again.
ObeyResume ==
  \E c \in Commands :
    /\ c.op \in {"c", "s"}
    /\ Accepts(c)
    /\ trace' = (c.op = "s")
    /\ pc' = "run"
    /\ Put(<<Plus>>)
    /\ Obeyed
    /\ UNCHANGED <<remcomOutBuffer, next, registers, memory, mem_fault_routine, mem_err>>

\* Mutant: the error of the access before is not cleared.
ObeyMemoryStale ==
  \E c \in Commands :
    /\ c.op \in {"m", "M"}
    /\ Accepts(c)
    /\ pc' = "memory"
    /\ mem_fault_routine' = TRUE
    /\ Put(<<Plus>>)
    /\ UNCHANGED <<remcomOutBuffer, next, registers, trace, memory, mem_err, times>>

\* Commands on memory: the routine for faults is set before the access.
ObeyMemory ==
  \E c \in Commands :
    /\ c.op \in {"m", "M"}
    /\ Accepts(c)
    /\ pc' = "memory"
    /\ mem_err' = FALSE /\ mem_fault_routine' = TRUE
    /\ Put(<<Plus>>)
    /\ UNCHANGED <<remcomOutBuffer, next, registers, trace, memory, times>>

\* mem2hex and hex2mem: whether there has been an error is asked after the access; if
\* so they return at once and leave the routine as it is.
Access ==
  /\ pc = "memory" /\ cmd.addr \notin Bad
  /\ memory' = IF cmd.op = "M" THEN [memory EXCEPT ![cmd.addr] = cmd.val] ELSE memory
  /\ mem_fault_routine' = (mem_fault_routine /\ mem_err)
  /\ putpacket(CASE mem_err -> Answer("E03", NoValue)
                 [] ~mem_err /\ cmd.op = "M" -> Answer("OK", NoValue)
                 [] OTHER -> Answer("data", memory[cmd.addr]),
               "get")
  /\ Obeyed
  /\ UNCHANGED <<toStub, faults, remcomInBuffer, cmd, registers, trace, mem_err,
                 hostVars, swallowed>>

\* Mutant: mem_fault leaves the routine set.
MemFaultKeeps ==
  /\ pc = "memory" /\ cmd.addr \in Bad
  /\ mem_err' = TRUE
  /\ putpacket(Answer("E03", NoValue), "get")
  /\ Obeyed
  /\ UNCHANGED <<toStub, faults, remcomInBuffer, cmd, registers, trace, memory,
                 mem_fault_routine, hostVars, swallowed>>

\* A fault of theirs: _catchException11, 13 or 14 goes to mem_fault, which clears the
\* routine and returns into set_mem_err.
MemFault ==
  /\ pc = "memory" /\ cmd.addr \in Bad
  /\ mem_fault_routine' = FALSE /\ mem_err' = TRUE
  /\ putpacket(Answer("E03", NoValue), "get")
  /\ Obeyed
  /\ UNCHANGED <<toStub, faults, remcomInBuffer, cmd, registers, trace, memory, hostVars,
                 swallowed>>

GetPacket ==
  GetStart \/ GetByte \/ GetRefused \/ ObeyAtOnce \/ ObeyResume \/ ObeyMemory

Stub == PutAcknowledged \/ PutAgain \/ BreakIn \/ GetPacket \/ Access \/ MemFault

-----------------------------------------------------------------------------
\* gdb (external).  It sends a command until it is acknowledged, then waits for the
\* reply.  A packet that comes instead of an acknowledge is an old reply: it is
\* acknowledged and thrown away.
Send(bytes) ==
  /\ Len(toStub) + Len(bytes) <= MaxLine
  /\ toStub' = toStub \o bytes

HostAsk(c) ==
  /\ host = "idle" /\ Send(Packet(c))
  /\ asked' = c /\ answer' = NoValue /\ host' = "ack"
  /\ times' = 0
  /\ UNCHANGED <<toHost, faults, stubVars, guestVars, swallowed>>

\* What is at the head of the line: a packet as it was sent, or a byte.
WholePacket ==
  /\ Len(toHost) >= 3
  /\ toHost[1] = Start /\ toHost[2].t = "data" /\ toHost[3] = Byte("end", toHost[2].v)
BrokenPacket ==
  /\ toHost # <<>> /\ toHost[1] = Start /\ ~WholePacket
  /\ \E i \in 2 .. Len(toHost) : toHost[i].t = "end"

HostAcknowledged ==
  /\ host = "ack" /\ toHost # <<>> /\ Head(toHost) = Plus
  /\ toHost' = Tail(toHost)
  /\ host' = "reply"
  /\ UNCHANGED <<toStub, faults, stubVars, guestVars, asked, answer, historyVars>>

HostRefused ==
  /\ host = "ack" /\ toHost # <<>> /\ Head(toHost) = Minus
  /\ toHost' = Tail(toHost)
  /\ Send(Packet(asked))
  /\ UNCHANGED <<faults, stubVars, guestVars, hostVars, historyVars>>

HostPacket ==
  /\ host # "idle" /\ WholePacket
  /\ toHost' = SubSeq(toHost, 4, Len(toHost))
  /\ Send(<<Plus>>)
  /\ IF host = "reply"
       THEN host' = "idle" /\ answer' = toHost[2].v
       ELSE UNCHANGED <<host, answer>>
  /\ UNCHANGED <<faults, stubVars, guestVars, asked, historyVars>>

\* The packet is read to its end, which is at the latest where another one begins.
HostBroken ==
  /\ host # "idle" /\ BrokenPacket
  /\ \E i \in 2 .. Len(toHost) :
       /\ toHost[i].t = "end" /\ \A j \in 2 .. i - 1 : toHost[j].t # "end"
       /\ toHost' = SubSeq(toHost, i + 1, Len(toHost))
  /\ Send(<<IF host = "reply" THEN Minus ELSE Plus>>)
  /\ UNCHANGED <<faults, stubVars, guestVars, hostVars, historyVars>>

HostIgnores ==
  /\ host # "idle" /\ toHost # <<>> /\ Head(toHost) # Start
  /\ host = "ack" => Head(toHost) \notin {Plus, Minus}
  /\ toHost' = Tail(toHost)
  /\ UNCHANGED <<toStub, faults, stubVars, guestVars, hostVars, historyVars>>

\* Nothing has come for a long time: the command is sent again, or the reply asked
\* for again; what is left of a packet is thrown away.
Silent ==
  /\ toStub = <<>> /\ ~WholePacket /\ ~BrokenPacket
  /\ toHost # <<>> => Head(toHost) = Start
  /\ pc # "memory"

HostTimeout ==
  /\ Silent /\ toHost' = <<>>
  /\ \/ host = "ack" /\ Send(Packet(asked)) /\ UNCHANGED host
     \/ host = "reply" /\ Send(<<Minus>>) /\ UNCHANGED host
     \/ host = "reply" /\ pc # "run" /\ UNCHANGED toStub /\ host' = "idle"
  /\ UNCHANGED <<faults, stubVars, guestVars, asked, answer, historyVars>>

HostBreak ==
  /\ host = "reply" /\ Silent /\ Send(<<CtrlC>>)
  /\ UNCHANGED <<toHost, faults, stubVars, guestVars, hostVars, historyVars>>

\* A byte of the line is lost or damaged.
Spoil(line) ==
  {SubSeq(line, 1, i - 1) \o SubSeq(line, i + 1, Len(line)) : i \in DOMAIN line}
    \cup {[line EXCEPT ![i] = Junk] : i \in DOMAIN line}

Fault ==
  /\ faults < MaxFaults /\ faults' = faults + 1
  /\ \/ toStub' \in Spoil(toStub) /\ UNCHANGED toHost
     \/ toHost' \in Spoil(toHost) /\ UNCHANGED toStub
  /\ UNCHANGED <<stubVars, guestVars, hostVars, historyVars>>

Host ==
  \/ HostAcknowledged \/ HostRefused \/ HostPacket \/ HostBroken \/ HostIgnores
  \/ HostTimeout

-----------------------------------------------------------------------------
Next ==
  \/ Stub \/ Host \/ HostBreak \/ Fault
  \/ \E fault \in BOOLEAN : Exception(fault)
  \/ \E c \in Commands : HostAsk(c)

\* The stub polls the line, gdb reads it and repeats what is not acknowledged.
Fairness == WF_vars(Stub) /\ WF_vars(Host)

Spec == Init /\ [][Next]_vars
FairSpec == Spec /\ Fairness

-----------------------------------------------------------------------------
(* PROPERTIES *)

\* A command is obeyed once, and once more at most for every byte that was spoilt.
ObeyedOnce == times <= 1 + faults

\* What gdb believes when it has its answer is so: the values it was given are those
\* of the guest, what it was told is set is set, and an access is reported to have
\* failed exactly if it did.  No answer is one to another command.
Holds(c, a) ==
  CASE c.op = "?" -> a.r = "S"
    [] c.op = "g" -> a = Answer("data", registers)
    [] c.op = "P" -> a.r = "OK" /\ registers = c.val
    [] c.op \in {"m", "M"} /\ c.addr \in Bad -> a.r = "E03"
    [] c.op = "m" /\ c.addr \notin Bad -> a = Answer("data", memory[c.addr])
    [] c.op = "M" /\ c.addr \notin Bad -> a.r = "OK" /\ memory[c.addr] = c.val
    [] c.op = "k" -> a.r = ""
    [] c.op = "D" -> a.r \in {"", "T"}
    [] c.op \in {"c", "s"} -> a.r = "T"

AnswerHolds ==
  host = "idle" /\ asked # NoValue /\ answer # NoValue => Holds(asked, answer)

\* No exception of the guest is taken for an access of the stub: the routine for
\* faults is cleared whichever way an access ends.
ExceptionsReported == ~swallowed

\* Whatever was lost or damaged before, a command that gdb goes on sending is
\* acknowledged in the end, unless the guest has been let run again.
CommandArrives == host = "ack" ~> host # "ack" \/ pc = "run"
=============================================================================
