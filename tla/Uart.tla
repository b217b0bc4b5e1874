-------------------------------- MODULE Uart --------------------------------
(***************************************************************************)
(* The serial ports (uart.c) under their termios device driver             *)
(* (tty_drv.c).  One port is modelled; the code for the other is a copy    *)
(* with other names and addresses, and port says which copy runs.          *)
(*                                                                         *)
(* The interrupt routine reads the interrupt identification again and      *)
(* again until it says that nothing is left, while characters arrive and   *)
(* leave; it excludes every thread.  Threads write with interrupts closed  *)
(* (rtems_termios_puts) but open the port and set its attributes with      *)
(* interrupts open, so that the routine runs between their steps.          *)
(*                                                                         *)
(* TERMIOS_TASK_DRIVEN is left out: tty_drv.c is built without it.         *)
(***************************************************************************)
EXTENDS Integers, Sequences, FiniteSets

CONSTANTS
  Char,      \* characters written
  NoChar,    \* an empty register
  OutSize,   \* characters termios keeps for output
  Depth,     \* characters the receiver keeps
  BufSize,   \* characters the interrupt routine keeps: sizeof(buf)
  Lines,     \* the ports in use, with or without hardware flow control
  Settings,  \* termios settings of the line: baud rate, CSIZE and flags
  MaxIn,     \* bound: characters that arrive
  MaxOpens,  \* bound: opens of the device
  Quiet,     \* attributes are set when nothing is under way only
  FastLine   \* more characters than BufSize may arrive in one interrupt

ASSUME CharAssumption == NoChar \notin Char
ASSUME LinesAssumption == Lines \subseteq [port : {"com1", "com2"}, hwFlow : BOOLEAN]
ASSUME SettingsAssumption ==
  Settings \subseteq [baud : Nat, CSIZE : 5 .. 8, PARENB : BOOLEAN, PARODD : BOOLEAN,
                      CSTOPB : BOOLEAN]
ASSUME SizeAssumption ==
  /\ OutSize \in Nat \ {0} /\ Depth \in Nat \ {0} /\ BufSize \in Nat \ {0}
  /\ MaxIn \in Nat /\ MaxOpens \in Nat

RECEIVE_ENABLE == "RECEIVE_ENABLE"
TRANSMIT_ENABLE == "TRANSMIT_ENABLE"
RECEIVER_LINE_ST_ENABLE == "RECEIVER_LINE_ST_ENABLE"
MODEM_ENABLE == "MODEM_ENABLE"
Enables ==
  {RECEIVE_ENABLE, TRANSMIT_ENABLE, RECEIVER_LINE_ST_ENABLE, MODEM_ENABLE}

Vects == {"MODEM_STATUS", "NO_MORE_INTR", "TRANSMITTER_HODING_REGISTER_EMPTY",
          "RECEIVER_DATA_AVAIL", "RECEIVER_ERROR"}

\* conSetAttr: what termios settings mean for the line.
conSetAttr(t) ==
  [baud     |-> t.baud,
   databits |-> t.CSIZE,
   parity   |-> IF ~t.PARENB THEN "none" ELSE IF t.PARODD THEN "odd" ELSE "even",
   stopbits |-> IF t.CSTOPB THEN 2 ELSE 1]

\* 9600-8-N-1
DefaultMode == [baud |-> 9600, databits |-> 8, parity |-> "none", stopbits |-> 1]
Modes == {conSetAttr(t) : t \in Settings} \cup {DefaultMode}

VARIABLES
  port,       \* the port, and with it the copy of the code
  uart_data,  \* ier, hwFlow and line set-up as the driver remembers them
  IER,        \* the interrupt enable register
  DLAB,       \* the data and interrupt registers are the divisor
  thr,        \* the transmitter holding register
  thri,       \* it has become empty: the transmitter's interrupt is due
  rx,         \* the receiver's characters, numbered as they arrived
  flagged,    \* those whose error the line status register is to report
  OE,         \* it reports an overrun
  CTS,        \* the peer takes characters
  DCTS,       \* CTS has changed since the modem status was read
  stopped, tx_active, hold,   \* termios_stopped, _tx_active, _tx_hold
  raw,        \* termios: characters written, the first one being sent
  isr,        \* where the interrupt routine is
  buf,        \* the characters it has read
  attr,       \* where BSP_uart_set_attributes is, what it has saved
  opener,     \* a thread between the two calls of tty_open
  opens,      \* opens of the device, as termios counts them
  opened,     \* all opens so far
  handler,    \* the interrupt routine is installed
  failed,     \* an assertion has failed
  taken,      \* history: the character that left the port last
  delivered,  \* history: the characters passed to termios
  arrived,    \* history: the characters that arrived
  damaged,    \* history: those that arrived with an error
  overruns    \* history: those that found the receiver full

lineVars == <<IER, DLAB, thr, thri, rx, flagged, OE, CTS, DCTS>>
txVars == <<stopped, tx_active, hold, raw>>
openVars == <<opener, opens, opened, handler>>
historyVars == <<taken, delivered, arrived, damaged, overruns>>
vars == <<port, uart_data, lineVars, txVars, isr, buf, attr, openVars, failed,
          historyVars>>

TypeOK ==
  /\ port \in {"com1", "com2"}
  /\ uart_data \in [ier : SUBSET Enables, hwFlow : BOOLEAN, mode : Modes]
  /\ IER \in SUBSET Enables
  /\ {DLAB, thri, OE, CTS, DCTS, stopped, tx_active, handler, failed} \subseteq BOOLEAN
  /\ {thr, hold, taken} \subseteq Char \cup {NoChar}
  /\ raw \in Seq(Char) /\ Len(raw) <= OutSize
  /\ rx \in Seq(1 .. arrived) /\ Len(rx) <= Depth
  /\ buf \in Seq(0 .. arrived) /\ Len(buf) <= BufSize
  /\ isr \in Vects \cup {"out", "identify"}
  /\ attr.at \in {"idle", "dlab", "lcr", "fcr", "ier", "clear", "restore"}
  /\ opener \in BOOLEAN
  /\ opens \in 0 .. MaxOpens /\ opened \in 0 .. MaxOpens
  /\ delivered \in Seq(0 .. arrived)
  /\ arrived \in 0 .. MaxIn
  /\ flagged \subseteq damaged \cap {rx[i] : i \in DOMAIN rx}
  /\ damaged \subseteq 1 .. arrived
  /\ overruns \in 0 .. arrived

-----------------------------------------------------------------------------
\* What the registers do.

\* IIR: the enabled cause of highest priority.
Cause ==
  IF RECEIVER_LINE_ST_ENABLE \in IER /\ (OE \/ (rx # <<>> /\ Head(rx) \in flagged))
    THEN "RECEIVER_ERROR"
  ELSE IF RECEIVE_ENABLE \in IER /\ rx # <<>> THEN "RECEIVER_DATA_AVAIL"
  ELSE IF TRANSMIT_ENABLE \in IER /\ thri THEN "TRANSMITTER_HODING_REGISTER_EMPTY"
  ELSE IF MODEM_ENABLE \in IER /\ DCTS THEN "MODEM_STATUS"
  ELSE "NO_MORE_INTR"

\* Reading LSR takes the errors it reports back.
ReadLSR ==
  /\ OE' = FALSE
  /\ flagged' = flagged \ (IF rx = <<>> THEN {} ELSE {Head(rx)})

\* Writing IER (under DLAB, the divisor's high byte).  The transmitter's interrupt
\* is due as soon as it is enabled and the holding register is empty.
WriteIER(e) ==
  /\ IER' = IF DLAB THEN IER ELSE e
  /\ thri' = (thri \/ (~DLAB /\ thr = NoChar /\ TRANSMIT_ENABLE \in e \ IER))

\* Writing THR (under DLAB, the divisor's low byte).
WriteTHR(c) ==
  /\ thr' = IF DLAB THEN thr ELSE c
  /\ thri' = (DLAB /\ thri)

-----------------------------------------------------------------------------
\* After tty1_initialize or tty2_initialize: BSP_uart_init has run, the handler is
\* installed.
Init ==
  /\ \E l \in Lines :
       /\ port = l.port
       /\ uart_data = [ier |-> {}, hwFlow |-> l.hwFlow, mode |-> DefaultMode]
  /\ IER = {} /\ DLAB = FALSE
  /\ thr = NoChar /\ thri = FALSE
  /\ rx = <<>> /\ flagged = {} /\ OE = FALSE
  /\ CTS \in BOOLEAN /\ DCTS = FALSE
  /\ stopped = FALSE /\ tx_active = FALSE /\ hold = NoChar /\ raw = <<>>
  /\ isr = "out" /\ buf = <<>>
  /\ attr = [at |-> "idle"]
  /\ opener = FALSE /\ opens = 0 /\ opened = 0 /\ handler = TRUE
  /\ failed = FALSE
  /\ taken = NoChar /\ delivered = <<>>
  /\ arrived = 0 /\ damaged = {} /\ overruns = 0

\* Threads run when the interrupt routine does not.
Thread == isr = "out" /\ ~failed

-----------------------------------------------------------------------------
\* Mutant of termios_write: the interrupt is enabled by the first write only.
termios_write_quiet(c, stop, held) ==
  /\ failed' = (thr # NoChar)
  /\ ReadLSR
  /\ IF stop
       THEN hold' = c /\ UNCHANGED <<uart_data, IER, thr, thri, tx_active>>
       ELSE /\ hold' = held
            /\ WriteTHR(c)
            /\ UNCHANGED <<uart_data, IER, tx_active>>

\* The device's write, for a held character held.  That nothing
\* is in the transmitter is asserted, which reads LSR.
termios_write(c, stop, held) ==
  /\ failed' = (thr # NoChar)
  /\ ReadLSR
  /\ IF stop
       THEN hold' = c /\ UNCHANGED <<uart_data, IER, thr, thri, tx_active>>
       ELSE /\ hold' = held
            /\ WriteTHR(c)
            /\ tx_active' = TRUE
            /\ IF tx_active
                 THEN UNCHANGED <<uart_data, IER>>
                 ELSE /\ uart_data' = [uart_data EXCEPT !.ier = @ \cup {TRANSMIT_ENABLE}]
                      /\ IER' = IF DLAB THEN IER ELSE uart_data'.ier

BSP_uart_termios_write_com1(c, stop, held) == port = "com1" /\ termios_write(c, stop, held)
BSP_uart_termios_write_com2(c, stop, held) == port = "com2" /\ termios_write(c, stop, held)
device_write(c, stop, held) ==
  \/ BSP_uart_termios_write_com1(c, stop, held)
  \/ BSP_uart_termios_write_com2(c, stop, held)

\* rtems_termios_puts for one character, with interrupts closed.  The output
\* semaphore keeps it out while attributes are set.
Puts(c) ==
  /\ Thread /\ attr.at = "idle"
  /\ opens > (IF opener THEN 1 ELSE 0)
  /\ Len(raw) < OutSize
  /\ raw' = Append(raw, c)
  /\ IF raw = <<>>
       THEN device_write(c, stopped, hold)
       ELSE UNCHANGED <<uart_data, IER, thr, thri, flagged, OE, tx_active, hold, failed>>
  /\ UNCHANGED <<port, DLAB, rx, CTS, DCTS, stopped, isr, buf, attr, openVars,
                 historyVars>>

-----------------------------------------------------------------------------
\* BSP_uart_termios_isr_com1 and _com2.

IsrEnter ==
  /\ Thread /\ handler
  /\ Cause # "NO_MORE_INTR"
  /\ isr' = "identify" /\ buf' = <<>>
  /\ UNCHANGED <<port, uart_data, lineVars, txVars, attr, openVars, failed, historyVars>>

\* Reading IIR takes the transmitter's interrupt back if it is the one reported.
IsrIdentify ==
  /\ isr = "identify" /\ ~failed
  /\ isr' = Cause
  /\ thri' = (thri /\ Cause # "TRANSMITTER_HODING_REGISTER_EMPTY")
  /\ UNCHANGED <<port, uart_data, IER, DLAB, thr, rx, flagged, OE, CTS, DCTS,
                 txVars, buf, attr, openVars, failed, historyVars>>

\* Mutant of IsrModemStatus: the held character stays valid.
IsrModemStatusKeeps ==
  /\ isr = "MODEM_STATUS" /\ ~failed
  /\ DCTS' = FALSE
  /\ stopped' = IF uart_data.hwFlow THEN ~CTS ELSE stopped
  /\ IF uart_data.hwFlow /\ CTS /\ hold # NoChar
       THEN device_write(hold, FALSE, hold)
       ELSE UNCHANGED <<uart_data, IER, thr, thri, flagged, OE, tx_active, hold, failed>>
  /\ isr' = "identify"
  /\ UNCHANGED <<port, DLAB, rx, CTS, raw, buf, attr, openVars, historyVars>>

IsrModemStatus ==
  /\ isr = "MODEM_STATUS" /\ ~failed
  /\ DCTS' = FALSE
  /\ stopped' = IF uart_data.hwFlow THEN ~CTS ELSE stopped
  /\ IF uart_data.hwFlow /\ CTS /\ hold # NoChar
       THEN device_write(hold, FALSE, NoChar)
       ELSE UNCHANGED <<uart_data, IER, thr, thri, flagged, OE, tx_active, hold, failed>>
  /\ isr' = "identify"
  /\ UNCHANGED <<port, DLAB, rx, CTS, raw, buf, attr, openVars, historyVars>>

\* Mutant of IsrTransmit: the next character is written before the one sent is
\* dropped, that is, the same one again.
IsrTransmitRepeats ==
  /\ isr = "TRANSMITTER_HODING_REGISTER_EMPTY" /\ ~failed
  /\ raw' = IF raw = <<>> THEN raw ELSE Tail(raw)
  /\ IF Len(raw) > 1
       THEN device_write(raw[1], stopped, hold)
       ELSE /\ tx_active' = FALSE
            /\ uart_data' = [uart_data EXCEPT !.ier = @ \ {TRANSMIT_ENABLE}]
            /\ WriteIER(uart_data'.ier)
            /\ UNCHANGED <<thr, flagged, OE, hold, failed>>
  /\ isr' = "identify"
  /\ UNCHANGED <<port, DLAB, rx, CTS, DCTS, stopped, buf, attr, openVars,
                 historyVars>>

\* rtems_termios_dequeue_characters drops the character that was sent and writes
\* the next; without one the interrupt is disabled.
IsrTransmit ==
  /\ isr = "TRANSMITTER_HODING_REGISTER_EMPTY" /\ ~failed
  /\ raw' = IF raw = <<>> THEN raw ELSE Tail(raw)
  /\ IF Len(raw) > 1
       THEN device_write(raw[2], stopped, hold)
       ELSE /\ tx_active' = FALSE
            /\ uart_data' = [uart_data EXCEPT !.ier = @ \ {TRANSMIT_ENABLE}]
            /\ WriteIER(uart_data'.ier)
            /\ UNCHANGED <<thr, flagged, OE, hold, failed>>
  /\ isr' = "identify"
  /\ UNCHANGED <<port, DLAB, rx, CTS, DCTS, stopped, buf, attr, openVars,
                 historyVars>>

\* The receive buffer register (under DLAB, the divisor's low byte).
RBR == IF DLAB THEN 0 ELSE Head(rx)
rxAfterRBR == IF DLAB \/ rx = <<>> THEN rx ELSE Tail(rx)

IsrReceive ==
  /\ isr = "RECEIVER_DATA_AVAIL" /\ ~failed
  /\ failed' = (Len(buf) >= BufSize)
  /\ buf' = IF failed' THEN buf ELSE Append(buf, RBR)
  /\ rx' = rxAfterRBR
  /\ flagged' = flagged \ {RBR}
  /\ isr' = "identify"
  /\ UNCHANGED <<port, uart_data, IER, DLAB, thr, thri, OE, CTS, DCTS, txVars,
                 attr, openVars, historyVars>>

\* Mutant of uartError: every character received is dropped.
uartErrorFlush ==
  /\ isr = "RECEIVER_ERROR" /\ ~failed
  /\ OE' = FALSE /\ flagged' = {}
  /\ rx' = IF DLAB THEN rx ELSE <<>>
  /\ isr' = "identify"
  /\ UNCHANGED <<port, uart_data, IER, DLAB, thr, thri, CTS, DCTS, txVars, buf,
                 attr, openVars, failed, historyVars>>

\* Mutant of uartError: the status is not read.
uartErrorBlind ==
  /\ isr = "RECEIVER_ERROR" /\ ~failed
  /\ rx' = rxAfterRBR
  /\ isr' = "identify"
  /\ UNCHANGED <<port, uart_data, IER, DLAB, thr, thri, flagged, OE, CTS, DCTS, txVars,
                 buf, attr, openVars, failed, historyVars>>

\* uartError: the character at the head is dropped, whichever it is.
uartError ==
  /\ isr = "RECEIVER_ERROR" /\ ~failed
  /\ ReadLSR
  /\ rx' = rxAfterRBR
  /\ isr' = "identify"
  /\ UNCHANGED <<port, uart_data, IER, DLAB, thr, thri, CTS, DCTS, txVars, buf,
                 attr, openVars, failed, historyVars>>

IsrReturn ==
  /\ isr = "NO_MORE_INTR" /\ ~failed
  /\ delivered' = delivered \o buf
  /\ buf' = <<>>
  /\ isr' = "out"
  /\ UNCHANGED <<port, uart_data, lineVars, txVars, attr, openVars, failed,
                 taken, arrived, damaged, overruns>>

Isr ==
  \/ IsrEnter \/ IsrIdentify \/ IsrModemStatus \/ IsrTransmit
  \/ IsrReceive \/ uartError \/ IsrReturn

BSP_uart_termios_isr_com1 == port = "com1" /\ Isr
BSP_uart_termios_isr_com2 == port = "com2" /\ Isr

-----------------------------------------------------------------------------
\* BSP_uart_set_attributes, called by conSetAttr, for attributes that differ: save
\* IER, initialise the port, restore IER.

\* At a quiet line nothing is left to send, to take or to report.
LineQuiet == raw = <<>> /\ rx = <<>> /\ ~OE /\ ~DCTS /\ ~opener

SetAttributes(t) ==
  LET m == conSetAttr(t) IN
  /\ Thread /\ attr.at = "idle" /\ opens > 0
  /\ Quiet => LineQuiet
  /\ m # uart_data.mode
  /\ attr' = [at |-> "dlab", mode |-> m, ier |-> IER]
  /\ UNCHANGED <<port, uart_data, lineVars, txVars, isr, buf, openVars, failed,
                 historyVars>>

AttrStep(here, next) ==
  /\ Thread /\ attr.at = here
  /\ attr' = [attr EXCEPT !.at = next]
  /\ UNCHANGED <<port, CTS, txVars, isr, buf, openVars, failed, historyVars>>

\* BSP_uart_init: LCR gives access to the divisor,
InitDivisor ==
  /\ AttrStep("dlab", "lcr")
  /\ DLAB' = TRUE
  /\ UNCHANGED <<uart_data, IER, thr, thri, rx, flagged, OE, DCTS>>

\* LCR and MCR are set (MCR keeps its value: nothing calls the functions that
\* throttle the peer with it),
InitLine ==
  /\ AttrStep("lcr", "fcr")
  /\ DLAB' = FALSE
  /\ UNCHANGED <<uart_data, IER, thr, thri, rx, flagged, OE, DCTS>>

\* FCR empties both directions,
InitFifos ==
  /\ AttrStep("fcr", "ier")
  /\ rx' = <<>> /\ flagged' = {}
  /\ thr' = NoChar
  /\ thri' = (thri \/ thr # NoChar)
  /\ UNCHANGED <<uart_data, IER, DLAB, OE, DCTS>>

\* interrupts are disabled,
InitDisable ==
  /\ AttrStep("ier", "clear")
  /\ WriteIER({})
  /\ UNCHANGED <<uart_data, DLAB, thr, rx, flagged, OE, DCTS>>

\* LSR, RBR and MSR are read, and the attributes remembered.
InitClear ==
  /\ AttrStep("clear", "restore")
  /\ ReadLSR
  /\ rx' = rxAfterRBR
  /\ DCTS' = FALSE
  /\ uart_data' = [uart_data EXCEPT !.mode = attr.mode]
  /\ UNCHANGED <<IER, DLAB, thr, thri>>

\* Mutant of RestoreIER: the interrupts stay disabled.
RestoreIERForgotten ==
  /\ AttrStep("restore", "idle")
  /\ UNCHANGED <<uart_data, IER, thri, DLAB, thr, rx, flagged, OE, DCTS>>

RestoreIER ==
  /\ AttrStep("restore", "idle")
  /\ WriteIER(attr.ier)
  /\ UNCHANGED <<uart_data, DLAB, thr, rx, flagged, OE, DCTS>>

BSP_uart_init ==
  InitDivisor \/ InitLine \/ InitFifos \/ InitDisable \/ InitClear

BSP_uart_set_attributes == BSP_uart_init \/ RestoreIER

-----------------------------------------------------------------------------
\* Opening the device: rtems_termios_open, then BSP_uart_termios_set
BSP_uart_termios_set ==
  /\ Thread /\ ~opener /\ opened < MaxOpens
  /\ Quiet => attr.at = "idle"
  /\ opener' = TRUE /\ opens' = opens + 1 /\ opened' = opened + 1
  /\ stopped' = (uart_data.hwFlow /\ ~CTS)
  /\ DCTS' = (DCTS /\ ~uart_data.hwFlow)
  /\ tx_active' = FALSE /\ hold' = NoChar
  /\ UNCHANGED <<port, uart_data, IER, DLAB, thr, thri, rx, flagged, OE, CTS, raw,
                 isr, buf, attr, handler, failed, historyVars>>

\* and BSP_uart_intr_ctrl(BSP_UART_INTR_CTRL_TERMIOS).
BSP_uart_intr_ctrl ==
  /\ Thread /\ opener
  /\ opener' = FALSE
  /\ uart_data' = [uart_data EXCEPT !.ier =
       {RECEIVE_ENABLE, RECEIVER_LINE_ST_ENABLE}
         \cup IF uart_data.hwFlow THEN {MODEM_ENABLE} ELSE {}]
  /\ WriteIER(uart_data'.ier)
  /\ UNCHANGED <<port, DLAB, thr, rx, flagged, OE, CTS, DCTS, txVars, isr, buf,
                 attr, opens, opened, handler, failed, historyVars>>

tty1_open == port = "com1" /\ (BSP_uart_termios_set \/ BSP_uart_intr_ctrl)
tty2_open == port = "com2" /\ (BSP_uart_termios_set \/ BSP_uart_intr_ctrl)

\* tty_close: termios drains the output before the last close, and tty1_last_close
\* removes the interrupt handler.
tty_close ==
  /\ Thread /\ attr.at = "idle"
  /\ opens > (IF opener THEN 1 ELSE 0)
  /\ opens = 1 => raw = <<>>
  /\ opens' = opens - 1
  /\ handler' = (handler /\ opens # 1)
  /\ UNCHANGED <<port, uart_data, lineVars, txVars, isr, buf, attr, opener, opened,
                 failed, historyVars>>

-----------------------------------------------------------------------------
\* The hardware and the peer (external).

\* A character has left the holding register.
Transmit ==
  /\ thr # NoChar /\ ~failed
  /\ taken' = thr
  /\ thr' = NoChar
  /\ thri' = TRUE
  /\ UNCHANGED <<port, uart_data, IER, DLAB, rx, flagged, OE, CTS, DCTS, txVars, isr,
                 buf, attr, openVars, failed, delivered, arrived, damaged, overruns>>

Receive(bad) ==
  /\ arrived < MaxIn /\ ~failed
  /\ Quiet => attr.at = "idle"
  /\ FastLine \/ isr = "out" \/ Len(buf) + Len(rx) < BufSize
  /\ arrived' = arrived + 1
  /\ IF Len(rx) = Depth
       THEN OE' = TRUE /\ overruns' = overruns + 1 /\ UNCHANGED <<rx, flagged, damaged>>
       ELSE /\ rx' = Append(rx, arrived')
            /\ flagged' = flagged \cup (IF bad THEN {arrived'} ELSE {})
            /\ damaged' = damaged \cup (IF bad THEN {arrived'} ELSE {})
            /\ UNCHANGED <<OE, overruns>>
  /\ UNCHANGED <<port, uart_data, IER, DLAB, thr, thri, CTS, DCTS, txVars, isr, buf,
                 attr, openVars, failed, taken, delivered>>

ChangeCTS ==
  /\ uart_data.hwFlow /\ ~failed
  /\ Quiet => attr.at = "idle"
  /\ CTS' = ~CTS
  /\ DCTS' = TRUE
  /\ UNCHANGED <<port, uart_data, IER, DLAB, thr, thri, rx, flagged, OE, txVars, isr,
                 buf, attr, openVars, failed, historyVars>>

Hardware == Transmit \/ ChangeCTS \/ \E bad \in BOOLEAN : Receive(bad)

-----------------------------------------------------------------------------
Next ==
  \/ BSP_uart_termios_isr_com1 \/ BSP_uart_termios_isr_com2
  \/ BSP_uart_set_attributes
  \/ tty1_open \/ tty2_open \/ tty_close
  \/ Hardware
  \/ \E c \in Char : Puts(c)
  \/ \E t \in Settings : SetAttributes(t)

Fairness ==
  /\ WF_vars(Isr)
  /\ WF_vars(BSP_uart_set_attributes)
  /\ WF_vars(BSP_uart_intr_ctrl)
  /\ WF_vars(Transmit)

Spec == Init /\ [][Next]_vars
FairSpec == Spec /\ Fairness

-----------------------------------------------------------------------------
(* PROPERTIES *)

\* The driver never runs into one of its own assertions: the transmitter is empty
\* whenever it is written to, and one interrupt brings no more characters than buf
\* holds (uart.c:585, 722).
AssertionsHold == ~failed

\* Every character that arrived is delivered in its place, or waits in the interrupt
\* routine or the receiver, or was lost with an error: one with each damaged
\* character, two with each overrun (the one that found no room and the one that
\* uartError drops).
Ordered(s) == \A i, j \in DOMAIN s : i < j => s[i] < s[j]
InputAccounted ==
  LET got == delivered \o buf \o rx
  IN /\ Ordered(got)
     /\ arrived - Len(got) <= Cardinality(damaged) + 2 * overruns

\* A character received with an error is not handed to termios ("RX error: eat
\* character", uart.c:726).
DamagedEaten ==
  \A i \in DOMAIN delivered : delivered[i] \notin damaged

\* The transmitter's interrupt is off only if there is nothing more to send
\* (uart.c:696-701), or the peer has stopped the output.
TransmitKept ==
  raw # <<>> /\ hold = NoChar /\ ~DLAB /\ isr = "out" /\ attr.at = "idle" /\ ~opener
    => TRANSMIT_ENABLE \in IER /\ (thr # NoChar \/ thri)

\* What is written leaves the port once and in order: the queue of characters not yet
\* transmitted implements CharQueue.
Unsent ==
  IF raw # <<>> /\ thr = NoChar /\ hold = NoChar THEN Tail(raw) ELSE raw
Output == INSTANCE CharQueue WITH
  queue <- Unsent, overrun <- FALSE, Capacity <- OutSize
OutputSpec == Output!Spec

\* As long as the peer takes characters, output goes on until nothing is left: no
\* interrupt, held character or flag is lost on the way.
OutputDrains ==
  (uart_data.hwFlow => <>[]CTS) => []<>(raw = <<>>) \/ []<><<Transmit>>_vars
=============================================================================
