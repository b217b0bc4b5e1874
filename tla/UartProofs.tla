----------------------------- MODULE UartProofs -----------------------------
(***************************************************************************)
(* Proofs about Uart: the types, and that at a line whose attributes are   *)
(* set when it is quiet the driver's assertions hold.                      *)
(***************************************************************************)
EXTENDS Uart, TLAPS

-----------------------------------------------------------------------------
\* What the types rest on: the shape of what BSP_uart_set_attributes has saved, that
\* an open device was opened, and that a reported character is there.
AttrShape ==
  \/ attr = [at |-> "idle"]
  \/ attr \in [at : {"idle", "dlab", "lcr", "fcr", "ier", "clear", "restore"},
               mode : Modes, ier : SUBSET Enables]

CharacterThere == isr = "RECEIVER_DATA_AVAIL" => rx # <<>>

TypeInv == TypeOK /\ AttrShape /\ opens <= opened /\ CharacterThere

\* Both copies of the device's write do the same.
LEMMA OneWrite ==
  ASSUME NEW c, NEW stop, NEW held, device_write(c, stop, held)
  PROVE  termios_write(c, stop, held)
  BY DEF device_write, BSP_uart_termios_write_com1, BSP_uart_termios_write_com2

\* A sequence over a set is one over a larger set.
LEMMA SeqGrows ==
  ASSUME NEW S, NEW T, S \subseteq T, NEW s \in Seq(S)
  PROVE  s \in Seq(T)
  OBVIOUS

\* What is left of the receiver's characters after the first one was read.
LEMMA AfterRBR ==
  ASSUME TypeOK
  PROVE  /\ rxAfterRBR \in Seq(1 .. arrived)
         /\ Len(rxAfterRBR) <= Depth
         /\ {rx[i] : i \in DOMAIN rx} \ {Head(rx)} \subseteq {rxAfterRBR[i] : i \in DOMAIN rxAfterRBR}
<1>1. CASE DLAB \/ rx = <<>>
  BY <1>1, SizeAssumption DEF TypeOK, rxAfterRBR
<1>2. CASE ~DLAB /\ rx # <<>>
  <2>1. rxAfterRBR = Tail(rx) /\ rx \in Seq(1 .. arrived) /\ rx # <<>>
    BY <1>2 DEF rxAfterRBR, TypeOK
  <2>2. rxAfterRBR \in Seq(1 .. arrived) /\ Len(rxAfterRBR) = Len(rx) - 1
    BY <2>1
  <2>3. ASSUME NEW i \in DOMAIN rx, rx[i] # Head(rx)
        PROVE  \E j \in DOMAIN rxAfterRBR : rxAfterRBR[j] = rx[i]
    <3>1. i # 1 /\ i \in 1 .. Len(rx)
      BY <2>1, <2>3
    <3>2. i - 1 \in DOMAIN rxAfterRBR /\ rxAfterRBR[i - 1] = rx[i]
      BY <2>1, <2>2, <3>1
    <3> QED
      BY <3>2
  <2> QED
    BY <2>2, <2>3, SizeAssumption DEF TypeOK
<1> QED
  BY <1>1, <1>2

\* Writing IER and the data register keeps the registers' types.
LEMMA WriteIERTyped ==
  ASSUME TypeOK, NEW e \in SUBSET Enables, WriteIER(e)
  PROVE  IER' \in SUBSET Enables /\ thri' \in BOOLEAN
  BY DEF TypeOK, WriteIER

LEMMA DeviceWriteTyped ==
  ASSUME TypeOK, NEW c \in Char, NEW stop \in BOOLEAN, NEW held \in Char \cup {NoChar},
         device_write(c, stop, held)
  PROVE  /\ uart_data' \in [ier : SUBSET Enables, hwFlow : BOOLEAN, mode : Modes]
         /\ IER' \in SUBSET Enables
         /\ {thr', hold'} \subseteq Char \cup {NoChar}
         /\ {thri', OE', tx_active', failed'} \subseteq BOOLEAN
         /\ flagged' \subseteq flagged
<1>1. termios_write(c, stop, held)
  BY OneWrite
<1>2. OE' = FALSE /\ flagged' \subseteq flagged /\ failed' \in BOOLEAN
  BY <1>1 DEF termios_write, ReadLSR
<1>3. hold' \in Char \cup {NoChar}
  BY <1>1 DEF termios_write
<1>4. thr' \in Char \cup {NoChar} /\ {thri', tx_active'} \subseteq BOOLEAN
  BY <1>1 DEF termios_write, WriteTHR, TypeOK
<1>5. /\ uart_data' \in [ier : SUBSET Enables, hwFlow : BOOLEAN, mode : Modes]
      /\ IER' \in SUBSET Enables
  <2>1. TRANSMIT_ENABLE \in Enables
    BY DEF Enables
  <2>2. CASE UNCHANGED <<uart_data, IER>>
    BY <2>2 DEF TypeOK
  <2>3. CASE /\ uart_data' = [uart_data EXCEPT !.ier = @ \cup {TRANSMIT_ENABLE}]
             /\ IER' = IF DLAB THEN IER ELSE uart_data'.ier
    BY <2>1, <2>3 DEF TypeOK
  <2> QED
    BY <1>1, <2>2, <2>3 DEF termios_write
<1> QED
  BY <1>2, <1>3, <1>4, <1>5

LEMMA PutsTyped ==
  ASSUME TypeInv, NEW c \in Char, Puts(c)
  PROVE  TypeInv'
<1>1. /\ uart_data' \in [ier : SUBSET Enables, hwFlow : BOOLEAN, mode : Modes]
      /\ IER' \in SUBSET Enables
      /\ {thr', hold'} \subseteq Char \cup {NoChar}
      /\ {thri', OE', tx_active', failed'} \subseteq BOOLEAN
      /\ flagged' \subseteq flagged
  <2>1. CASE raw = <<>>
    BY <2>1, DeviceWriteTyped DEF TypeInv, TypeOK, Puts
  <2>2. CASE raw # <<>>
    BY <2>2 DEF TypeInv, TypeOK, Puts
  <2> QED
    BY <2>1, <2>2
<1>2. raw' \in Seq(Char) /\ Len(raw') <= OutSize
  BY SizeAssumption DEF TypeInv, TypeOK, Puts
<1> QED
  BY <1>1, <1>2, SMTT(30) DEF TypeInv, TypeOK, AttrShape, CharacterThere, Puts, openVars, historyVars

LEMMA EnterTyped ==
  ASSUME TypeInv, IsrEnter \/ IsrReturn
  PROVE  TypeInv'
<1>1. CASE IsrEnter
  BY <1>1, SizeAssumption DEF TypeInv, TypeOK, AttrShape, CharacterThere, IsrEnter, openVars, lineVars,
     txVars, historyVars
<1>2. CASE IsrReturn
  <2>1. delivered' \in Seq(0 .. arrived)
    BY <1>2 DEF IsrReturn, TypeInv, TypeOK
  <2> QED
    BY <1>2, <2>1, SizeAssumption DEF TypeInv, TypeOK, AttrShape, CharacterThere, IsrReturn, openVars, lineVars,
     txVars
<1> QED
  BY <1>1, <1>2

LEMMA IdentifyTyped ==
  ASSUME TypeInv, IsrIdentify
  PROVE  TypeInv'
<1>1. Cause \in Vects /\ (Cause = "RECEIVER_DATA_AVAIL" => rx # <<>>)
  BY DEF Cause, Vects
<1> QED
  BY <1>1 DEF TypeInv, TypeOK, AttrShape, CharacterThere, IsrIdentify, openVars, txVars, historyVars

LEMMA ModemTyped ==
  ASSUME TypeInv, IsrModemStatus
  PROVE  TypeInv'
<1>1. /\ uart_data' \in [ier : SUBSET Enables, hwFlow : BOOLEAN, mode : Modes]
      /\ IER' \in SUBSET Enables
      /\ {thr', hold'} \subseteq Char \cup {NoChar}
      /\ {thri', OE', tx_active', failed'} \subseteq BOOLEAN
      /\ flagged' \subseteq flagged
  <2>1. CASE uart_data.hwFlow /\ CTS /\ hold # NoChar
    BY <2>1, DeviceWriteTyped DEF TypeInv, TypeOK, IsrModemStatus
  <2>2. CASE ~(uart_data.hwFlow /\ CTS /\ hold # NoChar)
    BY <2>2 DEF TypeInv, TypeOK, IsrModemStatus
  <2> QED
    BY <2>1, <2>2
<1>2. stopped' \in BOOLEAN /\ DCTS' \in BOOLEAN
  BY DEF TypeInv, TypeOK, IsrModemStatus
<1> QED
  BY <1>1, <1>2 DEF TypeInv, TypeOK, AttrShape, CharacterThere, IsrModemStatus, openVars, historyVars

LEMMA TransmitTyped ==
  ASSUME TypeInv, IsrTransmit
  PROVE  TypeInv'
<1>1. /\ uart_data' \in [ier : SUBSET Enables, hwFlow : BOOLEAN, mode : Modes]
      /\ IER' \in SUBSET Enables
      /\ {thr', hold'} \subseteq Char \cup {NoChar}
      /\ {thri', OE', tx_active', failed'} \subseteq BOOLEAN
      /\ flagged' \subseteq flagged
  <2>1. CASE Len(raw) > 1
    <3>1. raw[2] \in Char
      BY <2>1 DEF TypeInv, TypeOK
    <3> QED
      BY <2>1, <3>1, DeviceWriteTyped DEF TypeInv, TypeOK, IsrTransmit
  <2>2. CASE ~(Len(raw) > 1)
    <3>1. uart_data' \in [ier : SUBSET Enables, hwFlow : BOOLEAN, mode : Modes]
      BY <2>2, ZenonT(40) DEF TypeInv, TypeOK, IsrTransmit
    <3>2. WriteIER(uart_data'.ier) /\ uart_data'.ier \in SUBSET Enables
      BY <2>2, <3>1 DEF IsrTransmit
    <3>3. IER' \in SUBSET Enables /\ thri' \in BOOLEAN
      BY <3>2, WriteIERTyped DEF TypeInv
    <3> QED
      BY <2>2, <3>1, <3>3 DEF TypeInv, TypeOK, IsrTransmit
  <2> QED
    BY <2>1, <2>2
<1>2. raw' \in Seq(Char) /\ Len(raw') <= OutSize
  BY SizeAssumption, SMTT(30) DEF TypeInv, TypeOK, IsrTransmit
<1> QED
  BY <1>1, <1>2 DEF TypeInv, TypeOK, AttrShape, CharacterThere, IsrTransmit, openVars, historyVars

LEMMA ReceiveTyped ==
  ASSUME TypeInv, IsrReceive
  PROVE  TypeInv'
<1>1. RBR \in 0 .. arrived
  BY DEF RBR, TypeInv, TypeOK, IsrReceive, CharacterThere
<1>2. failed' \in BOOLEAN /\ buf' \in Seq(0 .. arrived) /\ Len(buf') <= BufSize
  <2>1. buf \in Seq(0 .. arrived) /\ Len(buf) <= BufSize /\ BufSize \in Nat
    BY SizeAssumption DEF TypeInv, TypeOK
  <2>2. failed' \in BOOLEAN /\ (failed' <=> Len(buf) >= BufSize)
    <3>1. failed' = (Len(buf) >= BufSize)
      BY Zenon DEF IsrReceive
    <3>2. (Len(buf) >= BufSize) \in BOOLEAN
      BY <2>1
    <3>3. failed' \in BOOLEAN
      BY <3>1, <3>2, Zenon
    <3>4. failed' <=> Len(buf) >= BufSize
      BY <3>1, Zenon
    <3> QED
      BY <3>3, <3>4
  <2>3. failed' \/ buf' = Append(buf, RBR)
    BY <2>2 DEF IsrReceive
  <2>4. CASE failed'
    <3>1. buf' = buf
      BY <2>4 DEF IsrReceive
    <3>2. buf' \in Seq(0 .. arrived) /\ Len(buf') <= BufSize
      BY <2>1, <3>1
    <3> QED
      BY <2>2, <3>2, Zenon
  <2>5. CASE ~failed'
    <3>1. buf' = Append(buf, RBR)
      BY <2>3, <2>5
    <3>2. ~(Len(buf) >= BufSize)
      BY <2>2, <2>5, Zenon
    <3>3. buf' \in Seq(0 .. arrived) /\ Len(buf') <= BufSize
      BY <1>1, <2>1, <3>1, <3>2
    <3> QED
      BY <2>2, <3>3, Zenon
  <2> QED
    BY <2>2, <2>4, <2>5
<1>3. /\ rx' \in Seq(1 .. arrived) /\ Len(rx') <= Depth
      /\ {rx[i] : i \in DOMAIN rx} \ {Head(rx)} \subseteq {rx'[i] : i \in DOMAIN rx'}
  BY AfterRBR DEF TypeInv, IsrReceive
<1>4. flagged' \subseteq damaged' \cap {rx'[i] : i \in DOMAIN rx'}
  <2>1. CASE DLAB
    BY <2>1, ZenonT(40) DEF IsrReceive, rxAfterRBR, historyVars, TypeInv, TypeOK
  <2>2. CASE ~DLAB
    <3>1. flagged' = flagged \ {Head(rx)}
      BY <2>2 DEF IsrReceive, RBR
    <3> QED
      BY <3>1, <1>3 DEF TypeInv, TypeOK, IsrReceive, historyVars
  <2> QED
    BY <2>1, <2>2
<1> QED
  BY <1>2, <1>3, <1>4 DEF TypeInv, TypeOK, AttrShape, CharacterThere, IsrReceive, openVars, historyVars,
     txVars

LEMMA ErrorTyped ==
  ASSUME TypeInv, uartError
  PROVE  TypeInv'
<1>1. /\ rx' \in Seq(1 .. arrived) /\ Len(rx') <= Depth
      /\ {rx[i] : i \in DOMAIN rx} \ {Head(rx)} \subseteq {rx'[i] : i \in DOMAIN rx'}
  BY AfterRBR DEF TypeInv, uartError
<1>2. flagged' \subseteq damaged' \cap {rx'[i] : i \in DOMAIN rx'}
  <2>1. CASE rx = <<>>
    BY <2>1 DEF uartError, ReadLSR, TypeInv, TypeOK, historyVars
  <2>2. CASE rx # <<>>
    <3>1. flagged' = flagged \ {Head(rx)}
      BY <2>2 DEF uartError, ReadLSR
    <3> QED
      BY <1>1, <3>1 DEF uartError, TypeInv, TypeOK, historyVars
  <2> QED
    BY <2>1, <2>2
<1> QED
  BY <1>1, <1>2 DEF TypeInv, TypeOK, AttrShape, CharacterThere, uartError, ReadLSR, openVars,
     historyVars, txVars

LEMMA SetAttributesTyped ==
  ASSUME TypeInv, NEW t \in Settings, SetAttributes(t)
  PROVE  TypeInv'
<1>1. conSetAttr(t) \in Modes
  BY DEF Modes
<1>2. attr' = [at |-> "dlab", mode |-> conSetAttr(t), ier |-> IER]
  BY DEF SetAttributes
<1>3. AttrShape' /\ attr'.at = "dlab"
  BY <1>1, <1>2 DEF AttrShape, TypeInv, TypeOK
<1> QED
  BY <1>3 DEF TypeInv, TypeOK, CharacterThere, SetAttributes, lineVars, txVars, openVars,
     historyVars

\* A step of BSP_uart_set_attributes keeps what was saved.
LEMMA AttrStepShape ==
  ASSUME TypeInv,
         NEW here \in {"dlab", "lcr", "fcr", "ier", "clear", "restore"},
         NEW next \in {"idle", "dlab", "lcr", "fcr", "ier", "clear", "restore"},
         AttrStep(here, next)
  PROVE  /\ AttrShape' /\ attr'.at = next
         /\ attr'.mode = attr.mode /\ attr'.ier = attr.ier
         /\ attr.mode \in Modes /\ attr.ier \in SUBSET Enables
<1>1. attr \in [at : {"idle", "dlab", "lcr", "fcr", "ier", "clear", "restore"},
                mode : Modes, ier : SUBSET Enables]
  BY DEF AttrStep, TypeInv, AttrShape
<1>2. attr' = [attr EXCEPT !.at = next]
  BY DEF AttrStep
<1> QED
  BY <1>1, <1>2 DEF AttrShape

LEMMA InitRegistersTyped ==
  ASSUME TypeInv, InitDivisor \/ InitLine
  PROVE  TypeInv'
<1>1. AttrShape' /\ attr'.at \in {"lcr", "fcr"}
  BY AttrStepShape DEF InitDivisor, InitLine
<1>2. /\ DLAB' \in BOOLEAN
      /\ UNCHANGED <<uart_data, IER, thr, thri, rx, flagged, OE, DCTS, port, CTS, txVars, isr, buf,
                     openVars, failed, historyVars>>
  BY DEF InitDivisor, InitLine, AttrStep
<1>3. TypeOK'
  BY <1>1, <1>2 DEF TypeInv, TypeOK, txVars, openVars, historyVars
<1> QED
  BY <1>1, <1>2, <1>3 DEF TypeInv, CharacterThere, openVars

LEMMA InitFifosTyped ==
  ASSUME TypeInv, InitFifos
  PROVE  TypeInv'
<1>1. AttrShape' /\ attr'.at = "ier"
  BY AttrStepShape DEF InitFifos
<1>2. thri' \in BOOLEAN /\ isr = "out"
  BY DEF InitFifos, TypeInv, TypeOK, AttrStep, Thread
<1>3. rx' \in Seq(1 .. arrived) /\ Len(rx') <= Depth /\ flagged' = {} /\ thr' = NoChar
  BY SizeAssumption DEF InitFifos
<1>4. isr' = "out" /\ opens' <= opened'
  BY <1>2 DEF InitFifos, AttrStep, openVars, TypeInv
<1>5. TypeOK'
  BY <1>1, <1>2, <1>3 DEF TypeInv, TypeOK, InitFifos, AttrStep, txVars, openVars, historyVars
<1> QED
  BY <1>1, <1>4, <1>5 DEF TypeInv, CharacterThere

LEMMA InitDisableTyped ==
  ASSUME TypeInv, InitDisable
  PROVE  TypeInv'
<1>1. AttrShape' /\ attr'.at = "clear"
  BY AttrStepShape DEF InitDisable
<1>2. thri' \in BOOLEAN /\ IER' \in SUBSET Enables
  BY WriteIERTyped DEF InitDisable, TypeInv
<1> QED
  BY <1>1, <1>2 DEF TypeInv, TypeOK, CharacterThere, InitDisable, AttrStep, txVars, openVars,
     historyVars

LEMMA InitClearTyped ==
  ASSUME TypeInv, InitClear
  PROVE  TypeInv'
<1>1. AttrShape' /\ attr'.at = "restore" /\ attr.mode \in Modes /\ isr = "out"
  BY AttrStepShape DEF InitClear, AttrStep, Thread
<1>2. /\ rx' \in Seq(1 .. arrived) /\ Len(rx') <= Depth
      /\ {rx[i] : i \in DOMAIN rx} \ {Head(rx)} \subseteq {rx'[i] : i \in DOMAIN rx'}
  BY AfterRBR DEF TypeInv, InitClear
<1>3. flagged' \subseteq damaged' \cap {rx'[i] : i \in DOMAIN rx'}
  <2>1. CASE rx = <<>>
    BY <2>1 DEF InitClear, AttrStep, ReadLSR, TypeInv, TypeOK, historyVars
  <2>2. CASE rx # <<>>
    <3>1. flagged' = flagged \ {Head(rx)}
      BY <2>2 DEF InitClear, ReadLSR
    <3> QED
      BY <1>2, <3>1 DEF InitClear, AttrStep, TypeInv, TypeOK, historyVars
  <2> QED
    BY <2>1, <2>2
<1>4. uart_data' \in [ier : SUBSET Enables, hwFlow : BOOLEAN, mode : Modes]
  BY <1>1 DEF InitClear, TypeInv, TypeOK
<1> QED
  BY <1>1, <1>2, <1>3, <1>4 DEF TypeInv, TypeOK, CharacterThere, InitClear, AttrStep, ReadLSR,
     txVars, openVars, historyVars

LEMMA RestoreTyped ==
  ASSUME TypeInv, RestoreIER
  PROVE  TypeInv'
<1>1. AttrShape' /\ attr'.at = "idle" /\ attr.ier \in SUBSET Enables
  BY AttrStepShape DEF RestoreIER
<1>2. thri' \in BOOLEAN /\ IER' \in SUBSET Enables
  BY <1>1, WriteIERTyped DEF RestoreIER, TypeInv
<1> QED
  BY <1>1, <1>2 DEF TypeInv, TypeOK, CharacterThere, RestoreIER, AttrStep, txVars, openVars,
     historyVars

LEMMA OpenTyped ==
  ASSUME TypeInv, BSP_uart_termios_set \/ BSP_uart_intr_ctrl
  PROVE  TypeInv'
<1>1. CASE BSP_uart_termios_set
  <2>1. stopped' \in BOOLEAN /\ DCTS' \in BOOLEAN
    BY <1>1 DEF BSP_uart_termios_set, TypeInv, TypeOK
  <2>2. opens' \in 0 .. MaxOpens /\ opened' \in 0 .. MaxOpens /\ opens' <= opened'
    BY <1>1, SizeAssumption DEF BSP_uart_termios_set, TypeInv, TypeOK
  <2>3. TypeOK'
    BY <1>1, <2>1, <2>2, ZenonT(40) DEF TypeInv, TypeOK, BSP_uart_termios_set, historyVars
  <2>4. AttrShape' /\ CharacterThere'
    BY <1>1 DEF TypeInv, AttrShape, CharacterThere, BSP_uart_termios_set
  <2> QED
    BY <2>2, <2>3, <2>4 DEF TypeInv
<1>2. CASE BSP_uart_intr_ctrl
  <2> DEFINE e == {RECEIVE_ENABLE, RECEIVER_LINE_ST_ENABLE}
                    \cup IF uart_data.hwFlow THEN {MODEM_ENABLE} ELSE {}
  <2>1. e \in SUBSET Enables
    BY DEF Enables
  <2>2. uart_data' = [uart_data EXCEPT !.ier = e] /\ WriteIER(uart_data'.ier)
    BY <1>2 DEF BSP_uart_intr_ctrl
  <2> HIDE DEF e
  <2>3. /\ uart_data' \in [ier : SUBSET Enables, hwFlow : BOOLEAN, mode : Modes]
        /\ uart_data'.ier \in SUBSET Enables
    BY <2>1, <2>2 DEF TypeInv, TypeOK
  <2>4. IER' \in SUBSET Enables /\ thri' \in BOOLEAN
    BY <2>2, <2>3, WriteIERTyped DEF TypeInv
  <2>5. /\ opener' = FALSE
        /\ UNCHANGED <<port, DLAB, thr, rx, flagged, OE, CTS, DCTS, txVars, isr, buf, attr, opens,
                       opened, handler, failed, historyVars>>
    BY <1>2 DEF BSP_uart_intr_ctrl
  <2>6. TypeOK'
    BY <2>3, <2>4, <2>5, ZenonT(40) DEF TypeInv, TypeOK, txVars, historyVars
  <2> QED
    BY <2>5, <2>6 DEF TypeInv, AttrShape, CharacterThere
<1> QED
  BY <1>1, <1>2

LEMMA CloseTyped ==
  ASSUME TypeInv, tty_close
  PROVE  TypeInv'
<1>1. opens' \in 0 .. MaxOpens /\ opens' <= opened
  BY SizeAssumption DEF tty_close, TypeInv, TypeOK
<1>2. handler' \in BOOLEAN
  BY DEF tty_close, TypeInv, TypeOK
<1> QED
  BY <1>1, <1>2 DEF TypeInv, TypeOK, AttrShape, CharacterThere, tty_close, lineVars, txVars,
     historyVars

LEMMA HardwareTyped ==
  ASSUME TypeInv, Hardware
  PROVE  TypeInv'
<1>1. CASE Transmit
  BY <1>1 DEF TypeInv, TypeOK, AttrShape, CharacterThere, Transmit, openVars, txVars
<1>2. CASE ChangeCTS
  BY <1>2 DEF TypeInv, TypeOK, AttrShape, CharacterThere, ChangeCTS, openVars, txVars, historyVars
<1>3. ASSUME NEW bad \in BOOLEAN, Receive(bad)
      PROVE  TypeInv'
  <2>1. arrived' = arrived + 1 /\ arrived \in Nat /\ arrived' \in 0 .. MaxIn
    BY <1>3, SizeAssumption DEF Receive, TypeInv, TypeOK
  <2>2. /\ 1 .. arrived \subseteq 1 .. arrived' /\ 0 .. arrived \subseteq 0 .. arrived'
        /\ arrived' \in 1 .. arrived'
    BY <2>1
  <2>3. buf' \in Seq(0 .. arrived') /\ delivered' \in Seq(0 .. arrived') /\ rx \in Seq(1 .. arrived')
    BY <1>3, <2>2, SeqGrows DEF Receive, TypeInv, TypeOK
  <2>4. CASE Len(rx) = Depth
    <3>1. OE' = TRUE /\ overruns' = overruns + 1 /\ UNCHANGED <<rx, flagged, damaged>>
      BY <1>3, <2>4 DEF Receive
    <3>2. damaged' \subseteq 1 .. arrived' /\ overruns' \in 0 .. arrived'
      BY <2>1, <2>2, <3>1 DEF TypeInv, TypeOK
    <3>3. TypeOK'
      BY <1>3, <2>1, <2>3, <3>1, <3>2 DEF Receive, TypeInv, TypeOK, openVars, txVars
    <3> QED
      BY <1>3, <3>1, <3>3 DEF Receive, TypeInv, AttrShape, CharacterThere, openVars
  <2>5. CASE Len(rx) # Depth
    <3>1. /\ rx' = Append(rx, arrived') /\ UNCHANGED <<OE, overruns>>
          /\ flagged' = flagged \cup (IF bad THEN {arrived'} ELSE {})
          /\ damaged' = damaged \cup (IF bad THEN {arrived'} ELSE {})
      BY <1>3, <2>5 DEF Receive
    <3>2. rx' \in Seq(1 .. arrived') /\ Len(rx') <= Depth /\ rx' # <<>>
      <4>1. Len(rx) \in Nat /\ Len(rx) <= Depth
        BY SizeAssumption DEF TypeInv, TypeOK
      <4>2. Len(rx) + 1 <= Depth
        BY <2>5, <4>1, SizeAssumption
      <4> QED
        BY <2>2, <2>3, <3>1, <4>2
    <3>3. damaged' \subseteq 1 .. arrived'
      BY <2>2, <3>1 DEF TypeInv, TypeOK
    <3>4. {rx[i] : i \in DOMAIN rx} \subseteq {rx'[i] : i \in DOMAIN rx'}
      BY <3>1, <2>3
    <3>5. arrived' \in {rx'[i] : i \in DOMAIN rx'}
      <4>1. Len(rx) + 1 \in DOMAIN rx' /\ rx'[Len(rx) + 1] = arrived'
        BY <3>1, <2>3
      <4> QED
        BY <4>1
    <3>6. flagged' \subseteq damaged' \cap {rx'[i] : i \in DOMAIN rx'}
      BY <3>1, <3>4, <3>5 DEF TypeInv, TypeOK
    <3> QED
      BY <1>3, <2>1, <2>2, <2>3, <3>1, <3>2, <3>3, <3>6
        DEF Receive, TypeInv, TypeOK, AttrShape, CharacterThere, openVars, txVars
  <2> QED
    BY <2>4, <2>5
<1> QED
  BY <1>1, <1>2, <1>3 DEF Hardware

LEMMA InitTyped ==
  ASSUME Init
  PROVE  TypeInv
<1>1. DefaultMode \in Modes
  BY DEF Modes
<1>2. PICK l \in Lines :
        port = l.port /\ uart_data = [ier |-> {}, hwFlow |-> l.hwFlow, mode |-> DefaultMode]
  BY DEF Init
<1>3. port \in {"com1", "com2"}
      /\ uart_data \in [ier : SUBSET Enables, hwFlow : BOOLEAN, mode : Modes]
  BY <1>1, <1>2, LinesAssumption
<1>4. {DLAB, thri, OE, CTS, DCTS, stopped, tx_active, handler, failed} \subseteq BOOLEAN
  <2>1. /\ DLAB = FALSE /\ thri = FALSE /\ OE = FALSE /\ DCTS = FALSE /\ stopped = FALSE
        /\ tx_active = FALSE /\ handler = TRUE /\ failed = FALSE
    BY DEF Init
  <2>2. CTS \in BOOLEAN
    BY DEF Init
  <2> QED
    BY <2>1, <2>2
<1>5. attr = [at |-> "idle"] /\ isr = "out"
  BY DEF Init
<1>6. TypeOK
  <2>1. /\ IER = {} /\ thr = NoChar /\ hold = NoChar /\ taken = NoChar
        /\ raw = <<>> /\ rx = <<>> /\ buf = <<>> /\ delivered = <<>>
        /\ opener = FALSE /\ opens = 0 /\ opened = 0
        /\ arrived = 0 /\ damaged = {} /\ flagged = {} /\ overruns = 0
    BY DEF Init
  <2>2. /\ raw \in Seq(Char) /\ Len(raw) <= OutSize
        /\ rx \in Seq(1 .. arrived) /\ Len(rx) <= Depth
        /\ buf \in Seq(0 .. arrived) /\ Len(buf) <= BufSize
        /\ delivered \in Seq(0 .. arrived)
    BY <2>1, SizeAssumption
  <2>3. /\ attr.at = "idle" /\ isr \in Vects \cup {"out", "identify"}
        /\ opener \in BOOLEAN /\ IER \in SUBSET Enables
        /\ {thr, hold, taken} \subseteq Char \cup {NoChar}
    BY <1>5, <2>1
  <2>4. /\ opens \in 0 .. MaxOpens /\ opened \in 0 .. MaxOpens
        /\ arrived \in 0 .. MaxIn /\ overruns \in 0 .. arrived
    BY <2>1, SizeAssumption
  <2>5. damaged \subseteq 1 .. arrived /\ flagged \subseteq damaged \cap {rx[i] : i \in DOMAIN rx}
    BY <2>1
  <2> QED
    BY <1>3, <1>4, <2>2, <2>3, <2>4, <2>5 DEF TypeOK
<1> QED
  BY <1>5, <1>6 DEF Init, TypeInv, AttrShape, CharacterThere

LEMMA StutterTyped ==
  ASSUME TypeInv, UNCHANGED vars
  PROVE  TypeInv'
  BY DEF TypeInv, TypeOK, AttrShape, CharacterThere, vars, lineVars, txVars, openVars, historyVars

LEMMA TypeStep ==
  ASSUME TypeInv, [Next]_vars
  PROVE  TypeInv'
<1>1. CASE Isr
  BY <1>1, EnterTyped, IdentifyTyped, ModemTyped, TransmitTyped, ReceiveTyped, ErrorTyped DEF Isr
<1>2. CASE BSP_uart_set_attributes
  BY <1>2, InitRegistersTyped, InitFifosTyped, InitDisableTyped, InitClearTyped, RestoreTyped
    DEF BSP_uart_set_attributes, BSP_uart_init
<1>3. CASE tty1_open \/ tty2_open
  BY <1>3, OpenTyped DEF tty1_open, tty2_open
<1> QED
  BY <1>1, <1>2, <1>3, CloseTyped, HardwareTyped, PutsTyped, SetAttributesTyped, StutterTyped
    DEF Next, BSP_uart_termios_isr_com1, BSP_uart_termios_isr_com2

\* The variables have their types, whatever the lines, settings and bounds are, also
\* if attributes are set while interrupts come: the receiver, the interrupt
\* routine and termios never hold more than they have room for (uart.c, tty_drv.c).
THEOREM TypeCorrect == Spec => []TypeOK
<1>1. Init => TypeInv
  BY InitTyped
<1>2. TypeInv /\ [Next]_vars => TypeInv'
  BY TypeStep
<1>3. TypeInv => TypeOK
  BY DEF TypeInv
<1> QED
  BY <1>1, <1>2, <1>3, PTL DEF Spec

-----------------------------------------------------------------------------
\* The line under which the assertions hold: nothing goes on while attributes are
\* set, and one interrupt brings no more than buf has room for.
GentleLine == Quiet /\ ~FastLine /\ Depth <= BufSize

\* What is written, held or reported as sent says about the transmitter.
Sending ==
  /\ raw = <<>> => thr = NoChar /\ ~thri /\ hold = NoChar /\ TRANSMIT_ENABLE \notin IER
  /\ thri => thr = NoChar
  /\ hold # NoChar => thr = NoChar /\ ~thri
  /\ isr = "TRANSMITTER_HODING_REGISTER_EMPTY" =>
       raw # <<>> /\ thr = NoChar /\ hold = NoChar /\ ~thri

\* What the interrupt routine has read and what it may still find fit in buf.
Room == isr # "out" => Len(buf) + Len(rx) <= BufSize

\* While attributes are set nothing else is under way.
Alone ==
  attr.at # "idle" =>
    /\ isr = "out" /\ raw = <<>> /\ rx = <<>> /\ ~OE /\ ~DCTS /\ ~opener
    /\ TRANSMIT_ENABLE \notin attr.ier

DivisorOnly == DLAB => attr.at = "lcr"

QuietInv == Sending /\ Room /\ Alone /\ DivisorOnly /\ ~failed

\* A write to the empty transmitter of a line that is not set up: what becomes of it.
LEMMA WriteToEmpty ==
  ASSUME TypeOK, NEW c \in Char, NEW stop, NEW held, device_write(c, stop, held),
         thr = NoChar, ~DLAB
  PROVE  /\ failed' = FALSE
         /\ \/ hold' = c /\ thr' = NoChar /\ thri' = thri /\ IER' = IER
            \/ hold' = held /\ thr' = c /\ thri' = FALSE
<1>1. termios_write(c, stop, held)
  BY OneWrite
<1>2. failed' = FALSE
  BY <1>1 DEF termios_write
<1> QED
  BY <1>1, <1>2 DEF termios_write, WriteTHR

LEMMA PutsQuiet ==
  ASSUME TypeInv, QuietInv, NEW c \in Char, Puts(c)
  PROVE  QuietInv'
<1>1. raw' \in Seq(Char) /\ raw' # <<>>
  BY DEF TypeInv, TypeOK, Puts
<1>2. ~DLAB /\ attr.at = "idle" /\ isr = "out"
  BY DEF QuietInv, DivisorOnly, Puts, Thread
<1>3. Sending' /\ failed' = FALSE
  <2>1. CASE raw = <<>>
    <3>1. thr = NoChar /\ ~thri /\ hold = NoChar
      BY <2>1 DEF QuietInv, Sending
    <3>2. device_write(c, stopped, hold)
      BY <2>1 DEF Puts
    <3> QED
      BY <1>1, <1>2, <3>1, <3>2, WriteToEmpty, CharAssumption DEF TypeInv, Sending, Puts
  <2>2. CASE raw # <<>>
    BY <1>1, <1>2, <2>2 DEF QuietInv, Sending, Puts, Thread
  <2> QED
    BY <2>1, <2>2
<1> QED
  BY <1>2, <1>3 DEF QuietInv, Room, Alone, DivisorOnly, Puts

LEMMA EnterQuiet ==
  ASSUME GentleLine, TypeInv, QuietInv, IsrEnter
  PROVE  QuietInv'
<1>1. Cause # "NO_MORE_INTR" /\ attr.at = "idle"
  BY DEF IsrEnter, Cause, QuietInv, Alone, Sending
<1>2. buf' = <<>> /\ rx' = rx /\ Len(rx) <= BufSize
  BY SizeAssumption DEF IsrEnter, lineVars, TypeInv, TypeOK, GentleLine
<1>3. Room'
  BY <1>2, SizeAssumption DEF Room
<1> QED
  BY <1>1, <1>3 DEF QuietInv, Sending, Alone, DivisorOnly, IsrEnter, lineVars, txVars

LEMMA IdentifyQuiet ==
  ASSUME TypeInv, QuietInv, IsrIdentify
  PROVE  QuietInv'
<1>1. attr.at = "idle" /\ ~DLAB
  BY DEF IsrIdentify, QuietInv, Alone, DivisorOnly
<1>2. Cause = "TRANSMITTER_HODING_REGISTER_EMPTY" => thri
  BY DEF Cause
<1>3. Sending'
  BY <1>2 DEF QuietInv, Sending, IsrIdentify, txVars
<1> QED
  BY <1>1, <1>3 DEF QuietInv, Room, Alone, DivisorOnly, IsrIdentify

LEMMA ModemQuiet ==
  ASSUME TypeInv, QuietInv, IsrModemStatus
  PROVE  QuietInv'
<1>1. attr.at = "idle" /\ ~DLAB
  BY DEF IsrModemStatus, QuietInv, Alone, DivisorOnly
<1>2. Sending' /\ failed' = FALSE
  <2>1. CASE uart_data.hwFlow /\ CTS /\ hold # NoChar
    <3>1. thr = NoChar /\ ~thri /\ raw # <<>> /\ hold \in Char
      BY <2>1 DEF QuietInv, Sending, TypeInv, TypeOK
    <3>2. device_write(hold, FALSE, NoChar)
      BY <2>1 DEF IsrModemStatus
    <3>3. termios_write(hold, FALSE, NoChar)
      BY <3>2, OneWrite
    <3>4. failed' = FALSE /\ hold' = NoChar /\ thri' = FALSE
      BY <1>1, <3>1, <3>3 DEF termios_write, WriteTHR
    <3> QED
      BY <3>1, <3>4 DEF Sending, IsrModemStatus
  <2>2. CASE ~(uart_data.hwFlow /\ CTS /\ hold # NoChar)
    <3>1. UNCHANGED <<IER, thr, thri, hold, raw, failed>> /\ isr' = "identify" /\ ~failed
      BY <2>2 DEF IsrModemStatus
    <3>2. failed' = FALSE
      BY <3>1 DEF TypeInv, TypeOK
    <3> QED
      BY <3>1, <3>2 DEF QuietInv, Sending
  <2> QED
    BY <2>1, <2>2
<1> QED
  BY <1>1, <1>2 DEF QuietInv, Room, Alone, DivisorOnly, IsrModemStatus

LEMMA TransmitQuiet ==
  ASSUME TypeInv, QuietInv, IsrTransmit
  PROVE  QuietInv'
<1>1. attr.at = "idle" /\ ~DLAB
  BY DEF IsrTransmit, QuietInv, Alone, DivisorOnly
<1>2. raw # <<>> /\ raw \in Seq(Char) /\ raw' = Tail(raw) /\ thr = NoChar /\ hold = NoChar /\ ~thri
  BY DEF IsrTransmit, QuietInv, Sending, TypeInv, TypeOK
<1>3. Sending' /\ failed' = FALSE
  <2>1. CASE Len(raw) > 1
    <3>1. raw[2] \in Char
      BY <1>2, <2>1
    <3>2. Len(raw') = Len(raw) - 1 /\ raw' \in Seq(Char)
      BY <1>2
    <3>3. raw' # <<>>
      BY <2>1, <3>2
    <3>4. device_write(raw[2], stopped, hold)
      BY <2>1 DEF IsrTransmit
    <3> QED
      BY <1>1, <1>2, <3>1, <3>3, <3>4, WriteToEmpty, CharAssumption DEF TypeInv, Sending, IsrTransmit
  <2>2. CASE ~(Len(raw) > 1)
    <3>1. uart_data' = [uart_data EXCEPT !.ier = @ \ {TRANSMIT_ENABLE}] /\ WriteIER(uart_data'.ier)
          /\ UNCHANGED <<thr, hold, failed>>
      BY <2>2 DEF IsrTransmit
    <3>2. TRANSMIT_ENABLE \notin uart_data'.ier
      BY <3>1 DEF TypeInv, TypeOK
    <3>3. TRANSMIT_ENABLE \notin IER' /\ ~thri'
      BY <1>1, <1>2, <3>1, <3>2 DEF WriteIER
    <3> QED
      BY <1>2, <3>1, <3>3 DEF Sending, IsrTransmit, QuietInv
  <2> QED
    BY <2>1, <2>2
<1> QED
  BY <1>1, <1>3 DEF QuietInv, Room, Alone, DivisorOnly, IsrTransmit

\* At such a line a character that is read is the receiver's first, and buf takes it.
LEMMA ReceiveFits ==
  ASSUME TypeInv, QuietInv, IsrReceive
  PROVE  /\ attr.at = "idle" /\ ~DLAB /\ rx # <<>> /\ RBR = Head(rx)
         /\ ~failed' /\ buf' = Append(buf, Head(rx)) /\ rx' = Tail(rx)
         /\ Len(buf') + Len(rx') <= BufSize
<1>1. attr.at = "idle" /\ ~DLAB
  BY DEF IsrReceive, QuietInv, Alone, DivisorOnly
<1>2. /\ rx # <<>> /\ rx \in Seq(1 .. arrived) /\ buf \in Seq(0 .. arrived)
      /\ Len(buf) + Len(rx) <= BufSize
  BY DEF IsrReceive, QuietInv, Room, TypeInv, TypeOK, CharacterThere
<1>3. ~(Len(buf) >= BufSize)
  BY <1>2, SizeAssumption
<1>4. ~failed'
  BY <1>3, Zenon DEF IsrReceive
<1>5. RBR = Head(rx) /\ buf' = Append(buf, Head(rx)) /\ rx' = Tail(rx)
  BY <1>1, <1>2, <1>4 DEF IsrReceive, RBR, rxAfterRBR
<1>6. Len(buf') + Len(rx') <= BufSize
  BY <1>2, <1>5, SizeAssumption DEF RBR
<1> QED
  BY <1>1, <1>2, <1>4, <1>5, <1>6

LEMMA ReceiveQuiet ==
  ASSUME TypeInv, QuietInv, IsrReceive
  PROVE  QuietInv'
  BY ReceiveFits DEF QuietInv, Sending, Room, Alone, DivisorOnly, IsrReceive, txVars

LEMMA ErrorQuiet ==
  ASSUME TypeInv, QuietInv, uartError
  PROVE  QuietInv'
<1>1. attr.at = "idle" /\ ~DLAB
  BY DEF uartError, QuietInv, Alone, DivisorOnly
<1>2. rx \in Seq(1 .. arrived) /\ buf' = buf /\ Len(buf) + Len(rx) <= BufSize
  BY DEF uartError, QuietInv, Room, TypeInv, TypeOK
<1>3. Len(rx') <= Len(rx) /\ Len(rx') \in Nat
  BY <1>2 DEF uartError, rxAfterRBR
<1>4. Len(buf') + Len(rx') <= BufSize
  <2>1. Len(buf) \in Nat /\ Len(rx) \in Nat
    BY <1>2 DEF TypeInv, TypeOK
  <2> QED
    BY <1>2, <1>3, <2>1, SizeAssumption
<1> QED
  BY <1>1, <1>4 DEF QuietInv, Sending, Room, Alone, DivisorOnly, uartError, txVars

LEMMA ReturnQuiet ==
  ASSUME TypeInv, QuietInv, IsrReturn
  PROVE  QuietInv'
<1>1. attr.at = "idle"
  BY DEF IsrReturn, QuietInv, Alone
<1> QED
  BY <1>1 DEF QuietInv, Sending, Room, Alone, DivisorOnly, IsrReturn, lineVars, txVars

LEMMA SetAttributesQuiet ==
  ASSUME GentleLine, TypeInv, QuietInv, NEW t \in Settings, SetAttributes(t)
  PROVE  QuietInv'
<1>1. LineQuiet /\ isr = "out"
  BY DEF SetAttributes, GentleLine, Thread
<1>2. TRANSMIT_ENABLE \notin IER
  BY <1>1 DEF LineQuiet, QuietInv, Sending
<1>3. attr' = [at |-> "dlab", mode |-> conSetAttr(t), ier |-> IER] /\ attr.at = "idle"
  BY DEF SetAttributes
<1>4. attr'.ier = IER /\ attr'.at # "idle"
  BY <1>3
<1>5. UNCHANGED <<uart_data, lineVars, txVars, isr, buf, openVars, failed>>
  BY DEF SetAttributes
<1> QED
  BY <1>1, <1>2, <1>3, <1>4, <1>5
    DEF QuietInv, Sending, Room, Alone, DivisorOnly, LineQuiet, lineVars, txVars, openVars

LEMMA AttrQuiet ==
  ASSUME TypeInv, QuietInv, BSP_uart_set_attributes
  PROVE  QuietInv'
<1>1. attr.at # "idle" /\ UNCHANGED <<CTS, txVars, isr, buf, openVars, failed>>
  BY DEF BSP_uart_set_attributes, BSP_uart_init, InitDivisor, InitLine, InitFifos, InitDisable,
     InitClear, RestoreIER, AttrStep
<1>2. /\ isr = "out" /\ raw = <<>> /\ rx = <<>> /\ ~OE /\ ~DCTS /\ ~opener
      /\ TRANSMIT_ENABLE \notin attr.ier
      /\ thr = NoChar /\ ~thri /\ hold = NoChar /\ TRANSMIT_ENABLE \notin IER
  BY <1>1 DEF QuietInv, Alone, Sending
<1>3. attr'.ier = attr.ier
  BY AttrStepShape DEF BSP_uart_set_attributes, BSP_uart_init, InitDivisor, InitLine, InitFifos,
     InitDisable, InitClear, RestoreIER
<1>4. rx' = <<>> /\ ~OE' /\ ~DCTS'
  BY <1>2 DEF BSP_uart_set_attributes, BSP_uart_init, InitDivisor, InitLine, InitFifos, InitDisable,
     InitClear, RestoreIER, ReadLSR, rxAfterRBR
<1>5. thr' = NoChar /\ ~thri' /\ TRANSMIT_ENABLE \notin IER'
  <2>1. CASE InitDisable
    <3>1. WriteIER({}) /\ thr' = thr
      BY <2>1 DEF InitDisable
    <3>2. TRANSMIT_ENABLE \notin {} \ IER
      OBVIOUS
    <3> QED
      BY <1>2, <3>1, <3>2 DEF WriteIER
  <2>2. CASE RestoreIER
    <3>1. WriteIER(attr.ier) /\ thr' = thr
      BY <2>2 DEF RestoreIER
    <3> QED
      BY <1>2, <3>1 DEF WriteIER
  <2>3. CASE InitDivisor \/ InitLine \/ InitClear
    BY <1>2, <2>3 DEF InitDivisor, InitLine, InitClear
  <2>4. CASE InitFifos
    <3>1. thr' = NoChar /\ IER' = IER /\ (thri' = (thri \/ thr # NoChar))
      BY <2>4 DEF InitFifos
    <3> QED
      BY <1>2, <3>1
  <2> QED
    BY <2>1, <2>2, <2>3, <2>4 DEF BSP_uart_set_attributes, BSP_uart_init
<1>6. DivisorOnly'
  <2>1. CASE InitDivisor
    <3>1. attr'.at = "lcr"
      BY <2>1, AttrStepShape DEF InitDivisor
    <3> QED
      BY <3>1 DEF DivisorOnly
  <2>2. CASE InitLine
    BY <2>2 DEF InitLine, DivisorOnly
  <2>3. CASE InitFifos \/ InitDisable \/ InitClear \/ RestoreIER
    <3>1. attr.at # "lcr" /\ DLAB' = DLAB
      BY <2>3 DEF InitFifos, InitDisable, InitClear, RestoreIER, AttrStep
    <3> QED
      BY <3>1 DEF DivisorOnly, QuietInv
  <2> QED
    BY <2>1, <2>2, <2>3 DEF BSP_uart_set_attributes, BSP_uart_init
<1> QED
  BY <1>1, <1>2, <1>3, <1>4, <1>5, <1>6 DEF QuietInv, Sending, Room, Alone, txVars, openVars

LEMMA OpenQuiet ==
  ASSUME GentleLine, TypeInv, QuietInv, BSP_uart_termios_set \/ BSP_uart_intr_ctrl
  PROVE  QuietInv'
<1>1. CASE BSP_uart_termios_set
  <2>1. attr.at = "idle" /\ isr = "out"
    BY <1>1 DEF BSP_uart_termios_set, GentleLine, Thread
  <2> QED
    BY <1>1, <2>1 DEF QuietInv, Sending, Room, Alone, DivisorOnly, BSP_uart_termios_set
<1>2. CASE BSP_uart_intr_ctrl
  <2>1. attr.at = "idle" /\ isr = "out" /\ ~DLAB
    BY <1>2 DEF BSP_uart_intr_ctrl, QuietInv, Alone, DivisorOnly, Thread
  <2> DEFINE e == {RECEIVE_ENABLE, RECEIVER_LINE_ST_ENABLE}
                    \cup IF uart_data.hwFlow THEN {MODEM_ENABLE} ELSE {}
  <2>2. uart_data' = [uart_data EXCEPT !.ier = e] /\ WriteIER(uart_data'.ier)
    BY <1>2 DEF BSP_uart_intr_ctrl
  <2>3. TRANSMIT_ENABLE \notin e
    BY DEF TRANSMIT_ENABLE, RECEIVE_ENABLE, RECEIVER_LINE_ST_ENABLE, MODEM_ENABLE
  <2> HIDE DEF e
  <2>4. TRANSMIT_ENABLE \notin uart_data'.ier
    BY <2>2, <2>3 DEF TypeInv, TypeOK
  <2>5. TRANSMIT_ENABLE \notin IER' /\ thri' = thri
    BY <2>1, <2>2, <2>4 DEF WriteIER, TypeInv, TypeOK
  <2>6. UNCHANGED <<DLAB, thr, rx, OE, DCTS, txVars, isr, buf, attr, failed>>
    BY <1>2 DEF BSP_uart_intr_ctrl
  <2> QED
    BY <2>1, <2>5, <2>6 DEF QuietInv, Sending, Room, Alone, DivisorOnly, txVars
<1> QED
  BY <1>1, <1>2

LEMMA HardwareQuiet ==
  ASSUME GentleLine, TypeInv, QuietInv, Hardware
  PROVE  QuietInv'
<1>1. CASE Transmit
  BY <1>1 DEF QuietInv, Sending, Room, Alone, DivisorOnly, Transmit, txVars, openVars
<1>2. CASE ChangeCTS
  BY <1>2 DEF GentleLine, QuietInv, Sending, Room, Alone, DivisorOnly, ChangeCTS, txVars, openVars
<1>3. ASSUME NEW bad \in BOOLEAN, Receive(bad)
      PROVE  QuietInv'
  <2>1. attr.at = "idle" /\ (isr = "out" \/ Len(buf) + Len(rx) < BufSize)
    BY <1>3 DEF Receive, GentleLine
  <2>2. rx \in Seq(1 .. arrived) /\ buf' = buf /\ isr' = isr /\ Len(buf) \in Nat
    BY <1>3 DEF Receive, TypeInv, TypeOK
  <2>3. rx' = rx \/ rx' = Append(rx, arrived')
    BY <1>3 DEF Receive
  <2>4. Room'
    BY <2>1, <2>2, <2>3, SizeAssumption DEF Room, QuietInv
  <2> QED
    BY <1>3, <2>1, <2>4 DEF QuietInv, Sending, Alone, DivisorOnly, Receive, txVars
<1> QED
  BY <1>1, <1>2, <1>3 DEF Hardware

LEMMA InitQuiet ==
  ASSUME Init
  PROVE  QuietInv
<1>1. attr.at = "idle" /\ isr = "out" /\ raw = <<>> /\ thr = NoChar /\ hold = NoChar /\ IER = {}
      /\ ~thri /\ ~DLAB /\ ~failed
  BY DEF Init
<1> QED
  BY <1>1 DEF QuietInv, Sending, Room, Alone, DivisorOnly

LEMMA QuietStep ==
  ASSUME GentleLine, TypeInv, QuietInv, [Next]_vars
  PROVE  QuietInv'
<1>1. CASE Isr
  BY <1>1, EnterQuiet, IdentifyQuiet, ModemQuiet, TransmitQuiet, ReceiveQuiet, ErrorQuiet,
     ReturnQuiet DEF Isr
<1>2. CASE tty1_open \/ tty2_open
  BY <1>2, OpenQuiet DEF tty1_open, tty2_open
<1>3. CASE tty_close
  BY <1>3 DEF QuietInv, Sending, Room, Alone, DivisorOnly, tty_close, lineVars, txVars
<1>4. CASE UNCHANGED vars
  BY <1>4 DEF QuietInv, Sending, Room, Alone, DivisorOnly, vars, lineVars, txVars, openVars
<1> QED
  BY <1>1, <1>2, <1>3, <1>4, AttrQuiet, HardwareQuiet, PutsQuiet, SetAttributesQuiet
    DEF Next, BSP_uart_termios_isr_com1, BSP_uart_termios_isr_com2

\* If attributes are set at a quiet line only, and one interrupt brings no more
\* characters than buf holds, the driver never runs into one of its assertions
\* (uart.c:585, 722), however often the device is opened.
THEOREM QuietAssertions ==
  ASSUME GentleLine
  PROVE  Spec => []AssertionsHold
<1>1. Init => TypeInv /\ QuietInv
  BY InitTyped, InitQuiet
<1>2. QuietInv /\ TypeInv /\ [Next]_vars => QuietInv'
  BY QuietStep
<1>3. TypeInv /\ [Next]_vars => TypeInv'
  BY TypeStep
<1>4. QuietInv => AssertionsHold
  BY DEF QuietInv, AssertionsHold
<1> QED
  BY <1>1, <1>2, <1>3, <1>4, PTL DEF Spec

=============================================================================
