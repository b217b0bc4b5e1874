------------------------------ MODULE Keyboard ------------------------------
(***************************************************************************)
(* The keyboard driver of the BSP (pc_keyb.c, keyboard.c): the interrupt   *)
(* handler reads scan codes from the controller, follows the keys that are *)
(* down, and queues characters (KeyRing).  A lock key makes it set the     *)
(* keyboard's lights at once, from inside the handler: it sends command    *)
(* bytes, waits for the controller and reads further scan codes while it   *)
(* waits, so that it may be entered again inside itself.  The keyboard and *)
(* its controller are external.                                            *)
(***************************************************************************)
EXTENDS Naturals, Sequences, FiniteSets

CONSTANTS
  Key,        \* the keys that are used, by their key codes
  MaxWire,    \* bound: bytes the keyboard has not handed over
  Retries,    \* of send_data: 3
  MaxNest,    \* bound: lock keys pressed that the handler has not finished
  MaxPresses, \* bound: key presses and repetitions
  Faulty      \* the line damages bytes, or the keyboard is slow to take them

\* The keys of the default map (defkeymap.c) the model knows, and the scan
\* codes of pckbd_translate: some have a prefix, then the code is shared.
KeyCode == {"shiftl", "shiftr", "ctrll", "ctrlr", "altgr", "caps"}

ASSUME KeyAssumption   == Key \subseteq KeyCode
ASSUME BoundAssumption ==
  /\ MaxWire \in Nat \ {0, 1}
  /\ {Retries, MaxNest, MaxPresses} \subseteq Nat
  /\ Faulty \in BOOLEAN

PlainKeys ==
  [shiftl |-> "shiftl", shiftr |-> "shiftr", ctrl |-> "ctrll", alt |-> "altl",
   caps |-> "caps", fa |-> "focus6", fe |-> "focus10"]
E0Keys == [ctrl |-> "ctrlr", alt |-> "altgr"]
HighKey == {"ctrlr", "altgr", "focus6", "focus10"}    \* at or above SC_LIM

ModifierOf == [shiftl |-> "shift", shiftr |-> "shift", ctrll |-> "ctrl",
               ctrlr |-> "ctrl", altgr |-> "altgr"]
Modifier   == {"shift", "ctrl", "altgr"}
LockKey    == {"caps"}

\* The modifiers for which there is a key map (key_maps).
KeyMaps == {{}, {"shift"}, {"altgr"}, {"ctrl"}, {"shift", "ctrl"}}

\* Bytes from the keyboard.  Its two replies are codes of keys as well.
Byte(code, up) == [code |-> code, up |-> up]
E0     == Byte("e0", TRUE)
ACK    == Byte("fa", TRUE)     \* KBD_REPLY_ACK
RESEND == Byte("fe", TRUE)     \* KBD_REPLY_RESEND
Bytes  == {E0, ACK, RESEND}
            \cup [code : DOMAIN PlainKeys \ {"fa", "fe"}, up : BOOLEAN]

\* Bytes to the keyboard: two commands and patterns of the lights.
KBD_CMD_SET_LEDS == 237
KBD_CMD_ENABLE   == 244
VC_CAPSLOCK      == 4          \* the light's bit
Lights           == {0, VC_CAPSLOCK}
LightsUndefined  == 255        \* the initial ledstate

VARIABLES
  held,        \* keyboard: the keys held down
  presses,     \* keyboard: presses so far, for the bound only
  wire,        \* keyboard: bytes not yet in the controller's output buffer
  leds,        \* keyboard: the lights
  dataNext,    \* keyboard: it has accepted KBD_CMD_SET_LEDS
  obf,         \* controller: output buffer, KBD_STAT_OBF
  ibf,         \* controller: input buffer, KBD_STAT_IBF
  irq,         \* the controller's interrupt has been raised
  reply_expected, acknowledge, resend,
  prev_scancode,             \* the last byte was the prefix
  key_down, k_down,          \* keys down, and the count for each modifier
  ledflagstate, ledstate,    \* lights wanted, and lights sent
  commands     \* the calls of pckbd_leds in progress, the innermost first

deviceVars == <<held, presses, wire, leds, dataNext>>
flagVars   == <<reply_expected, acknowledge, resend>>
keyVars    == <<prev_scancode, key_down, k_down, ledflagstate, ledstate>>
vars       == <<deviceVars, obf, ibf, irq, flagVars, keyVars, commands>>

\* A call of pckbd_leds: the bytes that remain to be sent, where send_data is
\* with the first of them, and the tries it has left.
Command ==
  [bytes   : {<<KBD_CMD_SET_LEDS, x>> : x \in Lights}
               \cup {<<x>> : x \in Lights \cup {KBD_CMD_ENABLE}},
   at      : {"send", "wait", "status", "write", "reply"},
   retries : 0 .. Retries]

TypeOK ==
  /\ held \subseteq Key
  /\ presses \in 0 .. MaxPresses
  /\ wire \in Seq(Bytes)
  /\ leds \in Lights
  /\ obf \in {{}} \cup {{b} : b \in Bytes}
  /\ ibf \in {{}} \cup {{x} : x \in Lights \cup {KBD_CMD_SET_LEDS, KBD_CMD_ENABLE}}
  /\ {dataNext, irq, reply_expected, acknowledge, resend, prev_scancode} \subseteq BOOLEAN
  /\ key_down \subseteq KeyCode \cup {"altl"}
  /\ k_down \in [Modifier -> Nat]
  /\ ledflagstate \in Lights
  /\ ledstate \in Lights \cup {LightsUndefined}
  /\ commands \in Seq(Command)

Init ==
  /\ held = {} /\ presses = 0 /\ wire = <<>> /\ leds = 0 /\ dataNext = FALSE
  /\ obf = {} /\ ibf = {} /\ irq = FALSE
  /\ reply_expected = FALSE /\ acknowledge = FALSE /\ resend = FALSE
  /\ prev_scancode = FALSE
  /\ key_down = {} /\ k_down = [m \in Modifier |-> 0]
  /\ ledflagstate = 0 /\ ledstate = LightsUndefined
  /\ commands = <<>>

-----------------------------------------------------------------------------
(* keyboard.c: what the driver does with a byte that is no expected reply.  *)

\* pckbd_translate: the key code of a byte, or none: the prefix itself, the
\* shift codes that keyboards add after it, codes that no key has.
Translation(b) ==
  CASE b = E0        -> {}
    [] prev_scancode -> {E0Keys[x] : x \in DOMAIN E0Keys \cap {b.code}}
    [] OTHER         -> {PlainKeys[b.code]}

shift_state == {m \in Modifier : k_down[m] > 0}

\* A release that no press came before is a press if the key is one of the high
\* codes (pckbd_unexpected_up).
IsUp(k, b)  == b.up /\ (k \in key_down \/ k \notin HighKey)
IsRep(k, b) == ~b.up /\ k \in key_down

CountDown(down) ==
  [m \in Modifier |-> Cardinality({k \in down \cap DOMAIN ModifierOf : ModifierOf[k] = m})]

\* Mutant of do_shift: one flag for both keys of a modifier.
do_shiftFlag(m, up) ==
  k_down' = [k_down EXCEPT ![m] = IF up THEN 0 ELSE 1]

\* do_shift: releases never count below zero.
do_shift(m, up) ==
  k_down' = [k_down EXCEPT ![m] = IF ~up THEN @ + 1 ELSE IF @ > 0 THEN @ - 1 ELSE 0]

\* caps_toggle: change the flag and call set_leds, which calls pckbd_leds if the
\* lights differ from those sent last.  The call starts on top of what the
\* handler returns to.
caps_toggle(below) ==
  /\ ledflagstate' = VC_CAPSLOCK - ledflagstate
  /\ ledstate' = ledflagstate'
  /\ commands' = IF ledflagstate' = ledstate THEN below
                 ELSE <<[bytes   |-> <<KBD_CMD_SET_LEDS, ledflagstate'>>,
                         at      |-> "send",
                         retries |-> Retries]>> \o below

\* The handler of the key's type, called through the map of the modifiers that
\* are down; without a map the counters are computed from the keys.  Letters are
\* left out: their handler only puts a character into the ring buffer.
KeyHandler(k, b, below) ==
  \/ /\ \/ shift_state \notin KeyMaps
        \/ k \in {"focus6", "focus10"}      \* do_spec, do_null
     /\ k_down' = CountDown(key_down')
     /\ commands' = below
     /\ UNCHANGED <<ledflagstate, ledstate>>
  \/ /\ shift_state \in KeyMaps
     /\ k \in DOMAIN ModifierOf
     /\ IF IsRep(k, b) THEN UNCHANGED k_down ELSE do_shift(ModifierOf[k], IsUp(k, b))
     /\ commands' = below
     /\ UNCHANGED <<ledflagstate, ledstate>>
  \/ /\ shift_state \in KeyMaps
     /\ k \in LockKey
     /\ IF IsUp(k, b) \/ IsRep(k, b)
          THEN commands' = below /\ UNCHANGED <<ledflagstate, ledstate>>
          ELSE caps_toggle(below)
     /\ UNCHANGED k_down

handle_scancode(b, below) ==
  /\ prev_scancode' = (b = E0)
  /\ \/ /\ Translation(b) = {}
        /\ commands' = below
        /\ UNCHANGED <<key_down, k_down, ledflagstate, ledstate>>
     \/ \E k \in Translation(b) :
          /\ key_down' = IF b.up THEN key_down \ {k} ELSE key_down \cup {k}
          /\ KeyHandler(k, b, below)

-----------------------------------------------------------------------------
(* pc_keyb.c *)

\* Mutant of ReadByte: while a reply is expected every byte is taken for one.
ReadByteReplies(below) ==
  \E b \in obf :
    /\ obf' = {}
    /\ IF reply_expected
         THEN /\ acknowledge' = (acknowledge \/ b = ACK)
              /\ resend' = (resend \/ b = RESEND)
              /\ reply_expected' = FALSE
              /\ commands' = below
              /\ UNCHANGED keyVars
         ELSE handle_scancode(b, below) /\ UNCHANGED flagVars

\* handle_kbd_event with the output buffer full: one byte is read, and is a
\* reply if one is expected.
ReadByte(below) ==
  \E b \in obf :
    /\ obf' = {}
    /\ IF reply_expected /\ b \in {ACK, RESEND}     \* do_acknowledge
         THEN /\ acknowledge' = (acknowledge \/ b = ACK)
              /\ resend' = (resend \/ b = RESEND)
              /\ reply_expected' = FALSE
              /\ commands' = below
              /\ UNCHANGED keyVars
         ELSE handle_scancode(b, below) /\ UNCHANGED flagVars

\* handle_kbd_event with the output buffer empty, or found empty.
NothingToRead ==
  /\ obf = {}
  /\ acknowledge' = TRUE
  /\ reply_expected' = FALSE
  /\ resend' = FALSE

\* Mutant of Interrupt: the status was read before the byte came.
InterruptStale ==
  /\ irq
  /\ commands = <<>>
  /\ irq' = FALSE
  /\ acknowledge' = TRUE
  /\ reply_expected' = FALSE
  /\ resend' = FALSE
  /\ UNCHANGED <<deviceVars, obf, ibf, keyVars, commands>>

\* keyboard_interrupt.  It is not entered while a handler runs.
Interrupt ==
  /\ irq
  /\ commands = <<>>
  /\ irq' = FALSE
  /\ \/ ReadByte(<<>>)
     \/ NothingToRead /\ UNCHANGED <<obf, keyVars, commands>>
  /\ UNCHANGED <<deviceVars, ibf>>

Running(place) == commands # <<>> /\ Head(commands).at = place
Top            == Head(commands)
WithTop(x)     == <<x>> \o Tail(commands)
Goto(place)    == WithTop([Top EXCEPT !.at = place])

\* send_data, one byte: expect a reply,
SendData ==
  /\ Running("send")
  /\ acknowledge' = FALSE
  /\ resend' = FALSE
  /\ reply_expected' = TRUE
  /\ commands' = Goto("wait")
  /\ UNCHANGED <<deviceVars, obf, ibf, irq, keyVars>>

\* wait until the input buffer is empty (kb_wait), and look after the output
\* buffer meanwhile: with a byte in it the status is read again after the byte,
\* and whatever the byte makes the handler do, has been dealt with;
KbWaitRead ==
  /\ Running("wait")
  /\ ReadByte(Goto("status"))
  /\ UNCHANGED <<deviceVars, ibf, irq>>

KbWaitStatus ==
  /\ Running("status")
  /\ commands' = Goto(IF ibf = {} THEN "write" ELSE "wait")
  /\ UNCHANGED <<deviceVars, obf, ibf, irq, flagVars, keyVars>>

KbWaitEmpty ==
  /\ Running("wait")
  /\ NothingToRead
  /\ commands' = Goto(IF ibf = {} THEN "write" ELSE "wait")
  /\ UNCHANGED <<deviceVars, obf, ibf, irq, keyVars>>

\* or until KBC_TIMEOUT;
KbWaitTimeout ==
  /\ Running("wait")
  /\ Faulty
  /\ ibf # {}
  /\ commands' = Goto("write")
  /\ UNCHANGED <<deviceVars, obf, ibf, irq, flagVars, keyVars>>

\* write the byte,
WriteOutput ==
  /\ Running("write")
  /\ ibf' = {Head(Top.bytes)}
  /\ commands' = Goto("reply")
  /\ UNCHANGED <<deviceVars, obf, irq, flagVars, keyVars>>

\* Send the next byte, if any.
SendFrom(bytes) ==
  IF bytes = <<>> THEN Tail(commands)
  ELSE WithTop([bytes |-> bytes, at |-> "send", retries |-> Retries])

\* Mutant of AwaitReply: no KBD_TIMEOUT.
AwaitReplyForever ==
  /\ Running("reply")
  /\ \/ /\ acknowledge
        /\ commands' = SendFrom(Tail(Top.bytes))
     \/ /\ ~acknowledge /\ resend /\ Top.retries > 0
        /\ commands' = WithTop([Top EXCEPT !.at = "send", !.retries = @ - 1])
     \/ /\ ~acknowledge /\ resend /\ Top.retries = 0
        /\ commands' = SendFrom(IF Head(Top.bytes) = KBD_CMD_ENABLE THEN <<>>
                                ELSE <<KBD_CMD_ENABLE>>)
  /\ UNCHANGED <<deviceVars, obf, ibf, irq, flagVars, keyVars>>

\* Mutant of AwaitReply: the tries are not limited.
AwaitReplyUnlimited ==
  /\ Running("reply")
  /\ \/ /\ acknowledge
        /\ commands' = SendFrom(Tail(Top.bytes))
     \/ /\ ~acknowledge /\ resend
        /\ commands' = WithTop([Top EXCEPT !.at = "send", !.retries = @ - 1])
     \/ /\ ~acknowledge /\ ~resend
        /\ commands' = SendFrom(IF Head(Top.bytes) = KBD_CMD_ENABLE THEN <<>>
                                ELSE <<KBD_CMD_ENABLE>>)
  /\ UNCHANGED <<deviceVars, obf, ibf, irq, flagVars, keyVars>>

\* and wait for the reply.  Interrupts are closed, so that it is there now or
\* will not be before KBD_TIMEOUT.  pckbd_leds sends the next byte, or enables
\* the keyboard again if there was no reply or there were too many requests to
\* send again.
AwaitReply ==
  /\ Running("reply")
  /\ \/ /\ acknowledge
        /\ commands' = SendFrom(Tail(Top.bytes))
     \/ /\ ~acknowledge /\ resend /\ Top.retries > 0
        /\ commands' = WithTop([Top EXCEPT !.at = "send", !.retries = @ - 1])
     \/ /\ ~acknowledge /\ (resend => Top.retries = 0)
        /\ commands' = SendFrom(IF Head(Top.bytes) = KBD_CMD_ENABLE THEN <<>>
                                ELSE <<KBD_CMD_ENABLE>>)
  /\ UNCHANGED <<deviceVars, obf, ibf, irq, flagVars, keyVars>>

pckbd_leds ==
  \/ SendData \/ KbWaitRead \/ KbWaitStatus \/ KbWaitEmpty \/ KbWaitTimeout
  \/ WriteOutput \/ AwaitReply

-----------------------------------------------------------------------------
(* The keyboard and its controller (external).                              *)

deviceRest == <<flagVars, keyVars, commands>>

\* The bytes of a key: those behind the prefix have a byte for it.  A reply never
\* comes between the two.
CodesOf(k, up) ==
  IF k \in {"ctrlr", "altgr"}
    THEN <<E0, Byte(IF k = "ctrlr" THEN "ctrl" ELSE "alt", up)>>
    ELSE <<Byte(IF k = "ctrll" THEN "ctrl" ELSE k, up)>>

Transmit(bytes) ==
  /\ Len(wire) + Len(bytes) <= MaxWire
  /\ wire' = wire \o bytes

LocksInFlight ==
  Len(commands) + Cardinality({i \in DOMAIN wire : wire[i] = Byte("caps", FALSE)})
                + Cardinality(obf \cap {Byte("caps", FALSE)})

\* A key that stays down repeats its code.
Press(k) ==
  /\ presses < MaxPresses
  /\ k \in LockKey => LocksInFlight < MaxNest
  /\ presses' = presses + 1
  /\ held' = held \cup {k}
  /\ Transmit(CodesOf(k, FALSE))
  /\ UNCHANGED <<leds, dataNext, obf, ibf, irq, deviceRest>>

Release(k) ==
  /\ k \in held
  /\ held' = held \ {k}
  /\ Transmit(CodesOf(k, TRUE))
  /\ UNCHANGED <<presses, leds, dataNext, obf, ibf, irq, deviceRest>>

\* The next byte enters the output buffer and raises the interrupt.
Deliver ==
  /\ obf = {}
  /\ wire # <<>>
  /\ obf' = {Head(wire)}
  /\ wire' = Tail(wire)
  /\ irq' = TRUE
  /\ UNCHANGED <<held, presses, leds, dataNext, ibf, deviceRest>>

\* The keyboard takes a byte out of the input buffer and answers it.  It asks for
\* a byte again that it received damaged or did not expect.
Receive ==
  \E x \in ibf :
    /\ ibf' = {}
    /\ \/ /\ x = KBD_CMD_SET_LEDS
          /\ dataNext' = TRUE
          /\ Transmit(<<ACK>>)
          /\ UNCHANGED leds
       \/ /\ x = KBD_CMD_ENABLE
          /\ dataNext' = FALSE
          /\ Transmit(<<ACK>>)
          /\ UNCHANGED leds
       \/ /\ x \in Lights /\ dataNext
          /\ leds' = x
          /\ dataNext' = FALSE
          /\ Transmit(<<ACK>>)
       \/ /\ Faulty \/ (x \in Lights /\ ~dataNext)
          /\ Transmit(<<RESEND>>)
          /\ UNCHANGED <<leds, dataNext>>
    /\ UNCHANGED <<held, presses, obf, irq, deviceRest>>

Device == Deliver \/ Receive \/ \E k \in Key : Press(k) \/ Release(k)

Driver == Interrupt \/ pckbd_leds

Next == Driver \/ Device

\* The handler runs to its end, and the interrupt core delivers what is raised.
Fairness == WF_vars(Driver)

Spec == Init /\ [][Next]_vars /\ Fairness

-----------------------------------------------------------------------------
\* The counters of do_shift, which go up and down with single events, agree with
\* the map of keys, whatever was pressed together, repeated, taken for a key by
\* mistake, or pressed where there is no key map.
ModifiersCounted == k_down = CountDown(key_down)

\* When every byte has been handled the driver takes those keys to be down that
\* are, although bytes are read in three places and replies among them.
KeysAgree == wire = <<>> /\ obf = {} => key_down = held

\* A byte in the output buffer always has an interrupt to come or a handler that
\* runs: reading the bytes of others' interrupts in kb_wait loses none.
ByteAnnounced == obf # {} => irq \/ commands # <<>>

\* Every byte is read, in the end.
ByteRead == obf # {} ~> obf = {}

\* The lights show the status of the locks (comment of keyboard.c) once everything
\* is quiet.
LightsShowLocks ==
  /\ wire = <<>> /\ obf = {} /\ ibf = {} /\ ~irq /\ commands = <<>>
  /\ ledstate # LightsUndefined
  => leds = ledflagstate
=============================================================================
