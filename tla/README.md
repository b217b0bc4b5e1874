# L4RTEMS: a verification development

RTEMS runs here as a guest of the Fiasco microkernel: not on a processor but on a
vCPU, a thread whose interrupts are messages and whose interrupt flag is a bit in a
shared page. This directory holds TLA+ modules of the port, configurations that
model-check them with TLC, and proofs that TLAPS checks. `PROJECT.json` maps every
definition to the lines it models and lists the runs, their mutants, the hazards
and the theorems.

## 1. Inventory

The repository has three parts: the **wrapper** `src/l4/pkg/RTEMS_wrapper` (an L4Re
program that loads the RTEMS image, starts the vCPU and serves it), the **CPU port**
`src/cpukit/score/cpu/l4vcpu` (interrupt macros, context switch), and the **BSP**
`src/c/src/lib/libbsp/l4vcpu` (drivers, most of them from RTEMS' pc386). RTEMS
itself (super-core, `irq-generic`, termios) and the kernel are not in the
repository; where the port depends on them they are modelled as external.

| Component | State | Operations | Interacts by | Hard behaviour | What makes it correct |
|---|---|---|---|---|---|
| Virtual interrupt flag: `l4vcpu.h`, `interrupts.h`, `cpu.h`, `cpu.c`, `handler.c` | `vcpu->state`, `saved_state`, `r`, `i.label`, `sticky_flags` | disable/save, restore, flash, open, close, wait, idle; upcall entry, dispatch, resume | kernel upcalls; shared page; a callback into the handler | an interrupt between any two accesses; two ways into one handler; one save area | nothing lost, nothing nested, no region interrupted, the level kept |
| Thread contexts: `cpu_asm.S`, `cpu.h` | stacks and saved registers; `vcpu->r` | context switch, first start of a thread | called by RTEMS, also from handlers | dispatch inside a handler | a handler resumes what it interrupted |
| Timer server: `timer_IPC.cc` | opcode, next deadline, period, receive timeout | start, stop, timeout | IPC calls; triggers an interrupt object | late timeouts, calls that race with them, invalid opcodes | rhythm without drift, never early, no deadline of a timer that goes on running forgotten |
| Clock driver: `l4rtems_ckinit.c` | tick count, handler, attachment | initialise, tick, shut down, nanoseconds since last tick | calls the server; interrupted by it | coalescing interrupts, ticks before the start call returns, ticks during the shutdown | time never ahead, no tick unaccounted, quiet at the end |
| Interrupt objects: `wrapper_1.cc`, `irq.c` | `irqCaps`, capability slots, bound lines | request, detach; vector enable/disable; what is left of the 8259 | called by the vCPU and by the main thread; I/O server | each request can fail half way; `find()->second` unchecked; slots run out | an attached object is the recorded one; a disabled line is silent |
| Boot of the wrapper: `wrapper_1.cc`, `res.c` | the image, the start state of the vCPU | load, map, start | starts the vCPU, then records the timer | the vCPU runs before the timer is recorded | — |
| Log console: `l4rtems_inoutchar.c`, `l4rtems_console.c`, `l4rtems_io.cc` | one static line buffer | put, get | threads and handlers print | not reentrant, unbounded index | nothing holds (section 6) |
| Keyboard: `pc_keyb.c`, `keyboard.c`, `inch.c` | acknowledge flags, translation state, shift counters, ring buffer | interrupt, command, translate, read | interrupt against readers | forged acknowledge, the handler entered inside itself, lock-free buffer | the keys it takes to be down are down, no byte is left unread, the buffer is a queue |
| PS/2 mouse: `ps2_mouse.c` | queue, open count, expected replies | open, release, interrupt, read | shares the controller | reply counting against the interrupt | not modelled (section 6) |
| UART: `uart.c`, `tty_drv.c` | line set-up, flow control flags, held character | open, close, write, set attributes, interrupt | termios; a 16550 and the peer | interrupts between the steps of open and of the attributes; held character; buffer of the interrupt routine | characters leave once and in order; every character that arrives is delivered or accounted for; output does not stop |
| GDB stub: `i386-stub.c`, glue | packet buffers, saved registers, fault routine | get and put packets, read and set, step, continue | serial line; exceptions | lost and damaged bytes, repeated packets, accesses that fault | what gdb is told is so; a command is obeyed once; no exception vanishes |
| IDT: `idt.c`, `irq_init.c`, `irq_asm.S` | raw handler table | connect, disconnect | — | ownership of an entry | not modelled: never entered on a vCPU |
| IDE: `ide.c` | registers of the disk | probe, read, write blocks | polling | bounded polling loops | not modelled: sequential |
| Screen: `outch.c`, `vt.c`, VGA files | cursor, tables | output, ioctl | — | none concurrent | not modelled |
| PCI, CPU support, benchmark timer, boot of the BSP | — | — | — | privileged code that the vCPU cannot run, fixed sequences | not modelled |

The hazards these components are exposed to are listed in `PROJECT.json` at the
lines where they bite, with the properties that watch them, or with a note that says
why none does.

## 2. Plan

1. `VcpuIrq`, `IrqDelivery`: the interrupt core and what it promises. *Done, proved.*
2. `TimerServer`, `ClockTick`: time; the second composes the server with the clock
   driver. *Done, proved.*
3. `VcpuThreads`: dispatch inside handlers. *Done; the code fails the property.*
4. `IrqCaps`: interrupt objects and vectors. *Done, proved.*
5. `Keyboard`: controller acknowledges, scan codes and shift state. `KeyRing`: the
   ring buffer as the implementation of the bounded queue `CharQueue`. *Done, proved.
   Left: the other lock keys, raw mode, a second reader.*
6. `Uart`: the interrupt routine and termios; abstract specification of the output:
   `CharQueue` again. *Done, proved.*
7. `GdbStub`: the packet protocol over a line that loses and damages bytes, and the
   stub's own faults. *Done, proved.*

What is left is in section 7; none of it is a component with concurrency that the
modules do not contain, but for the mouse, whose driver and the keyboard's drop each
other's bytes.

Every safety property that a passing run checks is proved, and so are the two
refinements of `CharQueue` and the safety part of that of `IrqDelivery`. What would be
worth proving next is what holds in place of the properties the code fails: the lights
of the keyboard when no key interferes, and threads that are switched only outside
handlers. Modules with theorems declare no `RECURSIVE` operator.

## 3. The modules

### `IrqDelivery` — what the port promises about interrupts
Three variables: interrupts raised, the one being served, whether the program has
masked interrupts. An interrupt is accepted only when none is served and the
program is not masked; under its fairness every raised interrupt is accepted.

### `VcpuIrq` — the interrupt core
The guest is a stack of *frames*: frame 1 is thread code; an upcall (the kernel
starts `l4rtems_handler`) or a callback (`l4vcpu_wait` calls `l4rtems_irq_handler`)
puts a frame on top. Each frame has a program counter, the interrupt-free regions
it is in and the level each saved.

| Variable | Code |
|---|---|
| `state`, `savedState`, `resumeTo`, `trapno`, `label` | `vcpu->state`, `saved_state`, `r` (as the frame it belongs to), `r.trapno`, `i.label` |
| `pending` | messages the kernel has queued; `sticky_flags & IRQ_PENDING` is `pending # {}` |
| `pc`, `nest`, `saved`, `after`, `vector` | where a frame is, its nested `_level` variables, its caller, its vector |
| `closed` | thread level called `_CPU_ISR_Set_level(1)`, or the idle wait returned |

Every access to the shared page is an action: `IrqSave` and `IrqDisable` are the two
halves of `l4vcpu_irq_disable_save`; `EnableSet`, `EnableCheck`, `WaitDisable`,
`WaitReceive`, `WaitTimeout` are `l4vcpu_irq_enable` and `l4vcpu_wait`;
`HandlerEntry`, `IrqDispatch`, `UpcallReturn`, `CallbackReturn` are `handler.c`. Kernel
actions (`Fire`, `Trap`, `ResumeReturn`, `ResumeRedeliver`) are external: with `F_IRQ`
set a message makes an upcall, which saves the state word and clears it, and without
it the message is queued; a resume into open code with messages queued becomes a new
upcall. Handlers are assumed to nest their regions properly and to return with none
open, as RTEMS' macros force by their block structure; thread code opens, closes and
waits only outside regions.

The page-fault branch of `l4rtems_handler` is left out: the wrapper never sets
`F_PAGE_FAULTS`, so faults go to the pager and not to the vCPU. Other exceptions are
`Trap`: reported and resumed.

Properties: `OneHandler`, `SaveAreaIntact`, `NoLostIrq`, `LevelKept`,
`RegionsNotInterrupted` (safety), `PendingDispatched` (liveness), `DeliverySpec`
(refinement of `IrqDelivery`: `raised` is `pending`; `serving` is the label handed over
or dispatched; `masked` says that thread code is in a region or closed, and not in
the part of a macro that opens).

Fairness: straight-line code proceeds at each level of the stack, for a frame that
gets to run again and again (strong, as exceptions and interrupts may come before any
instruction: they do not recur for ever before the same one); regions end, handlers
return, and a thread that closed interrupts opens them or waits (strong); the
kernel's queue passes no message over (strong; it is a queue). A processor gives the
first; the others are what RTEMS asks of its users, and without them no interrupt
flag can promise delivery.

### `VcpuThreads` — threads and the one save area
`l4rtems_irq_handler` calls the handlers of a vector directly. `_ISR_Handler` of
`irq_asm.S`, which would raise `_Thread_Dispatch_disable_level`, is never entered on a
vCPU, so `rtems_clock_tick` may switch threads inside the handler. The other thread
opens interrupts and is interrupted, which overwrites `vcpu->r` and `saved_state`;
when the first handler resumes, it resumes the other thread's registers on its own
behalf. `ResumesInterrupted` fails in seven states. `VcpuIrq` does not contain this
step: its frames are those of one thread, and its results hold for runs in which
handlers do not dispatch.

### `TimerServer` — `timer_IPC.cc`
Variables are the fields of `L4rtems_timer`, the receive timeout, the message of the
one blocked caller, the clock, the interrupt object (`triggered`: it holds one
message), and two history variables (the first deadline of the last start and the
triggers since). `Dispatch*` are the branches of `dispatch`, `Retimeout*` those of
`retimeout`. Time is a clock that may stop or run ahead of the server by any amount.
Clients are arbitrary: they send starts with any period and delay, stops, invalid
opcodes and messages of other protocols.

An invalid opcode becomes the state before it is refused (`timer_IPC.cc:153`), so a
running timer that gets one forgets its deadline: `RetimeoutUndefined` and
`RetimeoutStopped` put the server to sleep without a trigger. `DeadlineKept` therefore
excuses it as it excuses a stop; what it excludes is that a deadline is lost to late
timeouts, to messages of other protocols, or to calls that leave the timer running.
`Settles` is about what the invalid opcode leaves behind: left alone, the server sleeps.

Fairness: the server answers (weak) and reacts to a timeout although calls keep coming
(strong). The wrapper runs the server at a higher priority than the vCPU, so after an
answer it waits with its timeout again before the vCPU can make the next call.

### `ClockTick` — the clock driver on the timer server
Extends `TimerServer`; the server's actions are used unchanged, the clients become
the driver: install the handler, attach (an error is only printed), start, count
ticks, remove the handler, stop, detach. `coalesced` counts the triggers that found
the object still triggered.

### `IrqCaps` — interrupt objects and vectors
`irqCaps` is the wrapper's map, `used` the capability slots taken (none is ever given
back), `held` the I/O server's binding of lines, `label` the kernel's attachments.
Requests fail at each of their three steps and leave behind what the code leaves
behind. `irqCaps.find(v)->second` without an entry reads behind the map: `Found` then
is any slot in use, or none. For vector 0 that is what happens when the clock driver is
quicker than the main thread's insert; `Recorded` speaks of the device lines and says
nothing of it. Callers are `irq-generic` (external: the first handler of
a chain enables its vector and stays chained if that fails, the last one disables it)
and the two functions that took the place of the 8259's, for any vector at any time.
The main thread's `startTimerService` runs beside the vCPU, as in the code. Calls are
one step each: they run with interrupts closed, and the one other user of the map
makes one insert. (An insert that tears a concurrent lookup is not modelled.)

### `CharQueue`, `KeyRing` — the keyboard buffer
`CharQueue` is a queue of bounded length that refuses a character only when it is
full. `KeyRing` is `inch.c`: `add_to_queue` is one step (it runs in the handler, with
interrupts closed), `getch` and `_IBMPC_chrdy` are three, `ReadTest`, `ReadLoad` and
`ReadAdvance`, without a lock. `Contents` reads the queue out of the ring and is the
refinement mapping of `QueueSpec`. The model has one reader, as the functions are meant to be
used: with two, a character could be returned twice, and nothing in them prevents it.

### `Keyboard` — controller and keys
| Variable | Code |
|---|---|
| `reply_expected`, `acknowledge`, `resend`, `prev_scancode`, `key_down`, `k_down`, `ledflagstate`, `ledstate` | the static variables of these names; `shift_state` is what `k_down` says |
| `commands` | the calls of `pckbd_leds` in progress, the innermost first, with the place in `send_data` and `kb_wait` each has reached |
| `obf`, `ibf`, `irq` | the controller's output and input buffer and its interrupt |
| `held`, `wire`, `leds`, `dataNext` | the keyboard (external) |

A byte is handled in one step: `Interrupt` and `KbWaitRead` both take it through
`ReadByte`, which is `handle_kbd_event`, `do_acknowledge`, `handle_scancode`,
`pckbd_translate` and the handler of the key. `CapsLock` starts `pckbd_leds` from inside
the handler; its waits are steps of their own, in which keyboard and controller go on
and in which the handler is entered again. Everything runs with interrupts closed, so
that `AwaitReply` sees what `kb_wait` left in the flags or times out. A byte in the
output buffer is a scan code or one of the replies, which are codes of keys as well
when nobody expects them. The keyboard is assumed to send a release only for a
key that was pressed and to keep the two bytes of a prefixed key together. With
`Faulty` it may ask for any byte again and leave a byte in the input buffer for longer
than `KBC_TIMEOUT`.

Fairness: the handler runs to its end and raised interrupts are delivered (weak, on
the driver's steps). Nothing is assumed of the keyboard.

### `Uart` — a serial port under termios
| Variable | Code |
|---|---|
| `uart_data`, `stopped`, `tx_active`, `hold` | `uart_data[]`, `termios_stopped_*`, `termios_tx_active_*`, `termios_tx_hold_*` with its valid flag (`NoChar`: not valid) |
| `port` | which of the two copies of the code runs; they are separate disjuncts of `Next` |
| `isr`, `buf` | where `BSP_uart_termios_isr_*` is, by the cause it read last; its buffer |
| `attr` | where `BSP_uart_set_attributes` and the `BSP_uart_init` in it are; the IER saved |
| `opener`, `opens`, `handler` | a thread between the two calls of `tty*_open`; termios' count; whether `tty*_last_close` has removed the handler |
| `raw` | termios' output queue, with the character being sent (external) |
| `IER`, `DLAB`, `thr`, `thri`, `rx`, `flagged`, `OE`, `CTS`, `DCTS` | the 16550 (external): what each register access does to it is written from its use |

The interrupt routine is one action per turn of its loop, so that characters arrive
and leave in between; threads do not run inside it. `Puts` is `rtems_termios_puts` with
the device's write, with interrupts closed; opening is two actions and setting the
attributes seven, as the code leaves interrupts open. `failed` says that an assertion
of the driver has failed. Characters that arrive are numbered, so that order and loss
can be told.

`Quiet` confines setting attributes to a line at which nothing is under way and
`FastLine` lifts the bound on what one interrupt brings (at most `BufSize` characters,
40 in the code, before the routine finds the line idle). The run with `Quiet` shows
what the driver keeps, the run without it shows that the restriction is needed.

Properties: `AssertionsHold`, `InputAccounted`, `TransmitKept` (safety), `OutputSpec`
(refinement of `CharQueue`: the characters written and not yet transmitted are a
bounded queue), `OutputDrains` (liveness).

Fairness: the interrupt routine is entered and goes on; a thread finishes an open and
the attributes it sets; the transmitter sends (all weak). Nothing is assumed of the
peer: `OutputDrains` asks for CTS to stay on, or there is nothing to show.

### `GdbStub` — the remote debugging stub
| Variable | Code |
|---|---|
| `pc`, `next` | guest running, `putpacket`, `getpacket` (before and behind `$`), an access to memory; where `putpacket` returns to |
| `remcomInBuffer`, `remcomOutBuffer`, `cmd` | the packet read, the reply, the command in it |
| `registers`, `trace`, `memory` | the saved registers, the trace flag, the guest's memory |
| `mem_fault_routine`, `mem_err` | the variables of these names |
| `toStub`, `toHost`, `faults` | the line (external), what was lost or damaged on it |
| `host`, `asked`, `answer` | gdb (external), as the stub's protocol expects it |

A packet is three bytes: start, contents, end; the end stands for `#` and a checksum
that always tells. `handle_exception` is split at the places where it reads a byte:
`ObeyAtOnce`, `ObeyResume` and `ObeyMemory` with `Access` or `MemFault` are its commands.
What it sends it sends in one step, since it waits for nothing while it sends.
gdb repeats a command that is not acknowledged, asks for a reply again after a
silence, acknowledges and drops a packet that comes instead of an acknowledge, and may
break in. While the guest runs, the interrupt routine eats what arrives.

Properties: `ObeyedOnce`, `AnswerHolds`, `ExceptionsReported` (safety),
`CommandArrives` (liveness). Fairness: the stub polls the line; gdb reads it and repeats
(weak). No fairness of the line is needed, as `MaxFaults` bounds its faults.

### MC modules
`MCVcpuIrq`, `MCVcpuThreads`, `MCIrqCaps` and `MCUart` give sets their values;
`TimerServer`, `ClockTick`, `KeyRing`, `Keyboard` and `GdbStub` are instantiated by their
configurations.

## 4. Runs

| Run | Bounds | Shows |
|---|---|---|
| `vcpu` | 2 interrupts, regions 2 deep, 4 frames, exceptions | type invariant, the five safety properties, `PendingDispatched`, and the refinement of `IrqDelivery` with its fairness. The theorem `TypeCorrect` shows that 3 frames suffice: the 4th is never used. Two interrupts are enough for one to be served while the other is queued; two levels for an inner and an outer region |
| `threads` (violation) | 2 threads, 3 frames each | `ResumesInterrupted` fails, see above |
| `timer` | periods 1 and 2, delays 0, 1 and 3, clock 0 or 1 to 6 | rhythm, earliness, deadlines, settling, with restarts in mid-rhythm, bursts of late deadlines, and stops and invalid operations, either of which loses the deadline that has passed |
| `clock` | period 2, clock to 9: four deadlines | the clock's safety and liveness properties |
| `clock_nanoseconds` (violation) | as `clock` | `NanosecondsSinceTick` fails when the timer starts at an odd clock value: the code uses the absolute clock |
| `irqcaps` | 2 lines and the clock, 4 slots, 2 handlers per chain | attached objects are recorded, disabled lines silent, in spite of partial failures and lookups behind the map; 4 slots are used up by the clock and three requests |
| `keyring` | 4 places, 2 characters | the type invariant, and the ring implements `CharQueue`; wrapping, full and empty are all met, and two characters tell the order |
| `keyboard` | 4 keys (two of one modifier, one behind the prefix, CapsLock; shift with AltGr has no map), 3 presses or repetitions, 2 bytes under way, 2 nested commands, 1 retry, faults | modifiers, keys and bytes, see `Keyboard`. Two nested commands are enough for the inner one to disturb the outer one at each of its places |
| `keyboard_leds` (violation) | 2 keys, no faults | `LightsShowLocks` fails: a key pressed after CapsLock leaves its light off |
| `uart` | both ports, one with flow control; 2 characters to write, 2 places for output, 2 in the receiver, 2 in `buf`; 3 characters arrive; one open; attributes at a quiet line | the driver's assertions, input, output queue and liveness. Two characters tell the order, the third to arrive overruns a full receiver; a damaged character may come at each place |
| `uart_attributes` (violation) | as `uart`, attributes at any time | `AssertionsHold` fails: the interrupt routine reads the divisor for characters until `buf` is full |
| `gdb` | 2 values, 2 addresses of which one faults, packets of 3 bytes kept, 9 bytes in each direction, 1 byte lost or damaged | the protocol's safety and liveness. Nine bytes hold a packet sent three times, as a repetition, a reply and an acknowledge meet; the one fault may hit any byte of a command, a reply or an acknowledge, and is followed by as many good ones as the repetition needs |

The bounds on the clock and on the counters appear as guards (`MaxClock`, `MaxNest`,
`MaxFrames`, `MaxDepth`, `MaxHandlers`, `MaxWire`, `MaxPresses`, `MaxIn`, `MaxOpens`, `MaxLine`,
`MaxFaults`) and nowhere else. `OutSize`, `Depth`, `BufSize`, `BUFMAX` and `KBD_BUF_SIZE` are
sizes of the code's buffers, made small. Symmetry is used in the `irqcaps` run only,
which checks no liveness. Deadlock is checked in every run but those of `Keyboard`,
where nobody may press a key any more, and of `Uart`, where everything may be written,
received and closed, or an assertion may have stopped the program.

## 5. Proofs

All theorems hold for every value of the constants under the assumptions named in
the modules: `IrqAssumption`, `BoundsAssumption`, `TrapsAssumption` (`VcpuIrq`);
`PeriodAssumption`, `FirstAssumption`, `ClockAssumption`, `TickAssumption`
(`TimerServer`, `ClockTick`); `VectorAssumption`, `ObjectAssumption`,
`HandlersAssumption` (`IrqCaps`); `SizeAssumption`, `CharAssumption` (`KeyRing`);
`KeyAssumption`, `BoundAssumption` (`Keyboard`); `CharAssumption`, `LinesAssumption`, `SettingsAssumption`, `SizeAssumption` (`Uart`);
`BadAssumption`, `BoundsAssumption` (`GdbStub`).

**`VcpuIrqProofs`.** The safety properties are not inductive: that no handler is
interrupted follows from the level every frame saved. `Inv` adds the shape of the
stack (`StackShape`: a callback is called from thread level only, an upcall is on
top, a third frame is an exception in a callback's handler), what handler frames have
saved (`HandlerData`: never an open level), that everything above thread level runs
closed (`HandlersClosed`), that only the outermost region of thread code can have
saved an open level (`SavedLevels`), and what the flag is at each place of the
thread code (`ThreadLevels`). One lemma per action shows that `TypeOK /\ Inv` is kept;
`Invariance` follows, and from it `TypeCorrect`, `HandlersExclusive`, `SaveAreaKept`,
`NothingLost`, `LevelsKept`, `RegionsKept`. `Refinement` (`Spec => Delivery!Spec`) maps
each action to the abstract step it takes or to a stutter.

**`ClockTickProofs`.** For the server `TypeOK /\ NoDrift /\ NeverEarly` is inductive
with two lemmas on multiples of a period (`TimerKeepsTime`, and from it
`TimerTypeCorrect` and `TimerNeverEarly`). `ClockUsesTimer` shows
that driver and server together are a behaviour of the server, so its theorems carry
over. `ClockInv` says what the server does at each place of the driver (before the
start call is answered, between the calls, after the stop call); `ClockTypeCorrect`,
`NoTickVanishes`, `TimeNotAhead` and `QuietAfterShutdown` follow.

**`IrqCapsProofs`.** `Inv` is `Recorded`, `Bound` (a recorded line is bound to the
recorded object, so a request that is granted finds no stale entry for `insert` to
keep) and `Forgotten` (a line nobody asks for has no entry). The lookup behind the map
is harmless to it because the slot it yields is detached or released only where that
breaks no record. `TypeCorrect`, `AttachedIsRecorded` and `DisabledIsSilent` follow.

**`KeyRingProofs`.** `RingTypeOK /\ ReaderAhead` is inductive: between the test and the
increment the buffer stays non-empty and the character loaded stays the first one,
because the handler never writes a place that is in use. Three lemmas on the places of
the ring (`Places`, `PlacesAfterPut`, `PlacesAfterTake`) carry the arithmetic; with them
`RingIsQueue` maps a put to `Accept` or `Refuse`, the increment to `Take`, and the
other steps of the reader to stutters.

**`KeyboardProofs`.** `KeysAgree` speaks of the moment when every byte has been read and
`ModifiersCounted` of single events, so neither says what a byte on its way will do. The
invariant's part `KeysFollow` does: from the keys the driver takes to be down a path
leads to the keys that are held, one set of keys before and one after each byte not yet
read. A key that is pressed, repeated or released and a reply, also one that nobody
expects, extend the path at its end, and `ReadByte` takes its first step, wherever it is
called from; that a release on the path is one of a key that is down
keeps the counters from going below zero. `Raised` (a byte in the output buffer has its
interrupt raised) is stronger than `ByteAnnounced`. From `IInv` follow `TypeCorrect`,
`ModifiersAreCounted`, `KeysAreAgreed` and `BytesAreAnnounced`.

**`UartProofs`.** `TypeCorrect` holds for every line, also if attributes are set while
interrupts come. It rests on `TypeInv`: what `BSP_uart_set_attributes` has saved has a
shape of its own, and a routine that saw data available finds a character there.
`QuietAssertions` assumes `GentleLine` (attributes at a quiet line, no more
characters in one interrupt than `buf` holds) and nothing of the number of opens. Its
invariant `QuietInv` relates the transmitter to termios: nothing is written but to an
empty transmitter, since an interrupt that is due, a held character and a character in
the holding register exclude each other and each of them stands for the one being sent
(`Sending`); what was read and what waits fits in `buf` (`Room`); nothing is under way
while attributes are set (`Alone`, `DivisorOnly`).

**`UartQueueProofs`.** Input (`InputInv`): what has been delivered, what is in `buf` and
what is in the receiver are one sequence in order (`InOrder`). The loss has to be counted
ahead (`LossBounded`): a damaged character still in the receiver, and an overrun that the
line status still reports, count as lost already, because `uartError` will drop a
character for each; that it runs only for an error that is there is `ErrorThere`.
`InputIsAccounted` needs `GentleLine` and no bound on opens. Output (`SendInv`): the
transmitter, the held character and the interrupt stand for the first character of
termios' queue (`FirstOnly`, `UnderWay`) and the interrupt is enabled while the driver
believes it is sending (`Enabled`). `TransmitIsKept` and `OutputIsQueue` (`Spec =>
OutputSpec`, each action a step of `CharQueue` or a stutter) assume `GentleLine` and
`MaxOpens <= 1`: a second open loses the held character and the interrupt (section 6),
so that both are false without it (`OpenFirst`: what is opened has nothing to send).

**`GdbStubProofs`.** `RoutineGuarded`: the fault routine is set during an access and
only then, and an access starts without an error. It is inductive: `ObeyMemory` clears
the error, and `Access` and `MemFault` are the ways out of an access and both clear the
routine. `GuestExceptionsReported` follows, whatever the line does to packets.
`TypeCorrect` rests on `TypeInv`: bytes on the line were sent by one of the two or are
junk, and a packet being read leaves room in `remcomInBuffer`. So the bytes of a packet
fit, and so does the NUL behind one that ends with `#`; the NUL behind one that fills the
buffer is not in the model (section 6), and the theorem does not speak of it. (`MaxLine` must not be 0,
since `set_debug_traps` has sent its `+`; the proof of the initial state showed it.)

`CommandObeyedOnce` and `AnswersAreTrue` share `ObeyInv`. Its `Accounts` are about the
line: there is one command or one acknowledge for it and never both (`OneOutstanding`),
none unless gdb waits for it (`OnlyAsked`), and what is owed (`Paid`): when gdb has no
acknowledge to come, or one that a packet cut short may take along, every time the
command was obeyed has been paid for by a byte spoilt. Its `Beliefs` are about what is
said: once the command has been obeyed every packet behind its acknowledge, and the one
`putpacket` would send again, carries a true answer (`Replies`), and while an access is
under way there is no packet there that it could make untrue (`Accessing`). Three kinds
of lemmas carry the sequences: what a line that is thinned out (read from the front,
damaged, emptied) keeps, what a joined line holds, and what the packets sent are. Any
number of faults, any length of the line and any number of commands are covered; the
run has one fault and 9 bytes.

The inductive invariants (`Inv` of `VcpuIrq` and of `IrqCaps`, `ReaderAhead` of `KeyRing`,
`IInv` of `KeyboardProofs`, `InputInv` and `SendInv`, `ObeyInv`) are proved and appear in no
run.

Only model-checked: every liveness property (`PendingDispatched`, `DeadlineKept`,
`Settles`, `TickAnnounced`, `CallsReturn`, `ByteRead`, `OutputDrains`, `CommandArrives`);
the fairness part of the refinement `DeliverySpec`, whose safety part is `Refinement`; and
the violations. Liveness under fairness is out of the prover's reach.

## 6. What the code does not keep

* **Dispatch inside handlers** (`threads`): see `VcpuThreads`.
* **Nanoseconds since the last tick** (`clock_nanoseconds`): the comment promises the
  difference to the last tick; the code returns the absolute clock modulo the period.
* **The lights of the keyboard** (`keyboard_leds`): commands are sent from inside the
  interrupt handler, with interrupts closed, and rely on the acknowledge that
  `handle_kbd_event` forges when `kb_wait` finds no byte. A key that arrives just then
  prevents the forgery; `send_data` gives up, `ledstate` already holds the new lights, and
  they stay wrong until a lock key is pressed again.
* **Attributes of a serial port** (`uart_attributes`): `BSP_uart_init` switches the data
  register to the divisor while the port's interrupts are enabled. A routine entered
  there reads the divisor for a character that stays available, and `assert(off <
  sizeof(buf))` fails, or without assertions the buffer is overrun.

Read while modelling, without a run:

* *Serial port, damaged characters.* `DamagedEaten` of `Uart` is checked by no run because
  it fails: the assertion of `BSP_uart_termios_write_*` (`uart.c:585`) reads the line
  status register, which takes back the error reported there; the damaged character is
  then delivered like any other, although `uart.c:726` says "RX error: eat character". To
  see it, add `DamagedEaten` to the invariants of `MCUart.cfg`.
* *Serial port, opening again.* `tty1_open` sets the port up at every open, not only at
  the first: output under way loses its held character and its interrupt. With
  `MaxOpens = 2` the runs' `TransmitKept` and `OutputDrains` fail; types, assertions and
  `InputAccounted` hold. After the last close the interrupt handler is gone for good,
  since only `tty1_initialize` installs it.
* *Serial port, attributes.* With `Quiet = FALSE` there is more than the divisor:
  the IER saved may be out of date when it is restored, emptying the FIFOs drops
  characters, and reading the modem status may take a change of CTS from the routine.
* *GDB stub.* A buffer filled without a `#` is compared with a checksum that was never
  read (-1), so that contents with checksum 255 are accepted, and the byte that ends it
  lies behind `remcomInBuffer` (`i386-stub.c:498` stores at `buffer[BUFMAX]`). The model
  throws such a packet away and leaves the store out. A command to continue whose
  acknowledge is lost is repeated into a guest that runs and eats it; hence the second
  half of `CommandArrives`.
* *Enabling a line.* The comment in `irq.h` promises that an enabled line is propagated;
  failures of the request are dropped. A line whose attach failed stays bound and
  cannot be enabled again, and slots are never given back.
* *Keyboard.* `setledstate` always ends with `LED_SHOW_FLAGS` (`keyboard.c:779-787`, an
  `else` with an empty body), so that the second of the three display modes its
  comment lists cannot be entered that way; the release of a key whose press was lost
  counts as a press if its code is high, right Ctrl and AltGr included
  (`pckbd_unexpected_up`). The ioctls of `vt.c` recompute shift states and send lights
  from threads with interrupts open: a shift pressed inside `compute_shiftstate` is
  counted twice, and a CapsLock pressed inside the read-modify-write of the flags is
  lost.
* *Mouse and keyboard.* Each driver's handler reads the controller's one data register
  and drops the bytes of the other device (`pc_keyb.c:354`, where passing them on is
  compiled out, and `handle_kbd_event` of `ps2_mouse.c`). `paux_initialize` opens the
  device even if there is no mouse and no queue was allocated.
* *IDT.* `i386_set_idt_entry` looks at the current handler before it closes interrupts
  (`idt.c:89`), so that two threads can both connect.
* *Log console.* One static buffer and index for threads and handlers: an interrupt
  between store and increment loses a character.

## 7. Not modelled

* The log console, the mouse, the IDT and the IDE driver, for the reasons in sections 1
  and 6: nothing protects the first, the second cannot work beside the keyboard, the
  third is never entered on a vCPU, the fourth polls one disk in one thread.
* PCI BIOS, screen, benchmark timer, CPU support and the boot of the BSP: fixed
  sequences, tables, or privileged code that a vCPU cannot run.
* `Keyboard`: raw modes, the lock keys other than CapsLock, dead keys and key strings,
  Pause, the ioctls of `vt.c`, a second reader of the ring.
* `Uart`: `TERMIOS_TASK_DRIVEN`, which `tty_drv.c` is built without; throttling and
  `BSP_uart_set_baud`, which nobody calls; the input handler of a serial mouse.
* `GdbStub`: sequence identifiers, malformed commands and the switch `d`, none of which gdb
  sends; registering its handlers.
* The floating point and SSE context; loading the image and mapping memory; the text of
  messages; the kernel's scheduler.

The 32-bit width of the clock in `l4rtems_timer_read` is in the model (`WordSize`), but
the run for nanoseconds fails before it matters. Timer period 0, which the benchmark
timer asks for, is outside `PeriodAssumption`: the server would trigger without end.
