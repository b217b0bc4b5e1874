----------------------------- MODULE ClockTick -----------------------------
(***************************************************************************)
(* The RTEMS clock driver (l4rtems_ckinit.c) on top of the wrapper's timer *)
(* server: it attaches the vCPU to the timer's interrupt object and starts *)
(* the timer, and its interrupt handler counts the ticks.  The driver runs *)
(* on the vCPU, the server on a thread of its own, and between them are    *)
(* the calls and the interrupt object, which holds one message at most.    *)
(***************************************************************************)
EXTENDS TimerServer

CONSTANTS
  TickPeriod,  \* rtems_configuration_get_microseconds_per_tick()
  WordSize     \* 2^32: l4rtems_timer_read returns an unsigned int

ASSUME TickAssumption == TickPeriod \in Period /\ WordSize \in Nat \ {0}

VARIABLES
  driver,              \* where the driver is
  handler,             \* l4rtems_clockisr is installed for the vector
  attached,            \* the vCPU is attached to the interrupt object
  Clock_driver_ticks,
  isrClock,            \* history: the clock when the handler last ran
  coalesced            \* history: triggers that found the object triggered

driverVars == <<driver, handler, attached, Clock_driver_ticks, isrClock>>
clockVars  == <<vars, driverVars, coalesced>>

Driver == {"off", "enable", "start", "starting", "on", "fatal",
           "stop", "stopping", "detach", "down"}

ClockTypeOK ==
  /\ TypeOK
  /\ driver \in Driver
  /\ handler \in BOOLEAN
  /\ attached \in BOOLEAN
  /\ Clock_driver_ticks \in Nat
  /\ isrClock \in Nat
  /\ coalesced \in Nat

ClockInit ==
  /\ Init
  /\ driver = "off"
  /\ handler = FALSE
  /\ attached = FALSE
  /\ Clock_driver_ticks = 0
  /\ isrClock = 0
  /\ coalesced = 0

\* The parts of the driver that run with interrupts disabled: the bodies of
\* bsp_interrupt_vector_enable and bsp_interrupt_vector_disable.
Disabled == driver \in {"enable", "stop", "stopping", "detach"}

-----------------------------------------------------------------------------
(* The driver on the vCPU. *)

\* Clock_driver_support_initialize_hardware: the handler is entered in the
\* table, or the system stops.
InstallHandler ==
  /\ driver = "off"
  /\ Clock_driver_ticks' = 0
  /\ \/ handler' = TRUE /\ driver' = "enable"
     \/ handler' = FALSE /\ driver' = "fatal"
  /\ UNCHANGED <<vars, attached, isrClock, coalesced>>

\* bsp_interrupt_vector_enable, l4rtems_requestIrq(0): an error of the attach
\* is printed, and the request succeeds all the same.
RequestIrq ==
  /\ driver = "enable"
  /\ attached' \in BOOLEAN
  /\ driver' = "start"
  /\ UNCHANGED <<vars, handler, Clock_driver_ticks, isrClock, coalesced>>

\* l4rtems_timer_start(period, FIRST_TICK_OFFSET)
StartMessage ==
  [proto |-> TRUE, op |-> "START", first |-> 0, period |-> TickPeriod]

TimerStart ==
  /\ driver = "start"
  /\ Send(StartMessage)
  /\ driver' = "starting"
  /\ UNCHANGED <<handler, attached, Clock_driver_ticks, isrClock, coalesced>>

StartReturn ==
  /\ driver = "starting"
  /\ request = {}
  /\ driver' = "on"
  /\ UNCHANGED <<vars, handler, attached, Clock_driver_ticks, isrClock,
                 coalesced>>

\* Clock_driver_support_shutdown_hardware takes the handler out of the table;
\* that was the last one, so the vector is disabled ...
RemoveHandler ==
  /\ driver = "on"
  /\ handler' = FALSE
  /\ driver' = "stop"
  /\ UNCHANGED <<vars, attached, Clock_driver_ticks, isrClock, coalesced>>

\* ... by l4rtems_detachIrq(0): l4rtems_timer_stop ...
StopMessage == [proto |-> TRUE, op |-> "STOP"]

TimerStop ==
  /\ driver = "stop"
  /\ Send(StopMessage)
  /\ driver' = "stopping"
  /\ UNCHANGED <<handler, attached, Clock_driver_ticks, isrClock, coalesced>>

\* Mutant of StopReturn: the driver does not wait for the server's answer.
StopReturnEarly ==
  /\ driver = "stopping"
  /\ driver' = "detach"
  /\ UNCHANGED <<vars, handler, attached, Clock_driver_ticks, isrClock,
                 coalesced>>

StopReturn ==
  /\ driver = "stopping"
  /\ request = {}
  /\ driver' = "detach"
  /\ UNCHANGED <<vars, handler, attached, Clock_driver_ticks, isrClock,
                 coalesced>>

\* ... and the detach, after which a queued message may be gone or not.
Detach ==
  /\ driver = "detach"
  /\ attached' = FALSE
  /\ triggered' \in {triggered, FALSE}
  /\ driver' = "down"
  /\ UNCHANGED <<clock, request, serverVars, history, handler,
                 Clock_driver_ticks, isrClock, coalesced>>

\* Mutant of ClockInterrupt: the handler runs, the message stays.
ClockInterruptAgain ==
  /\ attached /\ ~Disabled
  /\ triggered
  /\ Clock_driver_ticks < MaxClock
  /\ Clock_driver_ticks' = Clock_driver_ticks + (IF handler THEN 1 ELSE 0)
  /\ isrClock' = IF handler THEN clock ELSE isrClock
  /\ UNCHANGED <<vars, driver, handler, attached, coalesced>>

\* Mutant of ClockInterrupt: the tick is not counted.
ClockInterruptUncounted ==
  /\ attached /\ ~Disabled
  /\ Receive
  /\ isrClock' = IF handler THEN clock ELSE isrClock
  /\ UNCHANGED <<driver, handler, attached, Clock_driver_ticks, coalesced>>

\* The vCPU takes the interrupt and dispatches vector 0: l4rtems_clockisr.
\* Without a handler bsp_interrupt_handler_default reports it.
ClockInterrupt ==
  /\ attached /\ ~Disabled
  /\ Receive
  /\ Clock_driver_ticks' = Clock_driver_ticks + (IF handler THEN 1 ELSE 0)
  /\ isrClock' = IF handler THEN clock ELSE isrClock
  /\ UNCHANGED <<driver, handler, attached, coalesced>>

\* l4rtems_clock_nanoseconds_since_last_tick, with FIRST_TICK_OFFSET = 0
nanoseconds_since_last_tick ==
  (((clock % WordSize) - 0) % TickPeriod) * 1000

-----------------------------------------------------------------------------
(* The timer server, unchanged. *)
ServerStep ==
  /\ Tick \/ Serve \/ Retimeout
  /\ coalesced' = coalesced + (IF triggered /\ fired' = fired + 1 THEN 1 ELSE 0)
  /\ UNCHANGED driverVars

DriverStep ==
  \/ InstallHandler
  \/ RequestIrq
  \/ TimerStart
  \/ StartReturn
  \/ TimerStop
  \/ StopReturn
  \/ Detach

\* A stopped system, or one whose time is used up, stays as it is.
Done == driver \in {"fatal", "down"} /\ UNCHANGED clockVars

ClockNext ==
  \/ ServerStep
  \/ DriverStep
  \/ RemoveHandler
  \/ ClockInterrupt
  \/ Done

ClockSpec == ClockInit /\ [][ClockNext]_clockVars

\* The server runs, the driver finishes what it began, and the vCPU opens
\* interrupts again and again.
ClockFairness ==
  /\ WF_clockVars((Serve \/ Retimeout) /\ ServerStep)
  /\ WF_clockVars(DriverStep)
  /\ SF_clockVars(ClockInterrupt)

ClockFairSpec == ClockSpec /\ ClockFairness

-----------------------------------------------------------------------------
(* Properties *)

\* The time RTEMS counts never runs ahead of the clock: the n-th tick is not
\* announced before n periods have passed since the start of the timer.
TicksNotAhead ==
  Clock_driver_ticks > 0 =>
    clock >= base + (Clock_driver_ticks - 1) * TickPeriod

\* While the clock runs, each deadline that struck was counted as a tick, or
\* waits in the interrupt object, or struck while that object was waiting.
\* Nothing else makes a tick vanish.
TicksAccounted ==
  attached /\ handler =>
    fired = Clock_driver_ticks + coalesced + (IF triggered THEN 1 ELSE 0)

\* When the driver is shut down the server is stopped and sleeps for good,
\* although it may have been about to trigger when the stop call came.
ShutdownIsQuiet ==
  driver \in {"detach", "down"} =>
    ~Running /\ timeout = Never /\ request = {}

\* A deadline that strikes is announced to RTEMS, unless the clock is shut down.
TickAnnounced ==
  \A n \in 0..MaxClock :
    attached /\ handler /\ triggered /\ Clock_driver_ticks = n
      ~> Clock_driver_ticks > n \/ ~handler

\* The start call comes back, and so does the stop call.
CallsReturn ==
  /\ driver = "starting" ~> driver = "on"
  /\ driver = "stopping" ~> driver = "down"

\* "computes the difference since last tick", be it the moment the handler ran
\* or the deadline that caused it (comment of l4rtems_ckinit.c).
NanosecondsSinceTick ==
  Clock_driver_ticks > 0 /\ driver = "on" =>
    \/ nanoseconds_since_last_tick = (clock - isrClock) * 1000
    \/ nanoseconds_since_last_tick = (clock - (next_timeout - TickPeriod)) * 1000

-----------------------------------------------------------------------------
(* The inductive invariant behind the safety properties: what the server is *)
(* doing at each place of the driver.                                       *)

\* The start call has not been answered: nothing has been triggered.
BeforeStart ==
  \/ driver \in {"off", "enable", "start", "fatal"}
  \/ driver = "starting" /\ request # {}

\* It has been, and the stop call has not.
BetweenCalls ==
  \/ driver \in {"on", "stop"}
  \/ driver = "starting" /\ request = {}
  \/ driver = "stopping" /\ request # {}

AfterStop ==
  \/ driver \in {"detach", "down"}
  \/ driver = "stopping" /\ request = {}

\* The driver's only calls are these two.
Calls ==
  /\ driver \notin {"starting", "stopping"} => request = {}
  /\ driver = "starting" => request \in {{}, {StartMessage}}
  /\ driver = "stopping" => request \in {{}, {StopMessage}}

ClockInv ==
  /\ Calls
  /\ handler => driver \in {"enable", "start", "starting", "on"}
  /\ attached => driver \notin {"off", "enable", "fatal"}
  /\ BeforeStart => /\ current_state = "STOP" /\ timeout = Never
                    /\ fired = 0 /\ Clock_driver_ticks = 0
                    /\ coalesced = 0 /\ ~triggered
  /\ BetweenCalls => Running /\ period_length = TickPeriod
  /\ AfterStop => current_state = "STOP" /\ timeout = Never
  /\ fired > 0 => period_length = TickPeriod
  /\ Clock_driver_ticks <= fired
  /\ TicksAccounted
=============================================================================
