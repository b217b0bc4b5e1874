-------------------------- MODULE ClockTickProofs --------------------------
(***************************************************************************)
(* Proofs about TimerServer and ClockTick for all periods, first delays,   *)
(* clock readings and bounds.  The deadlines are a product, so the few     *)
(* facts of arithmetic that the provers need are lemmas of their own.      *)
(***************************************************************************)
EXTENDS ClockTick, TLAPS

USE PeriodAssumption, FirstAssumption, ClockAssumption, TickAssumption

\* One more period: what advancing a deadline by one period does.
LEMMA OneMorePeriod ==
  ASSUME NEW b \in Nat, NEW n \in Nat, NEW p \in Nat
  PROVE  /\ b + (n + 1) * p = b + n * p + p
         /\ b + 0 * p = b
         /\ b + n * p \in Nat
  BY SMT

\* Fewer periods end no later.
LEMMA FewerPeriods ==
  ASSUME NEW b \in Nat, NEW p \in Nat, NEW m \in Nat, NEW n \in Nat,
         m <= n, m > 0
  PROVE  b + (m - 1) * p <= b + (n - 1) * p
<1>1. PICK k \in Nat : n = m + k
  BY SMT
<1>2. (m + k - 1) * p = (m - 1) * p + k * p
  BY SMT
<1>3. k * p >= 0
  BY SMT
<1>4. QED
  BY <1>1, <1>2, <1>3, SMT

-----------------------------------------------------------------------------
(* The timer server. *)

TInv == TypeOK /\ NoDrift /\ NeverEarly

\* The start state of the timer server satisfies its invariant.
LEMMA TimerInit == Init => TInv
<1> SUFFICES ASSUME Init PROVE TInv
  OBVIOUS
<1>1. TypeOK
  BY DEF Init, TypeOK, Op
<1>2. ~Running /\ ~(fired > 0)
  BY DEF Init, Running
<1>3. QED
  BY <1>1, <1>2 DEF TInv, NoDrift, NeverEarly

\* Dispatching a call keeps the invariant: a start begins a new rhythm, the
\* other operations end the running state or leave it alone.
LEMMA DispatchInv ==
  ASSUME TInv, NEW m \in Message, Dispatch(m)
  PROVE  TInv'
<1> USE DEF TInv, TypeOK, NoDrift, NeverEarly, Running, Dispatch, Op
<1>1. CASE DispatchStart(m)
  <2>1. m \in [proto : {TRUE}, op : {"START"}, first : First, period : Period]
    BY <1>1 DEF DispatchStart, Message
  <2>2. m.first \in Nat /\ m.period \in Nat /\ m.period \in Period
    BY <2>1
  <2>3. next_timeout' \in Nat
    BY <1>1, <2>2 DEF DispatchStart
  <2>4. TypeOK'
    BY <1>1, <2>2, <2>3 DEF DispatchStart
  <2>5. base' + fired' * period_length' = base'
    BY <1>1, <2>2, <2>4, OneMorePeriod DEF DispatchStart
  <2>6. QED
    BY <1>1, <2>4, <2>5 DEF DispatchStart
<1>2. CASE DispatchStop(m)
  BY <1>2 DEF DispatchStop, history
<1>3. CASE DispatchInvalid(m)
  BY <1>3 DEF DispatchInvalid, history
<1>4. CASE DispatchForeign(m)
  BY <1>4 DEF DispatchForeign, serverVars, history
<1>5. QED
  BY <1>1, <1>2, <1>3, <1>4

\* A timeout that strikes keeps the invariant: the deadline it advances was
\* the running timer's own, and it has passed.
LEMMA RetimeoutInv == ASSUME TInv, Retimeout PROVE TInv'
<1> USE DEF TInv, TypeOK, NoDrift, NeverEarly, Running, Op
<1>1. CASE RetimeoutRunning
  <2> USE DEF RetimeoutRunning, Expired
  <2>1. /\ timeout = next_timeout /\ next_timeout <= clock
        /\ next_timeout = base + fired * period_length
    BY <1>1
  <2>2. period_length \in Nat
    OBVIOUS
  <2>3. TypeOK'
    BY <1>1, <2>2
  <2>4. next_timeout' = base' + fired' * period_length'
    BY <1>1, <2>1, <2>2, OneMorePeriod
  <2>5. fired' - 1 = fired
    BY <1>1
  <2>6. NeverEarly'
    BY <1>1, <2>1, <2>5
  <2>7. QED
    BY <1>1, <2>3, <2>4, <2>6
<1>2. CASE RetimeoutStopped
  BY <1>2 DEF RetimeoutStopped, history
<1>3. CASE RetimeoutUndefined
  BY <1>3 DEF RetimeoutUndefined, history
<1>4. QED
  BY <1>1, <1>2, <1>3 DEF Retimeout

\* Time, senders and the vCPU leave the server's deadlines alone.
LEMMA EnvironmentInv ==
  ASSUME TInv,
         \/ Tick
         \/ \E m \in Message : Send(m)
         \/ Receive
         \/ UNCHANGED vars
  PROVE  TInv'
<1> USE DEF TInv, TypeOK, NoDrift, NeverEarly, Running, Op, serverVars, history
<1>1. CASE Tick
  <2>1. clock' \in Nat /\ clock' >= clock /\ TypeOK' /\ NoDrift'
    BY <1>1 DEF Tick
  <2>2. period_length \in Nat
    OBVIOUS
  <2>3. fired > 0 => base + (fired - 1) * period_length \in Nat
    BY <2>2, OneMorePeriod
  <2>4. NeverEarly'
    BY <1>1, <2>1, <2>3 DEF Tick
  <2>5. QED
    BY <2>1, <2>4
<1>2. CASE \E m \in Message : Send(m)
  BY <1>2 DEF Send
<1>3. CASE Receive
  BY <1>3 DEF Receive
<1>4. CASE UNCHANGED vars
  BY <1>4 DEF vars
<1>5. QED
  BY <1>1, <1>2, <1>3, <1>4

\* Every step of the timer server keeps the invariant.
LEMMA TimerNext == TInv /\ [Next]_vars => TInv'
<1> SUFFICES ASSUME TInv, [Next]_vars PROVE TInv'
  OBVIOUS
<1>1. ASSUME Serve PROVE TInv'
  <2>1. request \subseteq Message
    BY DEF TInv, TypeOK
  <2>2. QED
    BY <1>1, <2>1, DispatchInv DEF Serve
<1>2. QED
  BY <1>1, RetimeoutInv, EnvironmentInv DEF Next

\* The timer server keeps the rhythm of its start, however late it is served
\* and whatever calls it gets.
THEOREM TimerKeepsTime == Spec => [](TypeOK /\ NoDrift /\ NeverEarly)
  BY TimerInit, TimerNext, PTL DEF Spec, TInv

\* In particular, whatever calls and timeouts come together, the server's fields keep
\* their types, with the invalid opcode that dispatch stores before it looks at it.
THEOREM TimerTypeCorrect == Spec => []TypeOK
  BY TimerKeepsTime, PTL

\* And the n-th interrupt of a rhythm does not come before n - 1 periods are over.
THEOREM TimerNeverEarly == Spec => []NeverEarly
  BY TimerKeepsTime, PTL

-----------------------------------------------------------------------------
(* The clock driver. *)

USE DEF vars, serverVars, history, driverVars, clockVars

\* To the server the driver and the vCPU are a caller and a receiver like any
\* other: each step of ClockTick is a step of TimerServer, or one it does not see.
LEMMA ClockStep == TInv /\ [ClockNext]_clockVars => [Next]_vars
<1> SUFFICES ASSUME TInv, [ClockNext]_clockVars PROVE [Next]_vars
  OBVIOUS
<1>1. StartMessage \in Message /\ StopMessage \in Message
  BY DEF StartMessage, StopMessage, Message, Op
<1>2. CASE ServerStep
  BY <1>2 DEF ServerStep, Next
<1>3. CASE DriverStep
  <2>1. CASE InstallHandler \/ RequestIrq \/ StartReturn \/ StopReturn
    BY <2>1 DEF InstallHandler, RequestIrq, StartReturn, StopReturn
  <2>2. CASE TimerStart \/ TimerStop
    BY <1>1, <2>2 DEF TimerStart, TimerStop, Next
  <2>3. CASE Detach
    <3>1. triggered \in BOOLEAN
      BY DEF TInv, TypeOK
    <3>2. QED
      BY <2>3, <3>1 DEF Detach, Receive, Next
  <2>4. QED
    BY <1>3, <2>1, <2>2, <2>3 DEF DriverStep
<1>4. CASE RemoveHandler \/ Done \/ UNCHANGED clockVars
  BY <1>4 DEF RemoveHandler, Done
<1>5. CASE ClockInterrupt
  BY <1>5 DEF ClockInterrupt, Next
<1>6. QED
  BY <1>2, <1>3, <1>4, <1>5 DEF ClockNext

\* The clock driver uses the timer server as TimerServer allows.
THEOREM ClockUsesTimer == ClockSpec => Spec
<1>1. ClockInit => Init
  BY DEF ClockInit
<1>2. TInv /\ [ClockNext]_clockVars => TInv'
  BY ClockStep, TimerNext
<1>3. ClockInit => TInv
  BY <1>1, TimerInit
<1>4. QED
  <2> HIDE DEF vars, clockVars
  <2>1. QED
    BY <1>1, <1>2, <1>3, ClockStep, PTL DEF ClockSpec, Spec

CInv == ClockTypeOK /\ TInv /\ ClockInv

USE DEF CInv, ClockTypeOK, ClockInv, TypeOK, Op, Driver, Calls, BeforeStart,
        BetweenCalls, AfterStop, TicksAccounted, Running

\* The clock driver starts with nothing installed and nothing asked for.
LEMMA ClockInitInv == ClockInit => CInv
<1> SUFFICES ASSUME ClockInit PROVE CInv
  OBVIOUS
<1>1. TInv
  BY TimerInit DEF ClockInit
<1>2. QED
  BY <1>1 DEF ClockInit, Init, TInv

\* The server answers the call, and the driver is where the answer finds it.
LEMMA ServeInv == ASSUME CInv, Serve, ServerStep PROVE ClockInv' /\ ClockTypeOK'
<1>1. PICK m \in request : Dispatch(m)
  BY DEF Serve
<1>2. request = {m} /\ request' = {} /\ UNCHANGED <<clock, triggered, driverVars>>
  BY <1>1 DEF Dispatch, ServerStep
<1>3. CASE driver = "starting"
  <2>1. m = StartMessage
    BY <1>2, <1>3
  <2>2. DispatchStart(m)
    BY <1>1, <2>1 DEF Dispatch, StartMessage, DispatchForeign, DispatchStop, DispatchInvalid
  <2>3. /\ current_state' = "START" /\ period_length' = TickPeriod
        /\ fired' = 0 /\ coalesced' = coalesced
        /\ timeout' = next_timeout' /\ base' = next_timeout'
        /\ next_timeout' = clock + TickPeriod
    BY <1>2, <1>3, <2>1, <2>2 DEF DispatchStart, StartMessage, ServerStep
  <2>4. QED
    BY <1>2, <1>3, <2>3
<1>4. CASE driver = "stopping"
  <2>1. m = StopMessage
    BY <1>2, <1>4
  <2>2. DispatchStop(m)
    BY <1>1, <2>1 DEF Dispatch, StopMessage, DispatchForeign, DispatchStart, DispatchInvalid
  <2>3. /\ current_state' = "STOP" /\ timeout' = Never
        /\ UNCHANGED <<next_timeout, period_length, base, fired>>
        /\ coalesced' = coalesced
    BY <1>2, <2>2 DEF DispatchStop, ServerStep
  <2>4. QED
    BY <1>2, <1>4, <2>3
<1>5. QED
  BY <1>2, <1>3, <1>4

\* A timeout strikes only between the calls, and then the timer runs.
LEMMA StrikeInv == ASSUME CInv, Retimeout, ServerStep PROVE ClockInv' /\ ClockTypeOK'
<1>1. RetimeoutRunning
  BY DEF Retimeout, RetimeoutRunning, RetimeoutStopped, RetimeoutUndefined, Expired
<1>2. /\ triggered' = TRUE /\ fired' = fired + 1
      /\ timeout' = next_timeout' /\ next_timeout' = next_timeout + period_length
      /\ UNCHANGED <<clock, request, current_state, period_length, base, driverVars>>
  BY <1>1 DEF RetimeoutRunning, ServerStep
<1>3. coalesced' = coalesced + (IF triggered THEN 1 ELSE 0)
  BY <1>2 DEF ServerStep
<1>4. BetweenCalls
  BY <1>1 DEF RetimeoutRunning, Expired
<1>5. period_length \in Nat
  OBVIOUS
<1>6. QED
  BY <1>2, <1>3, <1>4, <1>5

\* Every step of the driver, of the server and of the clock keeps the
\* invariant of the composition.
LEMMA ClockNextInv == CInv /\ [ClockNext]_clockVars => CInv'
<1> SUFFICES ASSUME CInv, [ClockNext]_clockVars PROVE CInv'
  OBVIOUS
<1>1. TInv'
  BY ClockStep, TimerNext
<1>2. ASSUME ServerStep PROVE ClockInv' /\ ClockTypeOK'
  <2>1. CASE Tick
    BY <1>2, <2>1 DEF ServerStep, Tick
  <2>2. QED
    BY <1>2, <2>1, ServeInv, StrikeInv DEF ServerStep
<1>3. CASE InstallHandler
  BY <1>1, <1>3 DEF InstallHandler
<1>4. CASE RequestIrq
  BY <1>1, <1>4 DEF RequestIrq
<1>5. CASE TimerStart
  BY <1>1, <1>5 DEF TimerStart, Send, StartMessage, Message
<1>6. CASE StartReturn
  BY <1>1, <1>6 DEF StartReturn
<1>7. CASE TimerStop
  <2>1. StopMessage \in Message
    BY DEF StopMessage, Message
  <2>2. Running /\ period_length = TickPeriod /\ ~handler
    BY <1>7 DEF TimerStop
  <2>3. /\ request' = {StopMessage} /\ driver' = "stopping"
        /\ UNCHANGED <<clock, serverVars, triggered, history, handler, attached,
                       Clock_driver_ticks, isrClock, coalesced>>
    BY <1>7 DEF TimerStop, Send
  <2>4. QED
    BY <1>1, <2>1, <2>2, <2>3
<1>8. CASE StopReturn
  BY <1>1, <1>8 DEF StopReturn
<1>9. CASE Detach
  BY <1>1, <1>9 DEF Detach
<1>10. CASE RemoveHandler
  BY <1>1, <1>10 DEF RemoveHandler
<1>11. CASE ClockInterrupt
  <2>1. /\ triggered /\ triggered' = FALSE
        /\ attached
        /\ Clock_driver_ticks' = Clock_driver_ticks + (IF handler THEN 1 ELSE 0)
        /\ isrClock' \in {clock, isrClock}
        /\ UNCHANGED <<clock, request, serverVars, history, driver, handler,
                       attached, coalesced>>
    BY <1>11 DEF ClockInterrupt, Receive
  <2>2. ClockTypeOK'
    BY <1>1, <2>1 DEF TInv
  <2>3. Calls' /\ ~BeforeStart /\ ~BeforeStart'
    BY <2>1
  <2>4. /\ BetweenCalls' => Running' /\ period_length' = TickPeriod
        /\ AfterStop' => current_state' = "STOP" /\ timeout' = Never
    BY <2>1
  <2>5. Clock_driver_ticks' <= fired' /\ TicksAccounted'
    <3>1. CASE handler
      <4>1. fired = Clock_driver_ticks + coalesced + 1
        BY <2>1, <3>1
      <4>2. QED
        BY <2>1, <3>1, <4>1
    <3>2. CASE ~handler
      BY <2>1, <3>2
    <3>3. QED
      BY <3>1, <3>2
  <2>6. QED
    BY <1>1, <2>1, <2>2, <2>3, <2>4, <2>5
<1>12. CASE Done \/ UNCHANGED clockVars
  BY <1>1, <1>12 DEF Done
<1>13. QED
  <2> HIDE DEF ClockTypeOK, ClockInv, clockVars
  <2>1. QED
    BY <1>1, <1>2, <1>3, <1>4, <1>5, <1>6, <1>7, <1>8, <1>9, <1>10, <1>11, <1>12
       DEF ClockNext, DriverStep

HIDE DEF CInv, ClockInv, vars, clockVars

\* The invariant of the composition holds in every state.
LEMMA ClockInvariance == ClockSpec => []CInv
  BY ClockInitInv, ClockNextInv, PTL DEF ClockSpec

\* Driver and server together keep their types.
THEOREM ClockTypeCorrect == ClockSpec => []ClockTypeOK
<1>1. CInv => ClockTypeOK
  BY DEF CInv
<1>2. QED
  BY <1>1, ClockInvariance, PTL

\* No deadline is lost but for the one reason: the object was still triggered.
THEOREM NoTickVanishes == ClockSpec => []TicksAccounted
<1>1. CInv => TicksAccounted
  BY DEF CInv, ClockInv
<1>2. QED
  BY <1>1, ClockInvariance, PTL

\* The time RTEMS counts never runs ahead of the clock.
THEOREM TimeNotAhead == ClockSpec => []TicksNotAhead
<1>1. CInv => TicksNotAhead
  <2> SUFFICES ASSUME CInv, Clock_driver_ticks > 0
               PROVE  clock >= base + (Clock_driver_ticks - 1) * TickPeriod
    BY DEF TicksNotAhead
  <2>1. period_length = TickPeriod /\ fired > 0
    BY DEF CInv, ClockInv
  <2>2. clock >= base + (fired - 1) * TickPeriod
    BY <2>1 DEF CInv, TInv, NeverEarly
  <2>3. TickPeriod \in Nat
    OBVIOUS
  <2>4. base + (Clock_driver_ticks - 1) * TickPeriod <= base + (fired - 1) * TickPeriod
    BY <2>3, FewerPeriods DEF CInv, ClockInv
  <2>5. QED
    BY <2>2, <2>3, <2>4 DEF CInv
<1>2. QED
  BY <1>1, ClockInvariance, PTL

\* After the shutdown the server is stopped for good.
THEOREM QuietAfterShutdown == ClockSpec => []ShutdownIsQuiet
<1>1. CInv => ShutdownIsQuiet
  BY DEF CInv, ClockInv, ShutdownIsQuiet
<1>2. QED
  BY <1>1, ClockInvariance, PTL
=============================================================================
