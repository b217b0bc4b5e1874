---------------------------- MODULE TimerServer ----------------------------
(***************************************************************************)
(* The timer thread of the L4Re wrapper (timer_IPC.cc), which stands for   *)
(* the PC's interval timer: a server that waits for start and stop calls   *)
(* with a receive timeout and triggers the timer's interrupt object each   *)
(* time the timeout strikes.  The server loop and IPC are L4Re's           *)
(* (external): one message or one timeout at a time, the caller blocks     *)
(* until the reply.                                                        *)
(***************************************************************************)
EXTENDS Integers

CONSTANTS
  Period,    \* tick lengths a caller may ask for, in microseconds
  First,     \* delays of the first interrupt; 0 stands for one period
  StartClock,  \* readings of the clock when the server starts
  MaxClock,  \* bound: the last microsecond modelled
  Never      \* L4_IPC_NEVER

ASSUME PeriodAssumption == Period \subseteq Nat \ {0} /\ Period # {}
ASSUME FirstAssumption  == First \subseteq Nat /\ 0 \in First
ASSUME ClockAssumption  == StartClock \subseteq Nat /\ MaxClock \in Nat /\ Never \notin Int

Op == {"START", "STOP", "other"}    \* Timer_ops, and what is none of them

\* What a caller sends: a start with its arguments, another operation, or the
\* message of another protocol.
Message ==
  [proto : {TRUE}, op : {"START"}, first : First, period : Period]
    \cup [proto : BOOLEAN, op : Op \ {"START"}]

VARIABLES
  clock,          \* l4re_kip()->clock
  request,        \* the messages of blocked callers: one at most
  current_state,  \* the fields of L4rtems_timer
  next_timeout,
  period_length,
  timeout,        \* _timeout
  triggered,      \* the interrupt object has a message for the vCPU
  base,           \* history: the first timeout of the last start
  fired           \* history: triggers since then

serverVars == <<current_state, next_timeout, period_length, timeout>>
history    == <<base, fired>>
vars       == <<clock, request, serverVars, triggered, history>>

TypeOK ==
  /\ clock \in Nat
  /\ request \subseteq Message
  /\ current_state \in Op
  /\ next_timeout \in Nat
  /\ period_length \in Period \cup {0}
  /\ timeout \in Nat \cup {Never}
  /\ triggered \in BOOLEAN
  /\ base \in Nat
  /\ fired \in Nat

Init ==
  /\ clock \in StartClock
  /\ request = {}
  /\ current_state = "STOP"
  /\ next_timeout = 0
  /\ period_length = 0
  /\ timeout = Never
  /\ triggered = FALSE
  /\ base = 0
  /\ fired = 0

\* Time passes.
Tick ==
  /\ clock < MaxClock
  /\ clock' = clock + 1
  /\ UNCHANGED <<request, serverVars, triggered, history>>

-----------------------------------------------------------------------------
(* The server. *)

\* L4rtems_timer::dispatch returns before it looks at a message of another
\* protocol; otherwise the operation becomes the state, a valid one or not.
\* The caller is answered in every case.
DispatchForeign(m) ==
  /\ ~m.proto
  /\ UNCHANGED <<serverVars, history>>

\* Mutant of DispatchStart: _timeout is not set.
DispatchStartUnarmed(m) ==
  /\ m.proto /\ m.op = "START"
  /\ current_state' = "START"
  /\ period_length' = m.period
  /\ next_timeout' = clock + (IF m.first = 0 THEN m.period ELSE m.first)
  /\ base' = next_timeout' /\ fired' = 0
  /\ UNCHANGED timeout

DispatchStart(m) ==
  /\ m.proto /\ m.op = "START"
  /\ current_state' = "START"
  /\ period_length' = m.period
  /\ next_timeout' = clock + (IF m.first = 0 THEN m.period ELSE m.first)
  /\ timeout' = next_timeout'
  /\ base' = next_timeout' /\ fired' = 0

DispatchStop(m) ==
  /\ m.proto /\ m.op = "STOP"
  /\ current_state' = "STOP"
  /\ timeout' = Never
  /\ UNCHANGED <<next_timeout, period_length, history>>

DispatchInvalid(m) ==
  /\ m.proto /\ m.op = "other"
  /\ current_state' = "other"
  /\ UNCHANGED <<next_timeout, period_length, timeout, history>>

Dispatch(m) ==
  /\ request = {m}
  /\ request' = {}
  /\ \/ DispatchForeign(m)
     \/ DispatchStart(m)
     \/ DispatchStop(m)
     \/ DispatchInvalid(m)
  /\ UNCHANGED <<clock, triggered>>

\* The receive timeout strikes and Timer_hooks::error calls
\* L4rtems_timer::retimeout.  A message that arrived by then may win or lose.
Expired == timeout # Never /\ timeout <= clock

\* Mutant of RetimeoutRunning: the next deadline is counted from now.
RetimeoutFromNow ==
  /\ Expired
  /\ current_state = "START"
  /\ triggered' = TRUE
  /\ next_timeout' = clock + period_length
  /\ timeout' = next_timeout'
  /\ fired' = fired + 1
  /\ UNCHANGED <<clock, request, current_state, period_length, base>>

\* Mutant of RetimeoutRunning: the deadline is not advanced.
RetimeoutSameDeadline ==
  /\ Expired
  /\ current_state = "START"
  /\ triggered' = TRUE
  /\ fired' = fired + 1
  /\ UNCHANGED <<clock, request, serverVars, base>>

\* Mutant of RetimeoutRunning: the deadline is moved back.
RetimeoutBack ==
  /\ Expired
  /\ current_state = "START"
  /\ triggered' = TRUE
  /\ next_timeout' = next_timeout - period_length
  /\ timeout' = next_timeout'
  /\ fired' = fired + 1
  /\ UNCHANGED <<clock, request, current_state, period_length, base>>

\* The timer runs: trigger the interrupt (an object triggered twice before it
\* is received delivers once) and advance the deadline by one period.
RetimeoutRunning ==
  /\ Expired
  /\ current_state = "START"
  /\ triggered' = TRUE
  /\ next_timeout' = next_timeout + period_length
  /\ timeout' = next_timeout'
  /\ fired' = fired + 1
  /\ UNCHANGED <<clock, request, current_state, period_length, base>>

\* Mutant of RetimeoutStopped: the timeout is left as it was.
RetimeoutKept ==
  /\ Expired
  /\ current_state = "STOP"
  /\ UNCHANGED vars

RetimeoutStopped ==
  /\ Expired
  /\ current_state = "STOP"
  /\ timeout' = Never
  /\ UNCHANGED <<clock, request, current_state, next_timeout, period_length,
                 triggered, history>>

\* After an invalid operation: back to a defined state, and try again.
RetimeoutUndefined ==
  /\ Expired
  /\ current_state = "other"
  /\ current_state' = "STOP"
  /\ UNCHANGED <<clock, request, next_timeout, period_length, timeout,
                 triggered, history>>

Retimeout == RetimeoutRunning \/ RetimeoutStopped \/ RetimeoutUndefined

\* Mutant of Serve: only starts are answered.
ServeStarts == \E m \in request : m.op = "START" /\ Dispatch(m)

Serve == \E m \in request : Dispatch(m)

-----------------------------------------------------------------------------
(* Its clients. *)

\* l4rtems_timer_start, l4rtems_timer_stop, or a call of neither.
Send(m) ==
  /\ request = {}
  /\ request' = {m}
  /\ UNCHANGED <<clock, serverVars, triggered, history>>

\* The vCPU receives the interrupt.
Receive ==
  /\ triggered
  /\ triggered' = FALSE
  /\ UNCHANGED <<clock, request, serverVars, history>>

Next ==
  \/ Tick
  \/ \E m \in Message : Send(m)
  \/ Serve
  \/ Retimeout
  \/ Receive

Spec == Init /\ [][Next]_vars

\* The server thread has a higher priority than the vCPU (4 and 2): it answers,
\* and it waits again with its timeout before the vCPU can call again, so calls
\* do not put off for ever a timeout that has struck.
Fairness == WF_vars(Serve) /\ SF_vars(Retimeout)

FairSpec == Spec /\ Fairness

-----------------------------------------------------------------------------
(* Properties *)

Running == current_state = "START"

\* A running timer waits for its next deadline, and deadlines keep the rhythm
\* of the start however late the server was: they do not drift.
NoDrift ==
  Running => /\ timeout = next_timeout
             /\ next_timeout = base + fired * period_length

\* The interrupt is never triggered before its time: the n-th one not before
\* n - 1 periods after the first deadline.
NeverEarly ==
  fired > 0 => clock >= base + (fired - 1) * period_length

\* A running timer whose deadline has passed triggers its interrupt, however
\* many calls the server answers in between, unless one of them restarts the
\* timer or takes it out of the running state first: a stop, and an invalid
\* operation too, which dispatch makes the state before it refuses it
\* (timer_IPC.cc:153).  That deadline is then forgotten.
DeadlineKept ==
  \A n \in 0..MaxClock :
    Running /\ next_timeout <= clock /\ fired = n
      ~> ~Running \/ next_timeout > clock \/ fired # n

\* A timer that is not running, be it after an invalid operation, is not left
\* with a timeout that strikes again and again: left alone, it sleeps.
Settles == ~Running /\ Expired ~> timeout = Never \/ Running \/ request # {}
=============================================================================
