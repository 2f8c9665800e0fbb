---------------------------- MODULE EpochTicker ----------------------------
(***************************************************************************)
(* How a sandbox run is interrupted when its time is over:                 *)
(* src/agentbox-core/src/runtime.rs, as execute_sandbox_run of lib.rs uses *)
(* it.                                                                     *)
(*                                                                         *)
(* All runs of the process share one engine with one epoch counter.  A run *)
(* arms its store with a number of epochs, links the module, announces     *)
(* itself in a counter guarded by a mutex and enters the guest.  A ticker  *)
(* thread sleeps one millisecond and increments the epoch as long as that  *)
(* counter is positive, and waits on a condition variable while it is 0.   *)
(* The guest looks at the epoch on loop back edges and function entries.   *)
(*                                                                         *)
(* The critical sections of the mutex never block, so each is one step;    *)
(* Condvar::wait gives the mutex up and has to look at the counter again   *)
(* after it wakes.  Time is counted in whole milliseconds, one step per    *)
(* boundary, and a sleep lasts until at least one boundary has passed.     *)
(***************************************************************************)
EXTENDS Integers, FiniteSets

CONSTANTS
  Runs,        \* threads that call execute_sandbox_run, one call at a time
  Timeouts,    \* SandboxConfig.timeout_ms values, NoTimeout for None
  MaxAge       \* bound: the age of a run is not counted beyond this

NoTimeout == -1

ASSUME RunsAssumption == IsFiniteSet(Runs)
ASSUME TimeoutsAssumption == /\ Timeouts \subseteq Nat \cup {NoTimeout}
                             /\ MaxAge \in Nat \ {0}
                             /\ \A t \in Timeouts : t <= MaxAge

VARIABLES
  activeSandboxes,  \* TickerState.active_sandboxes
  ticker,           \* where the ticker thread is in its loop
  slept,            \* its sleep of a millisecond is over
  phase,            \* how far each run is
  timeout,          \* timeout_ms of the run
  ticksLeft,        \* the deadline of the run's store, minus the engine's epoch
  \* What the outside world sees; the code cannot read it.
  age,              \* millisecond boundaries since the run armed its timeout
  outcome           \* how the guest ended

tickerVars == <<activeSandboxes, ticker, slept>>
vars == <<activeSandboxes, ticker, slept, phase, timeout, ticksLeft, age, outcome>>

Phases == {"idle", "armed", "running", "returned"}
Outcomes == {"none", "finished", "timed_out"}

\* NO_TIMEOUT_EPOCH_DEADLINE_TICKS, u64::MAX / 2 milliseconds: never reached.
NoDeadline == -1

\* Mutant of EpochTicks: rounded down instead of up.
EpochTicksRoundedDown(timeoutMs) ==
  IF timeoutMs = NoTimeout THEN NoDeadline ELSE IF timeoutMs > 1 THEN timeoutMs - 1 ELSE 1

\* div_ceil by a tick interval of one millisecond, and at least one tick.
EpochTicks(timeoutMs) ==
  IF timeoutMs = NoTimeout THEN NoDeadline ELSE IF timeoutMs > 1 THEN timeoutMs ELSE 1

\* Runs whose ExecutionGuard lives.
Guarded == {r \in Runs : phase[r] \in {"running", "returned"}}

----------------------------------------------------------------------------
(* A run *)

\* arm_epoch_timeout on a store of its own
ArmEpochTimeout(r, timeoutMs) ==
  /\ phase[r] = "idle"
  /\ phase' = [phase EXCEPT ![r] = "armed"]
  /\ timeout' = [timeout EXCEPT ![r] = timeoutMs]
  /\ ticksLeft' = [ticksLeft EXCEPT ![r] = EpochTicks(timeoutMs)]
  /\ age' = [age EXCEPT ![r] = 0]
  /\ outcome' = [outcome EXCEPT ![r] = "none"]
  /\ UNCHANGED tickerVars

\* The run is over and its store is dropped.
Leave(r) ==
  /\ phase' = [phase EXCEPT ![r] = "idle"]
  /\ timeout' = [timeout EXCEPT ![r] = NoTimeout]
  /\ ticksLeft' = [ticksLeft EXCEPT ![r] = NoDeadline]
  /\ age' = [age EXCEPT ![r] = 0]
  /\ outcome' = [outcome EXCEPT ![r] = "none"]

\* Mutant of LinkingFails: the run signs off without having signed on.
LinkingFailsSignsOff(r) ==
  /\ phase[r] = "armed"
  /\ activeSandboxes' = activeSandboxes - 1
  /\ Leave(r)
  /\ UNCHANGED <<ticker, slept>>

\* instantiate or the lookup of _start fails: no guard was taken.
LinkingFails(r) ==
  /\ phase[r] = "armed"
  /\ Leave(r)
  /\ UNCHANGED tickerVars

\* Mutant of BeginExecution: only the second sandbox wakes the ticker.
BeginNotifiesLate(r) ==
  /\ phase[r] = "armed"
  /\ phase' = [phase EXCEPT ![r] = "running"]
  /\ activeSandboxes' = activeSandboxes + 1
  /\ ticker' = IF activeSandboxes = 1 /\ ticker = "waiting" THEN "checking" ELSE ticker
  /\ UNCHANGED <<slept, timeout, ticksLeft, age, outcome>>

\* begin_execution: the first sandbox wakes the ticker.
BeginExecution(r) ==
  /\ phase[r] = "armed"
  /\ phase' = [phase EXCEPT ![r] = "running"]
  /\ activeSandboxes' = activeSandboxes + 1
  /\ ticker' = IF activeSandboxes' = 1 /\ ticker = "waiting" THEN "checking" ELSE ticker
  /\ UNCHANGED <<slept, timeout, ticksLeft, age, outcome>>

Returns(r, how) ==
  /\ phase[r] = "running"
  /\ phase' = [phase EXCEPT ![r] = "returned"]
  /\ outcome' = [outcome EXCEPT ![r] = how]
  /\ UNCHANGED <<tickerVars, timeout, ticksLeft, age>>

\* The guest exits or traps by itself, which it may never do.
GuestFinishes(r) == Returns(r, "finished")

\* The guest looks at the epoch and its deadline has come: Trap::Interrupt.
GuestInterrupted(r) == ticksLeft[r] = 0 /\ Returns(r, "timed_out")

\* Mutant of DropGuard: the counter is cleared instead of decremented.
DropGuardClears(r) ==
  /\ phase[r] = "returned"
  /\ activeSandboxes' = 0
  /\ Leave(r)
  /\ UNCHANGED <<ticker, slept>>

\* The results are collected and the run returns: ExecutionGuard::drop, then
\* the store is dropped.
DropGuard(r) ==
  /\ phase[r] = "returned"
  /\ activeSandboxes' = activeSandboxes - 1
  /\ Leave(r)
  /\ UNCHANGED <<ticker, slept>>

----------------------------------------------------------------------------
(* The ticker thread *)

TickerSleeps ==
  /\ ticker = "checking"
  /\ activeSandboxes > 0
  /\ ticker' = "sleeping"
  /\ slept' = FALSE
  /\ UNCHANGED <<activeSandboxes, phase, timeout, ticksLeft, age, outcome>>

TickerWaits ==
  /\ ticker = "checking"
  /\ activeSandboxes = 0
  /\ ticker' = "waiting"
  /\ UNCHANGED <<activeSandboxes, slept, phase, timeout, ticksLeft, age, outcome>>

\* Condvar::wait may return without a notification.
SpuriousWakeup ==
  /\ ticker = "waiting"
  /\ ticker' = "checking"
  /\ UNCHANGED <<activeSandboxes, slept, phase, timeout, ticksLeft, age, outcome>>

\* The epoch moves for every store of the engine, running or not.
IncrementEpoch ==
  /\ ticker = "sleeping"
  /\ slept
  /\ ticker' = "checking"
  /\ slept' = FALSE
  /\ ticksLeft' = [r \in Runs |-> IF ticksLeft[r] > 0 THEN ticksLeft[r] - 1 ELSE ticksLeft[r]]
  /\ UNCHANGED <<activeSandboxes, phase, timeout, age, outcome>>

----------------------------------------------------------------------------
(* Time *)

MillisecondPasses ==
  /\ age' = [r \in Runs |-> IF phase[r] = "idle" \/ age[r] = MaxAge THEN age[r] ELSE age[r] + 1]
  /\ slept' = (ticker = "sleeping")
  /\ UNCHANGED <<activeSandboxes, ticker, phase, timeout, ticksLeft, outcome>>

----------------------------------------------------------------------------
Init ==
  /\ activeSandboxes = 0
  /\ ticker = "checking"
  /\ slept = FALSE
  /\ phase = [r \in Runs |-> "idle"]
  /\ timeout = [r \in Runs |-> NoTimeout]
  /\ ticksLeft = [r \in Runs |-> NoDeadline]
  /\ age = [r \in Runs |-> 0]
  /\ outcome = [r \in Runs |-> "none"]

Ticker == TickerSleeps \/ TickerWaits \/ IncrementEpoch

Run(r) == \/ \E t \in Timeouts : ArmEpochTimeout(r, t)
          \/ LinkingFails(r) \/ BeginExecution(r)
          \/ GuestFinishes(r) \/ GuestInterrupted(r) \/ DropGuard(r)

Next == Ticker \/ SpuriousWakeup \/ MillisecondPasses \/ \E r \in Runs : Run(r)

Spec == Init /\ [][Next]_vars

\* Threads are scheduled and time passes.  A guest that keeps running comes to
\* a check of the epoch; nothing makes it finish by itself.
FairSpec ==
  /\ Spec
  /\ WF_vars(Ticker)
  /\ WF_vars(MillisecondPasses)
  /\ \A r \in Runs : WF_vars(GuestInterrupted(r)) /\ WF_vars(DropGuard(r))

----------------------------------------------------------------------------
(* Properties *)

\* Type invariant.
TypeOK ==
  /\ activeSandboxes \in Nat
  /\ ticker \in {"checking", "waiting", "sleeping"}
  /\ slept \in BOOLEAN
  /\ phase \in [Runs -> Phases]
  /\ timeout \in [Runs -> Timeouts \cup {NoTimeout}]
  /\ ticksLeft \in [Runs -> Nat \cup {NoDeadline}]
  /\ age \in [Runs -> 0..MaxAge]
  /\ outcome \in [Runs -> Outcomes]

(* No lost wakeup: the counter is the number of living guards, and the       *)
(* ticker never waits while there is one, although begin_execution notifies  *)
(* only on the step from 0 to 1 and a drop never does; and when the last run *)
(* is gone the counter is 0, so that the ticker comes to rest.               *)
TickerAwake ==
  /\ activeSandboxes = Cardinality(Guarded)
  /\ ticker = "waiting" => Guarded = {}

(* No run is interrupted early: a run that is interrupted had a timeout, and *)
(* since it armed it all of the timeout has passed but for one millisecond,  *)
(* the one the ticker may have slept when the run armed (a sleep begun for   *)
(* another run), however many runs share the epoch.                          *)
NotEarly ==
  \A r \in Runs : outcome[r] = "timed_out" => timeout[r] # NoTimeout /\ age[r] >= timeout[r] - 1

(* The ticker implements Watchdog with a grace of one millisecond: step by    *)
(* step, and not only in what its runs report.                                *)
Dog == INSTANCE Watchdog WITH
  Grace <- 1,
  watch <- [r \in Runs |-> CASE phase[r] \in {"armed", "running"} -> "on"
                             [] phase[r] = "returned" -> "over"
                             [] OTHER -> "idle"],
  limit <- timeout, elapsed <- age, verdict <- outcome
WatchdogSpec == Dog!Spec

(* Every run with a timeout leaves the guest, whether or not the guest       *)
(* would: the ticker serves it until then, whatever other runs come and go.  *)
TimeoutFires ==
  \A r \in Runs : phase[r] = "running" /\ timeout[r] # NoTimeout ~> phase[r] # "running"
=============================================================================
