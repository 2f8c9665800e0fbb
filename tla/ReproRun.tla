------------------------------ MODULE ReproRun ------------------------------
(***************************************************************************)
(* run_with_options of src/agentbox-core/src/cpython_wasi_repro.rs.        *)
(*                                                                         *)
(* Every call makes an engine of its own.  With a timeout the engine has   *)
(* epoch interruption, the store a deadline of one epoch, and a thread     *)
(* sleeps for the timeout and increments the epoch once.  Nobody waits for *)
(* that thread: it may outlive the call and fire into later ones.          *)
(* Time is counted in whole milliseconds as in EpochTicker.                *)
(***************************************************************************)
EXTENDS Integers, RuntimeAssets

CONSTANTS
  Repros,       \* threads that call _debug_run_cpython_wasi_repro
  ReproTimeouts,\* their timeout_ms, NoTimeout for None
  MaxRepros,    \* bound: calls that reach an engine
  MaxAge        \* bound: the age of a run is not counted beyond this

NoTimeout == -1

ASSUME ReprosAssumption ==
  /\ Repros \subseteq Seekers
  /\ ReproTimeouts \subseteq Nat \cup {NoTimeout}
  /\ MaxRepros \in Nat /\ MaxAge \in Nat /\ \A t \in ReproTimeouts : t <= MaxAge

VARIABLES
  guest,        \* where the guest of each call is
  made,         \* engines made so far: 1..made
  engine,       \* the engine of the call, 0 for none
  timeout,      \* timeout_ms of the call
  timers,       \* the sleeping timer threads: whose epoch, and milliseconds left
  expired,      \* calls whose engine has reached the deadline of their store
  age,          \* millisecond boundaries since the call armed its timeout
  verdict       \* what the call reports

reproVars == <<guest, made, engine, timeout, timers, expired, age, verdict>>

\* Mutant of NewEngine: one engine for all calls.
OneEngine == 1
\* create_engine
NewEngine == made + 1

\* Mutant of EpochInterruption: a timeout of 0 is taken for none.
EpochInterruptionPositive(timeoutMs) == timeoutMs > 0
EpochInterruption(timeoutMs) == timeoutMs # NoTimeout

CallRepro(r) ==
  /\ guest[r] = "none"
  /\ Call(r)
  /\ guest' = [guest EXCEPT ![r] = "starting"]
  /\ UNCHANGED <<made, engine, timeout, timers, expired, age, verdict>>

\* resolve_cpython_runtime_dir, ensure_runtime_available, Module::from_file
LocateRepro(r) ==
  /\ guest[r] = "starting"
  /\ ResolveDir(r) \/ CheckModule(r) \/ LoadModule(r)
  /\ UNCHANGED reproVars

\* resolve_output_limit or create_engine fails, or later the linker or the
\* preopening of the directory.
ReproFails(r) ==
  /\ guest[r] = "starting" /\ step[r] \in {"loading", "found"}
  /\ Hinder(r)
  /\ UNCHANGED reproVars

\* arm_timeout_deadline on a store of the new engine
ArmTimeoutDeadline(r, timeoutMs) ==
  /\ made < MaxRepros
  /\ guest[r] = "starting" /\ step[r] = "found"
  /\ guest' = [guest EXCEPT ![r] = "running"]
  /\ made' = NewEngine
  /\ engine' = [engine EXCEPT ![r] = NewEngine]
  /\ timeout' = [timeout EXCEPT ![r] = timeoutMs]
  /\ timers' = timers \cup
       IF timeoutMs = NoTimeout THEN {} ELSE {[engine |-> NewEngine, left |-> timeoutMs]}
  /\ UNCHANGED <<expired, age, verdict, assetVars>>

\* _start returns.  Output at its limit is reported before anything else.
Reports(r, how) ==
  /\ guest[r] = "running"
  /\ guest' = [guest EXCEPT ![r] = "over"]
  /\ verdict' \in {[verdict EXCEPT ![r] = v] : v \in {how, "limit"}}
  /\ UNCHANGED <<made, engine, timeout, timers, expired, age, assetVars>>

GuestEnds(r) == \E how \in {"ok", "failed"} : Reports(r, how)

\* The guest looks at the epoch and its deadline has come.
ReproInterrupted(r) == EpochInterruption(timeout[r]) /\ r \in expired /\ Reports(r, "timed_out")

\* The store is dropped, but not the timer.
DropStore(r, to) ==
  /\ guest' = [guest EXCEPT ![r] = to]
  /\ engine' = [engine EXCEPT ![r] = 0]
  /\ timeout' = [timeout EXCEPT ![r] = NoTimeout]
  /\ expired' = expired \ {r}
  /\ age' = [age EXCEPT ![r] = 0]
  /\ verdict' = [verdict EXCEPT ![r] = "none"]
  /\ UNCHANGED <<made, timers>>

InstantiateFails(r) == guest[r] = "running" /\ Hinder(r) /\ DropStore(r, "starting")
\* The result, or the error, is taken.
ReproReturns(r) ==
  /\ guest[r] = "over" \/ (guest[r] = "starting" /\ step[r] = "failed")
  /\ Answered(r)
  /\ DropStore(r, "none")

TimerFires(t) ==
  /\ t.left = 0
  /\ timers' = timers \ {t}
  /\ expired' = expired \cup {r \in Repros : engine[r] = t.engine}
  /\ UNCHANGED <<guest, made, engine, timeout, age, verdict, assetVars>>

MillisecondPasses ==
  /\ timers' = {[t EXCEPT !.left = IF @ = 0 THEN 0 ELSE @ - 1] : t \in timers}
  /\ age' = [r \in Repros |-> IF guest[r] \in {"none", "starting"} \/ age[r] = MaxAge THEN age[r] ELSE age[r] + 1]
  /\ UNCHANGED <<guest, made, engine, timeout, expired, verdict, assetVars>>

ReproInit ==
  /\ guest = [r \in Repros |-> "none"]
  /\ made = 0
  /\ engine = [r \in Repros |-> 0]
  /\ timeout = [r \in Repros |-> NoTimeout]
  /\ timers = {} /\ expired = {}
  /\ age = [r \in Repros |-> 0]
  /\ verdict = [r \in Repros |-> "none"]

Repro(r) == \/ CallRepro(r) \/ LocateRepro(r) \/ ReproFails(r)
            \/ \E t \in ReproTimeouts : ArmTimeoutDeadline(r, t)
            \/ GuestEnds(r) \/ ReproInterrupted(r) \/ InstantiateFails(r)
            \/ ReproReturns(r)
Timers == \E t \in timers : TimerFires(t)

ReproOK ==
  /\ guest \in [Repros -> {"none", "starting", "running", "over"}]
  /\ made \in 0..MaxRepros
  /\ engine \in [Repros -> 0..made]
  /\ timeout \in [Repros -> ReproTimeouts \cup {NoTimeout}]
  /\ timers \subseteq [engine : 1..made, left : 0..MaxAge]
  /\ expired \subseteq Repros
  /\ age \in [Repros -> 0..MaxAge]
  /\ verdict \in [Repros -> {"none", "ok", "failed", "limit", "timed_out"}]

(* No call is reported as timed out before its own timeout is over, although *)
(* the timers of earlier calls still sleep and then fire: a refinement of    *)
(* Watchdog without grace (cpython_wasi_repro.rs:351).                       *)
Dog == INSTANCE Watchdog WITH
  Runs <- Repros, Timeouts <- ReproTimeouts, Grace <- 0,
  watch <- [r \in Repros |-> CASE guest[r] = "running" -> "on" [] guest[r] = "over" -> "over"
                               [] OTHER -> "idle"],
  limit <- timeout, elapsed <- age,
  verdict <- [r \in Repros |-> IF verdict[r] \in {"none", "timed_out"} THEN verdict[r] ELSE "finished"]
ReproWatchdog == Dog!Spec

(* Every call with a timeout comes to an end, 0 ms included.  *)
ReproTimeoutFires ==
  \A r \in Repros : guest[r] = "running" /\ timeout[r] # NoTimeout ~> guest[r] # "running"
=============================================================================
