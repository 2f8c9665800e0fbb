-------------------------- MODULE EpochTickerProofs --------------------------
(***************************************************************************)
(* Theorems about EpochTicker, for every number of runs and every set of   *)
(* timeouts.                                                               *)
(***************************************************************************)
EXTENDS EpochTicker, FiniteSetTheorems, TLAPS

----------------------------------------------------------------------------
(* Guards and the counter *)

\* The runs that hold a guard can be counted.
LEMMA GuardedFinite == IsFiniteSet(Guarded) /\ Cardinality(Guarded) \in Nat
<1>1. Guarded \in SUBSET Runs BY DEF Guarded
<1> QED BY <1>1, RunsAssumption, FS_Subset, FS_CardinalityType

\* A step that only moves a run within the phases with, or within those
\* without, a guard leaves the set of guards alone.
LEMMA GuardedKept ==
  ASSUME TypeOK, NEW r \in Runs, NEW p \in Phases,
         phase' = [phase EXCEPT ![r] = p],
         phase[r] \in {"running", "returned"} <=> p \in {"running", "returned"}
  PROVE  Guarded' = Guarded
  BY DEF TypeOK, Guarded

LEMMA GuardedGrows ==
  ASSUME TypeOK, NEW r \in Runs, BeginExecution(r)
  PROVE  Guarded' = Guarded \cup {r} /\ r \notin Guarded
  BY DEF TypeOK, Guarded, BeginExecution

LEMMA GuardedShrinks ==
  ASSUME TypeOK, NEW r \in Runs, DropGuard(r)
  PROVE  Guarded' = Guarded \ {r} /\ r \in Guarded
  BY DEF TypeOK, Guarded, DropGuard, Leave

\* Neither the type invariant nor TickerAwake is inductive alone: that the
\* counter is never negative rests on its being the number of guards.
Counted == TypeOK /\ TickerAwake

LEMMA InitCounted == ASSUME Init PROVE Counted
<1>1. Guarded = {} BY DEF Init, Guarded
<1>2. TypeOK
  <2>1. slept \in BOOLEAN BY DEF Init
  <2>2. 0 \in 0..MaxAge BY TimeoutsAssumption
  <2> QED BY <2>1, <2>2 DEF Init, TypeOK, Phases, Outcomes, NoDeadline
<1>3. TickerAwake BY <1>1, FS_EmptySet DEF Init, TickerAwake
<1> QED BY <1>2, <1>3 DEF Counted

\* The deadline of a store is a number of ticks, or out of reach.
LEMMA EpochTicksType ==
  ASSUME NEW t \in Timeouts \cup {NoTimeout}
  PROVE  /\ EpochTicks(t) \in Nat \cup {NoDeadline}
         /\ t # NoTimeout => EpochTicks(t) \in Nat /\ t <= EpochTicks(t) /\ EpochTicks(t) <= MaxAge
         /\ t = NoTimeout => EpochTicks(t) = NoDeadline
  BY TimeoutsAssumption DEF EpochTicks, NoTimeout, NoDeadline

LEMMA RunCounted ==
  ASSUME Counted, NEW r \in Runs, Run(r)
  PROVE  Counted'
<1> USE DEF Counted
<1>1. ASSUME NEW t \in Timeouts, ArmEpochTimeout(r, t) PROVE Counted'
  <2>1. Guarded' = Guarded
    BY <1>1, GuardedKept DEF ArmEpochTimeout, Phases
  <2>2. TypeOK'
    BY <1>1, EpochTicksType, TimeoutsAssumption
    DEF TypeOK, ArmEpochTimeout, tickerVars, Phases, Outcomes
  <2> QED BY <1>1, <2>1, <2>2 DEF TickerAwake, ArmEpochTimeout, tickerVars
<1>2. CASE LinkingFails(r)
  <2>1. Guarded' = Guarded
    BY <1>2, GuardedKept DEF LinkingFails, Leave, Phases
  <2>2. TypeOK'
    BY <1>2, TimeoutsAssumption DEF TypeOK, LinkingFails, Leave, tickerVars, Phases, Outcomes
  <2> QED BY <1>2, <2>1, <2>2 DEF TickerAwake, LinkingFails, tickerVars
<1>3. CASE BeginExecution(r)
  <2>1. TypeOK'
    BY <1>3 DEF TypeOK, BeginExecution, Phases
  <2>2. Cardinality(Guarded') = Cardinality(Guarded) + 1
    BY <1>3, GuardedGrows, GuardedFinite, FS_AddElement
  <2>3. ticker' # "waiting"
    <3>1. CASE activeSandboxes = 0
      BY <1>3, <3>1 DEF BeginExecution
    <3>2. CASE activeSandboxes # 0
      <4>1. ticker # "waiting"
        BY <3>2, FS_EmptySet DEF TickerAwake
      <4> QED BY <1>3, <4>1 DEF BeginExecution
    <3> QED BY <3>1, <3>2
  <2> QED BY <1>3, <2>1, <2>2, <2>3 DEF TickerAwake, BeginExecution
<1>4. ASSUME NEW how \in {"finished", "timed_out"}, Returns(r, how) PROVE Counted'
  <2>1. Guarded' = Guarded
    BY <1>4, GuardedKept DEF Returns, Phases
  <2>2. TypeOK'
    BY <1>4 DEF TypeOK, Returns, tickerVars, Phases, Outcomes
  <2> QED BY <1>4, <2>1, <2>2 DEF TickerAwake, Returns, tickerVars
<1>5. CASE DropGuard(r)
  <2>1. Cardinality(Guarded') = Cardinality(Guarded) - 1
    BY <1>5, GuardedShrinks, GuardedFinite, FS_RemoveElement
  <2>2. Cardinality(Guarded') \in Nat
    BY <1>5, GuardedShrinks, GuardedFinite, FS_RemoveElement, FS_CardinalityType
  <2>3. activeSandboxes' = Cardinality(Guarded')
    BY <1>5, <2>1 DEF TickerAwake, DropGuard
  <2>4. ticker' # "waiting"
    BY <1>5, GuardedShrinks DEF TickerAwake, DropGuard
  <2>5. TypeOK'
    BY <1>5, <2>2, <2>3, TimeoutsAssumption DEF TypeOK, DropGuard, Leave, Phases, Outcomes
  <2> QED BY <2>3, <2>4, <2>5 DEF TickerAwake
<1> QED BY <1>1, <1>2, <1>3, <1>4, <1>5 DEF Run, GuestFinishes, GuestInterrupted

LEMMA NextCounted ==
  ASSUME Counted, [Next]_vars
  PROVE  Counted'
<1> USE DEF Counted
<1>1. ASSUME UNCHANGED phase, TypeOK', UNCHANGED activeSandboxes,
             ticker' = "waiting" => activeSandboxes = 0 \/ ticker = "waiting"
      PROVE  Counted'
  <2>1. Guarded' = Guarded BY <1>1 DEF Guarded
  <2> QED BY <1>1, <2>1, GuardedFinite, FS_EmptySet DEF TickerAwake
<1>2. CASE TickerSleeps
  <2>1. TypeOK' BY <1>2 DEF TypeOK, TickerSleeps
  <2> QED BY <1>1, <1>2, <2>1 DEF TickerSleeps
<1>3. CASE TickerWaits
  <2>1. TypeOK' BY <1>3 DEF TypeOK, TickerWaits
  <2> QED BY <1>1, <1>3, <2>1 DEF TickerWaits
<1>4. CASE IncrementEpoch
  <2>1. slept' \in BOOLEAN BY <1>4 DEF IncrementEpoch
  <2>2. ticksLeft' \in [Runs -> Nat \cup {NoDeadline}]
    BY <1>4 DEF TypeOK, IncrementEpoch, NoDeadline
  <2>3. TypeOK' BY <1>4, <2>1, <2>2 DEF TypeOK, IncrementEpoch
  <2> QED BY <1>1, <1>4, <2>3 DEF IncrementEpoch
<1>5. CASE SpuriousWakeup
  <2>1. TypeOK' BY <1>5 DEF TypeOK, SpuriousWakeup
  <2> QED BY <1>1, <1>5, <2>1 DEF SpuriousWakeup
<1>6. CASE MillisecondPasses
  <2>1. slept' \in BOOLEAN BY <1>6 DEF MillisecondPasses
  <2>2. age' \in [Runs -> 0..MaxAge]
    BY <1>6, TimeoutsAssumption DEF TypeOK, MillisecondPasses
  <2>3. TypeOK' BY <1>6, <2>1, <2>2 DEF TypeOK, MillisecondPasses
  <2> QED BY <1>1, <1>6, <2>3 DEF MillisecondPasses
<1>7. CASE UNCHANGED vars
  <2>1. TypeOK' BY <1>7 DEF TypeOK, vars
  <2> QED BY <1>1, <1>7, <2>1 DEF vars
<1> QED BY RunCounted, <1>2, <1>3, <1>4, <1>5, <1>6, <1>7 DEF Next, Ticker

LEMMA AlwaysCounted == Spec => []Counted
  BY InitCounted, NextCounted, PTL DEF Spec

(***************************************************************************)
(* Type correctness; the counter of active sandboxes never underflows.     *)
(***************************************************************************)
THEOREM TypeCorrect == Spec => []TypeOK
<1>1. Counted => TypeOK BY DEF Counted
<1> QED BY <1>1, AlwaysCounted, PTL

(***************************************************************************)
(* No lost wakeup: the ticker never waits while a run holds a guard.       *)
(***************************************************************************)
THEOREM NoLostWakeup == Spec => []TickerAwake
<1>1. Counted => TickerAwake BY DEF Counted
<1> QED BY <1>1, AlwaysCounted, PTL

----------------------------------------------------------------------------
(* Timeouts *)

\* The ticks a run has seen never exceed its age by more than one, and do not
\* exceed it while the next tick is due: then the millisecond slept for that
\* tick is part of the age already.
Ticking(r) ==
  /\ phase[r] # "idle" /\ timeout[r] # NoTimeout =>
       /\ ticksLeft[r] \in Nat
       /\ EpochTicks(timeout[r]) - ticksLeft[r] <= age[r] + 1
       /\ ticker = "sleeping" /\ slept => EpochTicks(timeout[r]) - ticksLeft[r] <= age[r]
  /\ phase[r] # "idle" /\ timeout[r] = NoTimeout => ticksLeft[r] = NoDeadline
  /\ outcome[r] = "timed_out" => phase[r] = "returned" /\ ticksLeft[r] = 0

AllTicking == \A r \in Runs : Ticking(r)

LEMMA InitTicking == ASSUME Init PROVE AllTicking
  BY DEF Init, AllTicking, Ticking

LEMMA NextTicking ==
  ASSUME TypeOK, AllTicking, [Next]_vars
  PROVE  AllTicking'
<1> SUFFICES ASSUME NEW q \in Runs PROVE Ticking(q)'
  BY DEF AllTicking
<1>0. Ticking(q) BY DEF AllTicking
<1>1. ASSUME NEW r \in Runs, NEW t \in Timeouts, ArmEpochTimeout(r, t) PROVE Ticking(q)'
  <2>1. CASE r = q
    <3>1. /\ phase'[q] = "armed" /\ timeout'[q] = t /\ ticksLeft'[q] = EpochTicks(t)
          /\ age'[q] = 0 /\ outcome'[q] = "none"
      BY <1>1, <2>1 DEF TypeOK, ArmEpochTimeout
    <3> QED BY <3>1, EpochTicksType DEF Ticking
  <2>2. CASE r # q
    BY <1>0, <1>1, <2>2 DEF TypeOK, ArmEpochTimeout, tickerVars, Ticking
  <2> QED BY <2>1, <2>2
<1>2. ASSUME NEW r \in Runs, LinkingFails(r) \/ DropGuard(r) PROVE Ticking(q)'
  <2>1. Leave(r) /\ UNCHANGED <<ticker, slept>>
    BY <1>2 DEF LinkingFails, DropGuard, tickerVars
  <2>2. CASE r = q
    BY <2>1, <2>2 DEF TypeOK, Leave, Ticking
  <2>3. CASE r # q
    BY <1>0, <2>1, <2>3 DEF TypeOK, Leave, Ticking
  <2> QED BY <2>2, <2>3
<1>3. ASSUME NEW r \in Runs, BeginExecution(r) PROVE Ticking(q)'
  <2>1. UNCHANGED <<slept, timeout, ticksLeft, age, outcome>>
    BY <1>3 DEF BeginExecution
  <2>2. ticker' = "sleeping" => ticker = "sleeping"
    BY <1>3 DEF BeginExecution
  <2>3. (phase'[q] # "idle" => phase[q] # "idle") /\ (phase[q] = "returned" => phase'[q] = "returned")
    BY <1>3 DEF TypeOK, BeginExecution
  <2> QED BY <1>0, <2>1, <2>2, <2>3 DEF Ticking
<1>4. ASSUME NEW r \in Runs, GuestFinishes(r) PROVE Ticking(q)'
  BY <1>0, <1>4 DEF TypeOK, GuestFinishes, Returns, tickerVars, Ticking
<1>5. ASSUME NEW r \in Runs, GuestInterrupted(r) PROVE Ticking(q)'
  BY <1>0, <1>5 DEF TypeOK, GuestInterrupted, Returns, tickerVars, Ticking
<1>6. CASE TickerSleeps
  BY <1>0, <1>6 DEF TickerSleeps, Ticking
<1>7. CASE TickerWaits \/ SpuriousWakeup
  BY <1>0, <1>7 DEF TickerWaits, SpuriousWakeup, Ticking
<1>8. CASE IncrementEpoch
  <2>1. ticker = "sleeping" /\ slept /\ ticker' = "checking" /\ UNCHANGED <<phase, timeout, age, outcome>>
    BY <1>8 DEF IncrementEpoch
  <2>2. ticksLeft'[q] = IF ticksLeft[q] > 0 THEN ticksLeft[q] - 1 ELSE ticksLeft[q]
    BY <1>8 DEF IncrementEpoch
  <2>3. phase[q] # "idle" /\ timeout[q] # NoTimeout =>
          ticksLeft[q] \in Nat /\ EpochTicks(timeout[q]) - ticksLeft[q] <= age[q]
    BY <1>0, <2>1 DEF Ticking
  <2>4. timeout[q] # NoTimeout => EpochTicks(timeout[q]) \in Nat
    BY EpochTicksType DEF TypeOK
  <2>5. age[q] \in Nat BY DEF TypeOK
  <2>6. phase[q] # "idle" /\ timeout[q] # NoTimeout =>
          ticksLeft'[q] \in Nat /\ EpochTicks(timeout[q]) - ticksLeft'[q] <= age[q] + 1
    BY <2>2, <2>3, <2>4, <2>5
  <2>7. /\ ticksLeft[q] = NoDeadline => ticksLeft'[q] = NoDeadline
        /\ ticksLeft[q] = 0 => ticksLeft'[q] = 0
    BY <2>2 DEF NoDeadline
  <2> QED BY <1>0, <2>1, <2>6, <2>7 DEF Ticking
<1>9. CASE MillisecondPasses
  <2>1. UNCHANGED <<ticker, phase, timeout, ticksLeft, outcome>>
    BY <1>9 DEF MillisecondPasses
  <2>2. age'[q] = IF phase[q] = "idle" \/ age[q] = MaxAge THEN age[q] ELSE age[q] + 1
    BY <1>9 DEF MillisecondPasses
  <2>3. age[q] \in 0..MaxAge BY DEF TypeOK
  <2>4. ASSUME phase[q] # "idle", timeout[q] # NoTimeout
        PROVE  /\ ticksLeft[q] \in Nat
               /\ EpochTicks(timeout[q]) - ticksLeft[q] <= age'[q]
               /\ EpochTicks(timeout[q]) - ticksLeft[q] <= age'[q] + 1
    <3>1. ticksLeft[q] \in Nat /\ EpochTicks(timeout[q]) - ticksLeft[q] <= age[q] + 1
      BY <1>0, <2>4 DEF Ticking
    <3>2. EpochTicks(timeout[q]) \in Nat /\ EpochTicks(timeout[q]) <= MaxAge
      BY <2>4, EpochTicksType DEF TypeOK
    <3> QED BY <2>2, <2>3, <2>4, <3>1, <3>2, TimeoutsAssumption
  <2> QED BY <1>0, <2>1, <2>4 DEF Ticking
<1>10. CASE UNCHANGED vars
  BY <1>0, <1>10 DEF vars, Ticking
<1> QED BY <1>1, <1>2, <1>3, <1>4, <1>5, <1>6, <1>7, <1>8, <1>9, <1>10 DEF Next, Run, Ticker

LEMMA InterruptedLate ==
  ASSUME TypeOK, AllTicking, NEW r \in Runs, ticksLeft[r] = 0, phase[r] # "idle"
  PROVE  timeout[r] # NoTimeout /\ age[r] >= timeout[r] - 1
<1>1. timeout[r] # NoTimeout BY DEF AllTicking, Ticking, NoDeadline
<1>2. EpochTicks(timeout[r]) - ticksLeft[r] <= age[r] + 1
  BY <1>1 DEF AllTicking, Ticking
<1>3. /\ EpochTicks(timeout[r]) \in Nat /\ timeout[r] <= EpochTicks(timeout[r])
      /\ timeout[r] \in Nat
  BY <1>1, EpochTicksType, TimeoutsAssumption DEF TypeOK
<1>4. age[r] \in Nat BY DEF TypeOK
<1> QED BY <1>1, <1>2, <1>3, <1>4

LEMMA AlwaysTicking == Spec => [](TypeOK /\ AllTicking)
<1>1. Init => AllTicking BY InitTicking
<1>2. TypeOK /\ AllTicking /\ [Next]_vars => AllTicking' BY NextTicking
<1> QED BY <1>1, <1>2, TypeCorrect, PTL DEF Spec

(***************************************************************************)
(* No run is interrupted more than a millisecond before its timeout, and   *)
(* none without one, whatever other runs share the epoch.                  *)
(***************************************************************************)
THEOREM NeverEarly == Spec => []NotEarly
<1>1. TypeOK /\ AllTicking => NotEarly
  BY InterruptedLate DEF NotEarly, AllTicking, Ticking
<1> QED BY <1>1, AlwaysTicking, PTL

----------------------------------------------------------------------------
(* The watchdog *)

LEMMA StepIsWatchdogStep ==
  ASSUME TypeOK, AllTicking, [Next]_vars
  PROVE  [Dog!Next]_Dog!watchVars
<1> USE DEF Dog!watchVars
<1>1. ASSUME NEW r \in Runs, NEW t \in Timeouts, ArmEpochTimeout(r, t)
      PROVE  Dog!Watch(r, t)
  BY <1>1 DEF TypeOK, ArmEpochTimeout, Dog!Watch, Dog!Reset
<1>2. ASSUME NEW r \in Runs, LinkingFails(r) \/ DropGuard(r) PROVE Dog!Forget(r)
  BY <1>2 DEF TypeOK, LinkingFails, DropGuard, Leave, Dog!Forget, Dog!Reset, Dog!Unlimited, NoTimeout
<1>3. ASSUME NEW r \in Runs, NEW how \in {"finished", "timed_out"}, Returns(r, how)
      PROVE  Dog!End(r, how)
  BY <1>3 DEF TypeOK, Returns, Dog!End
<1>4. ASSUME NEW r \in Runs, GuestInterrupted(r) PROVE Dog!TimeOut(r)
  <2>1. Returns(r, "timed_out") /\ ticksLeft[r] = 0 /\ phase[r] # "idle"
    BY <1>4 DEF GuestInterrupted, Returns
  <2>2. timeout[r] # NoTimeout /\ age[r] >= timeout[r] - 1 BY <2>1, InterruptedLate
  <2> QED BY <1>3, <2>1, <2>2 DEF Dog!TimeOut, Dog!Unlimited, NoTimeout
<1>5. ASSUME NEW r \in Runs, BeginExecution(r) PROVE UNCHANGED Dog!watchVars
  BY <1>5 DEF TypeOK, BeginExecution
<1>6. CASE MillisecondPasses
  BY <1>6 DEF TypeOK, Phases, MillisecondPasses, Dog!Next, Dog!Elapse
<1>7. CASE Ticker \/ SpuriousWakeup \/ UNCHANGED vars
  BY <1>7 DEF Ticker, TickerSleeps, TickerWaits, IncrementEpoch, SpuriousWakeup, vars
<1> QED BY <1>1, <1>2, <1>3, <1>4, <1>5, <1>6, <1>7
        DEF Next, Run, GuestFinishes, Dog!Next, Dog!Finish

(***************************************************************************)
(* The ticker implements Watchdog with a grace of one millisecond.         *)
(***************************************************************************)
THEOREM ImplementsWatchdog == Spec => WatchdogSpec
<1>1. Init => Dog!Init BY DEF Init, Dog!Init, Dog!Unlimited, NoTimeout
<1>2. TypeOK /\ AllTicking /\ [Next]_vars => [Dog!Next]_Dog!watchVars BY StepIsWatchdogStep
<1> QED BY <1>1, <1>2, AlwaysTicking, PTL DEF Spec, WatchdogSpec, Dog!Spec
=============================================================================
