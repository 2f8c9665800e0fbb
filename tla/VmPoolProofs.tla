---------------------------- MODULE VmPoolProofs ----------------------------
(***************************************************************************)
(* Theorems about VmPool, for every pool configuration, every set of       *)
(* faults and every clock.                                                 *)
(***************************************************************************)
EXTENDS VmPool, FiniteSetTheorems, SequenceTheorems, WellFoundedInduction, TLAPS

----------------------------------------------------------------------------
(* Operators *)

\* The earliest of some instants is one of them and no later than the others.
LEMMA MinOfNaturals ==
  ASSUME NEW S \in SUBSET Nat, S # {}
  PROVE  Min(S) \in S /\ \A t \in S : Min(S) <= t
<1> DEFINE R == OpToRel(<, Nat)
<1>1. \A x, y \in S : y < x => <<y, x>> \in R
  BY DEF OpToRel
<1>2. IsWellFoundedOn(R, Nat)
  BY NatLessThanWellFounded
<1> HIDE DEF R
<1>3. PICK x \in S : \A y \in S : ~(<<y, x>> \in R)
  BY <1>2, WFMin
<1>4. ASSUME NEW y \in S PROVE x <= y
  <2>1. ~(y < x) BY <1>1, <1>3, Zenon
  <2> QED BY <2>1
<1> QED BY <1>4 DEF Min

\* The set of VMs in some states is finite and has a natural cardinality.
LEMMA VmsInFinite ==
  ASSUME NEW pool, NEW s
  PROVE  IsFiniteSet(VmsIn(pool, s)) /\ Cardinality(VmsIn(pool, s)) \in Nat
<1>1. VmsIn(pool, s) \in SUBSET Vms BY DEF VmsIn
<1> QED BY <1>1, VmsAssumption, FS_Subset, FS_CardinalityType

\* Deficits and limits saturate at zero.
LEMMA MaxWithZero ==
  ASSUME NEW n \in Int
  PROVE  Max({0, n}) \in Nat
  BY DEF Max

\* The refill target is a natural number whatever the pool looks like.
LEMMA TargetType == BackgroundCreationTarget \in Nat
<1> DEFINE warm == WarmCount(vms)
           warmOrCreating == warm + CreatingCount
           floorDeficit == IF warm < MinWarm
                           THEN Max({0, PreferredReady - warmOrCreating}) ELSE 0
           scaleOut == ActiveCount > 0 /\ warm > 0 /\
                       LeasedCount * 100 >= ActiveCount * ScaleOutPercent
           proactiveDeficit == IF scaleOut THEN Max({0, 1 - CreatingCount}) ELSE 0
           wanted == Max({floorDeficit, proactiveDeficit})
           room == Max({0, HostCap - ActiveCount})
           slots == Max({0, MaxWarm - warmOrCreating})
<1>1. warm \in Nat /\ CreatingCount \in Nat /\ ActiveCount \in Nat /\ warmOrCreating \in Nat
  BY VmsInFinite DEF WarmCount, CreatingCount, ActiveCount, InPool
<1>2. floorDeficit \in Nat /\ proactiveDeficit \in Nat /\ room \in Nat /\ slots \in Nat
  <2> HIDE DEF warm, warmOrCreating, scaleOut
  <2> QED BY <1>1, MaxWithZero, SizesAssumption
<1>3. wanted \in Nat
  <2> HIDE DEF floorDeficit, proactiveDeficit
  <2> QED BY <1>2 DEF Max
<1>4. Min({wanted, room, slots}) \in {wanted, room, slots}
  <2> HIDE DEF wanted, room, slots
  <2> QED BY <1>2, <1>3, MinOfNaturals
<1>5. Min({wanted, room, slots}) \in Nat
  <2> HIDE DEF wanted, room, slots
  <2> QED BY <1>2, <1>3, <1>4
<1> QED BY <1>5 DEF BackgroundCreationTarget

----------------------------------------------------------------------------
(* The agenda *)

LEMMA AgendaPieces ==
  /\ AdvanceTo \in Seq(StepNames)
  /\ \A n \in Nat : Creations(n) \in Seq(StepNames)
  /\ \A s \in StepNames : <<s>> \in Seq(StepNames)
  BY DEF AdvanceTo, Creations, StepNames

\* Taking a step off the agenda and pushing others leaves an agenda.
LEMMA ProceedType ==
  ASSUME agenda \in Seq(StepNames), agenda # <<>>,
         NEW steps \in Seq(StepNames), Proceed(steps)
  PROVE  agenda' \in Seq(StepNames)
<1>1. Tail(agenda) \in Seq(StepNames) BY HeadTailProperties
<1> QED BY <1>1, ConcatProperties DEF Proceed

----------------------------------------------------------------------------
(* Type correctness *)

\* The part of TypeOK about the pool's data and the part about the call.
PoolTypeOK ==
  /\ vms \in [Vms -> [state : States, changedAt : Nat, readyAt : Nat]]
  /\ surplusSince \in Nat \cup {NoInstant}
  /\ metrics \in [created : 0..MaxCount, discarded : 0..MaxCount, failed : 0..MaxCount]
CallTypeOK ==
  /\ op \in [name : {"none", "refill", "acquire", "release", "reap"}, now : Nat,
             deadline : Nat, vm : Vms \cup {NoVm}, result : Results]
  /\ op.result = "acquired" => op.vm \in Vms

LEMMA IncrementType ==
  ASSUME NEW n \in 0..MaxCount
  PROVE  Increment(n) \in 0..MaxCount
  BY TimesAssumption DEF Increment

LEMMA FailType ==
  ASSUME CallTypeOK, Fail
  PROVE  CallTypeOK' /\ agenda' \in Seq(StepNames)
  BY DEF CallTypeOK, Fail, Results

LEMMA DiscardVmType ==
  ASSUME PoolTypeOK, CallTypeOK, agenda \in Seq(StepNames), host \subseteq Vms,
         NEW v, NEW failed \in BOOLEAN, NEW next \in Seq(StepNames),
         DiscardVm(v, failed, next)
  PROVE  /\ vms' \in [Vms -> [state : States, changedAt : Nat, readyAt : Nat]]
         /\ metrics' \in [created : 0..MaxCount, discarded : 0..MaxCount, failed : 0..MaxCount]
         /\ CallTypeOK'
         /\ agenda' \in Seq(StepNames)
         /\ host' \subseteq Vms
<1>1. vms' \in [Vms -> [state : States, changedAt : Nat, readyAt : Nat]]
  BY DEF PoolTypeOK, DiscardVm, AbsentVm, States
<1>2. metrics' \in [created : 0..MaxCount, discarded : 0..MaxCount, failed : 0..MaxCount]
  <2>1. Increment(metrics.discarded) \in 0..MaxCount /\ Increment(metrics.failed) \in 0..MaxCount
    BY IncrementType DEF PoolTypeOK
  <2> QED BY <2>1 DEF PoolTypeOK, DiscardVm
<1>3. CASE UNCHANGED op /\ agenda' = next /\ host' = host \ {v}
  BY <1>1, <1>2, <1>3 DEF CallTypeOK
<1>4. CASE Fail /\ UNCHANGED host
  BY <1>1, <1>2, <1>4, FailType
<1> QED BY <1>3, <1>4 DEF DiscardVm

LEMMA MarkerType ==
  ASSUME NEW pool, NEW marker \in Nat \cup {NoInstant}, NEW now \in Nat
  PROVE  SurplusMarker(pool, marker, now) \in Nat \cup {NoInstant}
  BY DEF SurplusMarker

LEMMA LeaseVmType ==
  ASSUME PoolTypeOK, CallTypeOK, host \subseteq Vms, NEW v \in Vms, LeaseVm(v)
  PROVE  PoolTypeOK' /\ CallTypeOK' /\ agenda' \in Seq(StepNames)
<1>1. op.now \in Nat BY DEF CallTypeOK
<1>2. vms' \in [Vms -> [state : States, changedAt : Nat, readyAt : Nat]]
  BY <1>1 DEF PoolTypeOK, LeaseVm, States
<1>3. surplusSince' \in Nat \cup {NoInstant}
  BY <1>1, MarkerType DEF PoolTypeOK, LeaseVm
<1>4. CallTypeOK'
  BY DEF LeaseVm, CallTypeOK, Results
<1>5. agenda' \in Seq(StepNames)
  BY AgendaPieces, ConcatProperties DEF LeaseVm, StepNames
<1> QED BY <1>2, <1>3, <1>4, <1>5 DEF PoolTypeOK, LeaseVm


LEMMA BeginType ==
  ASSUME TypeOK, NEW now \in Nat, NEW deadline \in Nat, NEW v \in Vms \cup {NoVm},
         NEW steps \in Seq(StepNames), NEW name \in {"refill", "acquire", "release", "reap"},
         Begin(name, now, deadline, v, steps), handles' \subseteq handles
  PROVE  TypeOK'
<1>1. CallTypeOK' BY DEF Begin, CallTypeOK, Results
<1>2. agenda' \in Seq(StepNames) BY AgendaPieces, ConcatProperties DEF Begin
<1>3. UNCHANGED <<poolVars, lastObserved, host, lowAt>> BY DEF Begin
<1> QED BY <1>1, <1>2, <1>3 DEF TypeOK, CallTypeOK, poolVars

LEMMA TypeStepCall ==
  ASSUME TypeOK, Call
  PROVE  TypeOK'
<1>1. /\ <<"start_background_creations">> \in Seq(StepNames)
      /\ <<"acquire">> \in Seq(StepNames)
      /\ <<"release">> \in Seq(StepNames)
      /\ <<"scale_in_if_needed", "start_background_creations">> \in Seq(StepNames)
  BY DEF StepNames
<1>2. <<"scale_in_if_needed", "start_background_creations">> \o AdvanceTo \in Seq(StepNames)
  BY <1>1, AgendaPieces, ConcatProperties
<1>3. Clock \subseteq Nat BY TimesAssumption DEF Clock
<1>4. CASE Refill  BY <1>1, <1>3, <1>4, BeginType DEF Refill
<1>5. CASE Acquire
  <2>1. PICK now \in Clock, timeout \in RequestTimeouts :
               Begin("acquire", now, now + timeout, NoVm, <<"acquire">>)
    BY <1>5 DEF Acquire
  <2>2. now \in Nat /\ now + timeout \in Nat BY <1>3, TimesAssumption
  <2>3. handles' \subseteq handles BY <1>5 DEF Acquire
  <2> QED BY <1>1, <2>1, <2>2, <2>3, BeginType
<1>6. CASE Release
  <2>1. PICK now \in Clock, h \in handles :
               /\ Begin("release", now, now, h.vm, <<"release">>)
               /\ handles' \in {handles \ {h}} \cup (IF "clone" \in Faults THEN {handles} ELSE {})
    BY <1>6 DEF Release
  <2>2. h.vm \in Vms BY DEF TypeOK
  <2>3. handles' \subseteq handles BY <2>1
  <2> QED BY <1>1, <1>3, <2>1, <2>2, <2>3, BeginType
<1>7. CASE Reap  BY <1>2, <1>3, <1>7, BeginType DEF Reap
<1> QED BY <1>4, <1>5, <1>6, <1>7 DEF Call

LEMMA TypeStepReturn ==
  ASSUME TypeOK, Return
  PROVE  TypeOK'
<1>1. handles' \subseteq [vm : Vms, at : Nat] BY DEF TypeOK, Return
<1>2. CallTypeOK' BY DEF Return, NoCall, CallTypeOK, Results
<1> QED BY <1>1, <1>2 DEF TypeOK, CallTypeOK, Return, poolVars

\* TypeOK without the ghost that Step sets from the rest of the state.
CoreTypeOK ==
  /\ PoolTypeOK
  /\ CallTypeOK
  /\ lastObserved \in Nat \cup {NoInstant}
  /\ agenda \in Seq(StepNames)
  /\ handles \subseteq [vm : Vms, at : Nat]
  /\ host \subseteq Vms

\* Every step of a call preserves the types.
LEMMA TypeStepStep ==
  ASSUME CoreTypeOK, Step
  PROVE  CoreTypeOK'
<1> USE DEF CoreTypeOK
<1>a. agenda # <<>> BY DEF Step, ObserveTime, RejectPast, DiscardStale, NoneStale,
        PromoteHealthy, DiscardUnhealthy, NoneReady, UpdateWarmSurplusMarker, StartCreation,
        CreationFails, StartBackgroundCreations, ScaleInIfNeeded, EvictSurplus, SurplusEvicted,
        AcquireHit, AcquireMiss, AcquireWaited, AcquireSkipAhead, AcquireRetry, AcquireTimedOut,
        ReleaseRejected, ReleaseScrubbed, ReleaseUnscrubbed, At
<1>b. <<>> \in Seq(StepNames) /\ AdvanceTo \in Seq(StepNames)
  BY AgendaPieces, EmptySeq
<1>c. op.now \in Nat /\ op.deadline \in Nat BY DEF CallTypeOK
<1>d. /\ <<"start_creation">> \o AdvanceTo \in Seq(StepNames)
      /\ AdvanceTo \o <<"acquire_retry", "acquire_wait">> \in Seq(StepNames)
      /\ AdvanceTo \o <<"start_background_creations">> \o AdvanceTo \in Seq(StepNames)
      /\ <<"start_background_creations", "update_warm_surplus_marker">> \in Seq(StepNames)
      /\ <<"evict_surplus">> \in Seq(StepNames)
      /\ <<"acquire_wait">> \in Seq(StepNames)
  <2>1. /\ <<"start_creation">> \in Seq(StepNames)
        /\ <<"acquire_retry", "acquire_wait">> \in Seq(StepNames)
        /\ <<"start_background_creations">> \in Seq(StepNames)
        /\ <<"start_background_creations", "update_warm_surplus_marker">> \in Seq(StepNames)
        /\ <<"evict_surplus">> \in Seq(StepNames)
        /\ <<"acquire_wait">> \in Seq(StepNames)
    BY DEF StepNames
  <2>2. AdvanceTo \o <<"start_background_creations">> \in Seq(StepNames)
    BY <2>1, <1>b, ConcatProperties
  <2> QED BY <2>1, <2>2, <1>b, ConcatProperties
<1>1. CASE ObserveTime
  BY <1>1, <1>a, <1>b, <1>c, ProceedType DEF ObserveTime, poolVars, PoolTypeOK, CallTypeOK
<1>2. CASE RejectPast
  BY <1>2, FailType DEF RejectPast, poolVars, PoolTypeOK
<1>3. CASE DiscardStale
  BY <1>3, DiscardVmType DEF DiscardStale, PoolTypeOK
<1>4. CASE NoneStale
  BY <1>4, <1>a, <1>b, ProceedType DEF NoneStale, poolVars, PoolTypeOK, CallTypeOK
<1>5. CASE PromoteHealthy
  <2>1. PICK v \in ReadyAt(op.now) :
               vms' = [vms EXCEPT ![v] =
                         [state |-> "Warm", changedAt |-> op.now, readyAt |-> op.now]]
    BY <1>5 DEF PromoteHealthy
  <2>2. vms' \in [Vms -> [state : States, changedAt : Nat, readyAt : Nat]]
    BY <2>1, <1>c DEF PoolTypeOK, States
  <2> QED BY <2>2, <1>5 DEF PromoteHealthy, PoolTypeOK, CallTypeOK
<1>6. CASE DiscardUnhealthy
  BY <1>6, DiscardVmType DEF DiscardUnhealthy, PoolTypeOK
<1>7. CASE NoneReady
  BY <1>7, <1>a, <1>b, ProceedType DEF NoneReady, poolVars, PoolTypeOK, CallTypeOK
<1>8. CASE UpdateWarmSurplusMarker
  <2>1. agenda' \in Seq(StepNames)
    BY <1>8, <1>a, <1>b, ProceedType DEF UpdateWarmSurplusMarker
  <2>2. surplusSince' \in Nat \cup {NoInstant}
    BY <1>8, <1>c, MarkerType DEF UpdateWarmSurplusMarker, PoolTypeOK
  <2> QED BY <2>1, <2>2, <1>8 DEF UpdateWarmSurplusMarker, PoolTypeOK, CallTypeOK
<1>9. CASE StartCreation
  <2>1. CASE CreationRefused
    BY <1>9, <2>1, <1>a, <1>b, ProceedType DEF StartCreation, PoolTypeOK, CallTypeOK
  <2>2. CASE ~CreationRefused
    <3>1. PICK v \in FreshVms, after \in ReadyAfter : InsertCreated(v, op.now + after)
      BY <1>9, <2>2 DEF StartCreation
    <3>2. v \in Vms /\ op.now + after \in Nat
      BY <1>c, TimesAssumption DEF FreshVms
    <3>3. host' \subseteq Vms BY <3>1, <3>2 DEF InsertCreated
    <3>4. CASE op.now + after <= MaxInstant
      <4>1. vms' \in [Vms -> [state : States, changedAt : Nat, readyAt : Nat]]
        <5>1. vms' = [vms EXCEPT ![v] = [state |-> "Creating", changedAt |-> op.now,
                                         readyAt |-> op.now + after]]
          BY <3>1, <3>4 DEF InsertCreated
        <5> QED BY <5>1, <3>2, <1>c DEF PoolTypeOK, States
      <4>2. metrics' \in [created : 0..MaxCount, discarded : 0..MaxCount, failed : 0..MaxCount]
        BY <3>1, <3>4, IncrementType DEF InsertCreated, PoolTypeOK
      <4>3. agenda' \in Seq(StepNames)
        BY <3>1, <3>4, <1>a, <1>b, ProceedType DEF InsertCreated
      <4>4. CallTypeOK' BY <3>1, <3>4 DEF InsertCreated, CallTypeOK
      <4> QED BY <3>3, <4>1, <4>2, <4>3, <4>4, <1>9 DEF StartCreation, PoolTypeOK
    <3>5. CASE ~(op.now + after <= MaxInstant)
      BY <3>1, <3>3, <3>5, <1>9, FailType DEF InsertCreated, StartCreation, PoolTypeOK
    <3> QED BY <3>4, <3>5
  <2> QED BY <2>1, <2>2
<1>10. CASE CreationFails
  BY <1>10, FailType DEF CreationFails, poolVars, PoolTypeOK
<1>11. CASE StartBackgroundCreations
  <2>1. Creations(BackgroundCreationTarget) \o AdvanceTo \in Seq(StepNames)
    BY TargetType, AgendaPieces, ConcatProperties
  <2> QED BY <1>11, <1>a, <2>1, ProceedType
          DEF StartBackgroundCreations, poolVars, PoolTypeOK, CallTypeOK
<1>12. CASE ScaleInIfNeeded
  BY <1>12, <1>a, <1>b, <1>d, ProceedType DEF ScaleInIfNeeded, PoolTypeOK, CallTypeOK
<1>13. CASE EvictSurplus
  BY <1>13, DiscardVmType DEF EvictSurplus, PoolTypeOK
<1>14. CASE SurplusEvicted
  <2>1. agenda' \in Seq(StepNames)
    BY <1>14, <1>a, <1>b, ProceedType DEF SurplusEvicted
  <2>2. surplusSince' \in Nat \cup {NoInstant}
    BY <1>14, <1>c, MarkerType DEF SurplusEvicted, PoolTypeOK
  <2> QED BY <2>1, <2>2, <1>14 DEF SurplusEvicted, PoolTypeOK, CallTypeOK
<1>15. CASE AcquireHit
  BY <1>15, LeaseVmType DEF AcquireHit, LeaseVm, OldestWarm, VmsIn
<1>16. CASE AcquireMiss
  <2>1. CASE Fail
    BY <1>16, <2>1, FailType DEF AcquireMiss, poolVars, PoolTypeOK
  <2>2. CASE ~(op.deadline > MaxInstant)
    <3>1. (IF NothingOnTheWay THEN <<"start_creation">> \o AdvanceTo ELSE <<>>)
            \o <<"acquire_wait">> \in Seq(StepNames)
      BY <1>b, <1>d, ConcatProperties
    <3> QED BY <1>16, <2>2, <3>1, <1>a, ProceedType
            DEF AcquireMiss, poolVars, PoolTypeOK, CallTypeOK
  <2> QED BY <1>16, <2>1, <2>2 DEF AcquireMiss
<1>17. CASE AcquireWaited
  BY <1>17, LeaseVmType DEF AcquireWaited, LeaseVm, OldestWarm, VmsIn
<1>18. CASE AcquireSkipAhead
  <2>1. NextTransitionReadyAt \in Nat
    <3>1. {vms[v].readyAt : v \in Pending} \in SUBSET Nat
      BY DEF PoolTypeOK, Pending, VmsIn
    <3>2. {vms[v].readyAt : v \in Pending} # {}
      BY <1>18 DEF AcquireSkipAhead, SomethingInTime
    <3> QED BY <3>1, <3>2, MinOfNaturals DEF NextTransitionReadyAt
  <2>2. CallTypeOK' BY <1>18, <2>1 DEF AcquireSkipAhead, CallTypeOK
  <2> QED BY <1>18, <2>2, <1>a, <1>d, ProceedType DEF AcquireSkipAhead, poolVars, PoolTypeOK
<1>19. CASE AcquireRetry
  BY <1>19, <1>a, <1>b, <1>d, ProceedType DEF AcquireRetry, poolVars, PoolTypeOK, CallTypeOK
<1>20. CASE AcquireTimedOut
  <2>1. CallTypeOK' BY <1>20 DEF AcquireTimedOut, CallTypeOK, Results
  <2> QED BY <1>20, <2>1, <1>a, <1>b, ProceedType DEF AcquireTimedOut, poolVars, PoolTypeOK
<1>21. CASE ReleaseRejected
  BY <1>21, FailType DEF ReleaseRejected, poolVars, PoolTypeOK
<1>22. CASE ReleaseScrubbed
  <2>1. PICK after \in ReadyAfter :
               IF op.now + after > MaxInstant
               THEN Fail /\ UNCHANGED vms
               ELSE /\ vms' = [vms EXCEPT ![op.vm] =
                                 [state |-> "Draining", changedAt |-> op.now,
                                  readyAt |-> op.now + after]]
                    /\ Proceed(AdvanceTo \o <<"start_background_creations">> \o AdvanceTo)
                    /\ UNCHANGED op
    BY <1>22 DEF ReleaseScrubbed
  <2>2. op.now + after \in Nat BY <1>c, TimesAssumption
  <2>3. CASE op.now + after > MaxInstant
    BY <1>22, <2>1, <2>3, FailType DEF ReleaseScrubbed, PoolTypeOK
  <2>4. CASE ~(op.now + after > MaxInstant)
    <3>1. vms' \in [Vms -> [state : States, changedAt : Nat, readyAt : Nat]]
      BY <2>1, <2>2, <2>4, <1>c DEF PoolTypeOK, States
    <3>2. agenda' \in Seq(StepNames)
      BY <2>1, <2>4, <1>a, <1>d, ProceedType
    <3> QED BY <1>22, <2>1, <2>4, <3>1, <3>2 DEF ReleaseScrubbed, PoolTypeOK, CallTypeOK
  <2> QED BY <2>3, <2>4
<1>23. CASE ReleaseUnscrubbed
  BY <1>23, <1>d, DiscardVmType DEF ReleaseUnscrubbed, PoolTypeOK
<1> QED BY <1>1, <1>2, <1>3, <1>4, <1>5, <1>6, <1>7, <1>8, <1>9, <1>10, <1>11, <1>12, <1>13,
           <1>14, <1>15, <1>16, <1>17, <1>18, <1>19, <1>20, <1>21, <1>22, <1>23 DEF Step

(* Every variable keeps its type, the agenda stays a list of steps, and the  *)
(* counters stay within their width, for all parameters and faults.          *)
THEOREM TypeCorrect == Spec => []TypeOK
<1>1. Init => TypeOK
  <2>1. Init => <<>> \in Seq(StepNames) BY EmptySeq
  <2> QED BY <2>1, TimesAssumption DEF Init, TypeOK, AbsentVm, NoCall, States, Results
<1>2. TypeOK /\ [Next]_vars => TypeOK'
  <2>1. ASSUME TypeOK, Step PROVE TypeOK'
    <3>1. CoreTypeOK BY <2>1 DEF TypeOK, CoreTypeOK, PoolTypeOK, CallTypeOK
    <3>2. CoreTypeOK' BY <2>1, <3>1, TypeStepStep
    <3>3. lowAt' \in Nat \cup {NoInstant} BY <2>1, <3>2 DEF Step, NoteLow, CoreTypeOK, TypeOK
    <3> QED BY <3>2, <3>3 DEF TypeOK, CoreTypeOK, PoolTypeOK, CallTypeOK
  <2>2. ASSUME TypeOK, UNCHANGED vars PROVE TypeOK' BY <2>2 DEF TypeOK, vars
  <2> QED BY <2>1, <2>2, TypeStepCall, TypeStepReturn DEF Next
<1> QED BY <1>1, <1>2, PTL DEF Spec

----------------------------------------------------------------------------
(* What one step of a call can do to the VMs *)

VmRecords == [state : States, changedAt : Nat, readyAt : Nat]

\* The five ways a step changes VM v to w, with what is known when it does.
Created(v, w) == w.state = "Creating" /\ v \in FreshVms /\ ~CreationRefused
Warmed(v, w) == w.state = "Warm" /\ v \in Pending
LeasedNow(v, w) == w.state = "Leased" /\ vms[v].state = "Warm"
Drained(v, w) == w.state = "Draining" /\ v = op.vm /\ At("release") /\ vms[v].state = "Leased"
Discarded(v, w) == /\ w.state = "Absent"
                   /\ \/ v \in Pending \/ vms[v].state = "Warm"
                      \/ v = op.vm /\ At("release") /\ vms[v].state = "Leased"
Change(v, w) == \/ Created(v, w) \/ Warmed(v, w) \/ LeasedNow(v, w)
                \/ Drained(v, w) \/ Discarded(v, w)
OneChange == \E v \in Vms, w \in VmRecords : vms' = [vms EXCEPT ![v] = w] /\ Change(v, w)

LEMMA DiscardChanges ==
  ASSUME NEW v, NEW failed, NEW next, DiscardVm(v, failed, next),
         \/ v \in Pending \/ v \in OldestWarm
         \/ v = op.vm /\ At("release") /\ vms[v].state = "Leased" /\ v \in Vms
  PROVE  OneChange
<1>1. v \in Vms /\ (v \in OldestWarm => vms[v].state = "Warm")
  BY DEF Pending, OldestWarm, VmsIn
<1>2. vms' = [vms EXCEPT ![v] = AbsentVm]
  BY DEF DiscardVm
<1>3. AbsentVm \in VmRecords /\ AbsentVm.state = "Absent"
  BY DEF AbsentVm, VmRecords, States
<1>4. Discarded(v, AbsentVm) BY <1>1, <1>3 DEF Discarded
<1> QED BY <1>1, <1>2, <1>3, <1>4 DEF OneChange, Change

LEMMA LeaseChanges ==
  ASSUME CoreTypeOK, NEW v \in OldestWarm, LeaseVm(v)
  PROVE  OneChange
<1> DEFINE w == [state |-> "Leased", changedAt |-> op.now, readyAt |-> op.now]
<1>1. v \in Vms /\ vms[v].state = "Warm" BY DEF OldestWarm, VmsIn
<1>2. w \in VmRecords /\ w.state = "Leased"
  BY DEF CoreTypeOK, CallTypeOK, VmRecords, States
<1>3. vms' = [vms EXCEPT ![v] = w] BY DEF LeaseVm
<1>4. LeasedNow(v, w) BY <1>1, <1>2 DEF LeasedNow
<1> HIDE DEF w
<1> QED BY <1>1, <1>2, <1>3, <1>4 DEF OneChange, Change

\* A step leaves every VM alone or moves one VM along the lifecycle, and only
\* calls and returns touch the callers' leases.
LEMMA StepChanges ==
  ASSUME CoreTypeOK, Step
  PROVE  UNCHANGED handles /\ (UNCHANGED vms \/ OneChange)
<1>1. CASE \/ ObserveTime \/ RejectPast \/ NoneStale \/ NoneReady \/ UpdateWarmSurplusMarker
           \/ CreationFails \/ StartBackgroundCreations \/ ScaleInIfNeeded \/ SurplusEvicted
           \/ AcquireMiss \/ AcquireSkipAhead \/ AcquireRetry \/ AcquireTimedOut
           \/ ReleaseRejected
  BY <1>1 DEF ObserveTime, RejectPast, NoneStale, NoneReady, UpdateWarmSurplusMarker,
       CreationFails, StartBackgroundCreations, ScaleInIfNeeded, SurplusEvicted, AcquireMiss,
       AcquireSkipAhead, AcquireRetry, AcquireTimedOut, ReleaseRejected, poolVars
<1>2. CASE DiscardStale
  BY <1>2, DiscardChanges DEF DiscardStale, StaleAt
<1>3. CASE DiscardUnhealthy
  BY <1>3, DiscardChanges DEF DiscardUnhealthy, ReadyAt
<1>4. CASE EvictSurplus
  BY <1>4, DiscardChanges DEF EvictSurplus
<1>5. CASE PromoteHealthy
  <2> DEFINE w == [state |-> "Warm", changedAt |-> op.now, readyAt |-> op.now]
  <2>1. PICK v \in ReadyAt(op.now) : vms' = [vms EXCEPT ![v] = w]
    BY <1>5 DEF PromoteHealthy
  <2>2. w \in VmRecords /\ w.state = "Warm"
    BY DEF CoreTypeOK, CallTypeOK, VmRecords, States
  <2>3. v \in Vms /\ v \in Pending BY DEF ReadyAt, Pending, VmsIn
  <2>4. UNCHANGED handles BY <1>5 DEF PromoteHealthy
  <2> HIDE DEF w
  <2> QED BY <2>1, <2>2, <2>3, <2>4 DEF OneChange, Change, Warmed
<1>6. CASE StartCreation
  <2>1. UNCHANGED handles BY <1>6 DEF StartCreation
  <2>2. CASE CreationRefused BY <1>6, <2>1, <2>2 DEF StartCreation
  <2>3. CASE ~CreationRefused
    <3>1. PICK v \in FreshVms, after \in ReadyAfter : InsertCreated(v, op.now + after)
      BY <1>6, <2>3 DEF StartCreation
    <3>2. CASE op.now + after <= MaxInstant
      <4> DEFINE w == [state |-> "Creating", changedAt |-> op.now, readyAt |-> op.now + after]
      <4>1. vms' = [vms EXCEPT ![v] = w] BY <3>1, <3>2 DEF InsertCreated
      <4>2. w \in VmRecords /\ w.state = "Creating"
        BY TimesAssumption DEF CoreTypeOK, CallTypeOK, VmRecords, States
      <4>3. v \in Vms BY DEF FreshVms
      <4> HIDE DEF w
      <4> QED BY <2>1, <2>3, <4>1, <4>2, <4>3 DEF OneChange, Change, Created
    <3>3. CASE ~(op.now + after <= MaxInstant)
      BY <2>1, <3>1, <3>3 DEF InsertCreated
    <3> QED BY <3>2, <3>3
  <2> QED BY <2>2, <2>3
<1>7. CASE AcquireHit
  BY <1>7, LeaseChanges DEF AcquireHit, LeaseVm
<1>8. CASE AcquireWaited
  BY <1>8, LeaseChanges DEF AcquireWaited, LeaseVm
<1>9. CASE ReleaseScrubbed
  <2>1. UNCHANGED handles BY <1>9 DEF ReleaseScrubbed
  <2>2. vms[op.vm].state = "Leased" /\ At("release") BY <1>9 DEF ReleaseScrubbed
  <2>3. PICK after \in ReadyAfter :
          \/ UNCHANGED vms
          \/ vms' = [vms EXCEPT ![op.vm] = [state |-> "Draining", changedAt |-> op.now,
                                            readyAt |-> op.now + after]]
    BY <1>9 DEF ReleaseScrubbed
  <2> DEFINE w == [state |-> "Draining", changedAt |-> op.now, readyAt |-> op.now + after]
  <2>4. w \in VmRecords /\ w.state = "Draining"
    BY TimesAssumption DEF CoreTypeOK, CallTypeOK, VmRecords, States
  <2>5. CASE op.vm \notin Vms
    BY <2>1, <2>3, <2>5 DEF CoreTypeOK, PoolTypeOK
  <2>6. CASE op.vm \in Vms
    <3>1. UNCHANGED vms \/ vms' = [vms EXCEPT ![op.vm] = w] BY <2>3
    <3> HIDE DEF w
    <3> QED BY <2>1, <2>2, <2>4, <2>6, <3>1 DEF OneChange, Change, Drained
  <2> QED BY <2>5, <2>6
<1>10. CASE ReleaseUnscrubbed
  <2>1. UNCHANGED handles /\ At("release") /\ vms[op.vm].state = "Leased"
    BY <1>10 DEF ReleaseUnscrubbed
  <2>2. CASE op.vm \in Vms
    BY <2>1, <2>2, <1>10, DiscardChanges DEF ReleaseUnscrubbed
  <2>3. CASE op.vm \notin Vms
    BY <2>1, <2>3, <1>10 DEF ReleaseUnscrubbed, DiscardVm, CoreTypeOK, PoolTypeOK
  <2> QED BY <2>2, <2>3
<1> QED BY <1>1, <1>2, <1>3, <1>4, <1>5, <1>6, <1>7, <1>8, <1>9, <1>10 DEF Step

----------------------------------------------------------------------------
(* The pool stays within its cap *)

(* The VMs the pool counts as active never exceed per_host_concurrency_cap,  *)
(* whatever the provider, the clock and the callers do: start_creation is    *)
(* the only way into the map and checks the cap there and then.              *)
THEOREM PoolBounded == Spec => []PoolWithinCap
<1>1. Init => PoolWithinCap
  <2>1. Init => InPool = {} BY DEF Init, InPool, VmsIn, AbsentVm
  <2> QED BY <2>1, FS_EmptySet, SizesAssumption DEF PoolWithinCap
<1>2. TypeOK /\ PoolWithinCap /\ [Next]_vars => PoolWithinCap'
  <2> SUFFICES ASSUME TypeOK, PoolWithinCap, [Next]_vars PROVE PoolWithinCap'
    OBVIOUS
  <2>1. CASE UNCHANGED vms
    BY <2>1 DEF PoolWithinCap, InPool, VmsIn
  <2>2. CASE Step
    <3>1. CoreTypeOK BY DEF TypeOK, CoreTypeOK, PoolTypeOK, CallTypeOK
    <3>2. CASE OneChange
      <4>1. PICK v \in Vms, w \in VmRecords : vms' = [vms EXCEPT ![v] = w] /\ Change(v, w)
        BY <3>2 DEF OneChange
      <4>2. vms \in [Vms -> VmRecords] BY <3>1 DEF CoreTypeOK, PoolTypeOK, VmRecords
      <4>3. IsFiniteSet(InPool) /\ Cardinality(InPool) \in Nat BY VmsInFinite DEF InPool
      <4>4. CASE Created(v, w)
        <5>1. InPool' = InPool \cup {v}
          BY <4>1, <4>2, <4>4 DEF Created, InPool, VmsIn, States
        <5>2. Cardinality(InPool) < HostCap
          BY <4>3, <4>4, SizesAssumption DEF Created, CreationRefused, ActiveCount
        <5>3. Cardinality(InPool \cup {v}) <= Cardinality(InPool) + 1
          <6>1. Cardinality(InPool \cup {v}) =
                  IF v \in InPool THEN Cardinality(InPool) ELSE Cardinality(InPool) + 1
            BY <4>3, FS_AddElement, Zenon
          <6> QED BY <6>1, <4>3
        <5>4. Cardinality(InPool \cup {v}) \in Nat
          BY <4>3, FS_AddElement, FS_CardinalityType
        <5> QED BY <5>1, <5>2, <5>3, <5>4, <4>3, SizesAssumption DEF PoolWithinCap
      <4>5. CASE ~Created(v, w)
        <5>1. v \in InPool
          BY <4>1, <4>5 DEF Change, Warmed, LeasedNow, Drained, Discarded, Pending, InPool,
               VmsIn, States
        <5>2. InPool' \in SUBSET InPool
          BY <5>1, <4>1, <4>2 DEF InPool, VmsIn
        <5>3. IsFiniteSet(InPool') /\ Cardinality(InPool') \in Nat
          BY <5>2, <4>3, FS_Subset, FS_CardinalityType
        <5> QED BY <5>2, <5>3, <4>3, FS_Subset, SizesAssumption DEF PoolWithinCap
      <4> QED BY <4>4, <4>5
    <3> QED BY <2>1, <2>2, <3>1, <3>2, StepChanges
  <2>3. CASE Call
    BY <2>1, <2>3 DEF Call, Refill, Acquire, Release, Reap, Begin, poolVars
  <2>4. CASE Return
    BY <2>1, <2>4 DEF Return, poolVars
  <2>5. CASE UNCHANGED vars
    BY <2>1, <2>5 DEF vars
  <2> QED BY <2>2, <2>3, <2>4, <2>5 DEF Next
<1> QED BY <1>1, <1>2, TypeCorrect, PTL DEF Spec

----------------------------------------------------------------------------
(* Leases *)

\* What can still run once acquire has leased a VM.
InnerSteps == {"observe_time", "discard_stale_transitions", "promote_ready_vms",
               "update_warm_surplus_marker", "start_creation", "start_background_creations"}

(* HandlesValid is not inductive: it does not say that the VM a call is      *)
(* working on is in nobody's hands, nor that the VM acquire is about to      *)
(* return stays leased while the rest of acquire runs.                       *)
LeaseInv ==
  /\ HandlesValid
  /\ \A h \in handles : h.vm # op.vm
  /\ op.result = "acquired" =>
       /\ vms[op.vm].state = "Leased"
       /\ vms[op.vm].changedAt = op.now
       /\ agenda \in Seq(InnerSteps)

LEMMA InnerPieces ==
  /\ AdvanceTo \in Seq(InnerSteps)
  /\ \A n \in Nat : Creations(n) \in Seq(InnerSteps)
  /\ <<>> \in Seq(InnerSteps)
  /\ <<"start_background_creations">> \in Seq(InnerSteps)
  BY EmptySeq DEF AdvanceTo, Creations, InnerSteps

LEMMA InnerProceed ==
  ASSUME agenda \in Seq(InnerSteps), agenda # <<>>,
         NEW steps \in Seq(InnerSteps), Proceed(steps)
  PROVE  agenda' \in Seq(InnerSteps)
<1>1. Tail(agenda) \in Seq(InnerSteps) BY HeadTailProperties
<1> QED BY <1>1, ConcatProperties DEF Proceed

\* The steps that run inside advance_to and the refill.
InnerStep == \/ ObserveTime \/ RejectPast \/ DiscardStale \/ NoneStale \/ PromoteHealthy
             \/ DiscardUnhealthy \/ NoneReady \/ UpdateWarmSurplusMarker \/ StartCreation
             \/ CreationFails \/ StartBackgroundCreations

\* Once only such steps are left, they are all that runs until the call ends,
\* and they do not touch the result except to replace it by the error.
LEMMA InnerStepsStayInner ==
  ASSUME agenda \in Seq(InnerSteps), Step
  PROVE  /\ InnerStep
         /\ agenda' \in Seq(InnerSteps)
         /\ UNCHANGED op \/ op' = [op EXCEPT !.result = "err"]
<1>1. InnerStep
  <2>1. agenda # <<>> => Head(agenda) \in InnerSteps BY HeadTailProperties
  <2> QED BY <2>1 DEF Step, InnerStep, InnerSteps, At, ScaleInIfNeeded, EvictSurplus,
             SurplusEvicted, AcquireHit, AcquireMiss, AcquireWaited, AcquireSkipAhead,
             AcquireRetry, AcquireTimedOut, ReleaseRejected, ReleaseScrubbed, ReleaseUnscrubbed
<1>2. agenda # <<>>
  BY <1>1 DEF InnerStep, At, ObserveTime, RejectPast, DiscardStale, NoneStale, PromoteHealthy,
       DiscardUnhealthy, NoneReady, UpdateWarmSurplusMarker, StartCreation, CreationFails,
       StartBackgroundCreations
<1>3. CASE ObserveTime \/ NoneStale \/ NoneReady \/ UpdateWarmSurplusMarker
  <2>1. Proceed(<<>>) /\ UNCHANGED op
    BY <1>3 DEF ObserveTime, NoneStale, NoneReady, UpdateWarmSurplusMarker
  <2> QED BY <1>1, <1>2, <2>1, InnerPieces, InnerProceed
<1>4. CASE RejectPast \/ CreationFails
  BY <1>1, <1>4, InnerPieces DEF RejectPast, CreationFails, Fail
<1>5. CASE DiscardStale \/ DiscardUnhealthy
  BY <1>1, <1>5, InnerPieces DEF DiscardStale, DiscardUnhealthy, DiscardVm, Fail
<1>6. CASE PromoteHealthy
  BY <1>1, <1>6 DEF PromoteHealthy
<1>7. CASE StartCreation
  <2>1. \/ Proceed(<<>>) /\ UNCHANGED op
        \/ Fail
    BY <1>7 DEF StartCreation, InsertCreated
  <2> QED BY <1>1, <1>2, <2>1, InnerPieces, InnerProceed DEF Fail
<1>8. CASE StartBackgroundCreations
  <2>1. Creations(BackgroundCreationTarget) \o AdvanceTo \in Seq(InnerSteps)
    BY TargetType, InnerPieces, ConcatProperties
  <2> QED BY <1>1, <1>2, <1>8, <2>1, InnerProceed DEF StartBackgroundCreations
<1> QED BY <1>1, <1>3, <1>4, <1>5, <1>6, <1>7, <1>8 DEF InnerStep

\* A step acquires a VM only by leasing a warm one; otherwise the call keeps
\* the VM it works on, and the result is acquired only if it was before.
LEMMA ResultStep ==
  ASSUME CoreTypeOK, Step
  PROVE  \/ (AcquireHit \/ AcquireWaited) /\ \E v \in OldestWarm : LeaseVm(v)
         \/ /\ op'.vm = op.vm
            /\ op'.result = "acquired" => op.result = "acquired"
<1>1. CASE AcquireHit \/ AcquireWaited
  BY <1>1 DEF AcquireHit, AcquireWaited
<1>2. CASE \/ UNCHANGED op \/ Fail
           \/ op' = [op EXCEPT !.result = "timed_out"]
           \/ \E t \in Nat : op' = [op EXCEPT !.now = t]
  BY <1>2 DEF CoreTypeOK, CallTypeOK, Fail
<1>3. CASE AcquireSkipAhead
  BY <1>3 DEF AcquireSkipAhead, CoreTypeOK, CallTypeOK
<1>4. CASE AcquireTimedOut
  BY <1>2, <1>4 DEF AcquireTimedOut
<1>5. CASE Step /\ ~(AcquireHit \/ AcquireWaited \/ AcquireSkipAhead \/ AcquireTimedOut)
  BY <1>2, <1>5 DEF Step, ObserveTime, RejectPast, DiscardStale, NoneStale, PromoteHealthy,
       DiscardUnhealthy, NoneReady, UpdateWarmSurplusMarker, StartCreation, InsertCreated,
       CreationFails, StartBackgroundCreations, ScaleInIfNeeded, EvictSurplus, SurplusEvicted,
       AcquireMiss, AcquireRetry, ReleaseRejected, ReleaseScrubbed, ReleaseUnscrubbed, DiscardVm
<1> QED BY <1>1, <1>3, <1>4, <1>5

\* The VM a step changes is in nobody's hands, and it is not the VM that a call
\* is about to return.
LEMMA ChangedVmIsFree ==
  ASSUME CoreTypeOK, LeaseInv, Step, NEW v \in Vms, NEW w \in VmRecords, Change(v, w)
  PROVE  /\ v \notin {h.vm : h \in handles}
         /\ op.result = "acquired" => v # op.vm
<1>1. \A h \in handles : vms[h.vm].state = "Leased" /\ h.vm # op.vm
  BY DEF LeaseInv, HandlesValid
<1>2. op.result = "acquired" => vms[op.vm].state = "Leased" /\ ~At("release")
  <2>1. op.result = "acquired" => InnerStep
    BY InnerStepsStayInner DEF LeaseInv
  <2>2. InnerStep => ~At("release")
    BY DEF InnerStep, At, ObserveTime, RejectPast, DiscardStale, NoneStale, PromoteHealthy,
         DiscardUnhealthy, NoneReady, UpdateWarmSurplusMarker, StartCreation, CreationFails,
         StartBackgroundCreations
  <2> QED BY <2>1, <2>2 DEF LeaseInv
<1>3. CASE Created(v, w)
  BY <1>3 DEF Created, FreshVms
<1>4. CASE ~Created(v, w)
  <2>1. \/ vms[v].state # "Leased"
        \/ v = op.vm /\ At("release")
    BY <1>4 DEF Change, Warmed, LeasedNow, Drained, Discarded, Pending, VmsIn
  <2> QED BY <1>1, <1>2, <2>1
<1> QED BY <1>3, <1>4

LEMMA LeaseInvStep ==
  ASSUME CoreTypeOK, LeaseInv, Step
  PROVE  LeaseInv'
<1>1. UNCHANGED handles /\ (UNCHANGED vms \/ OneChange)
  BY StepChanges
<1>2. \A v \in Vms : v \in {h.vm : h \in handles} \/ (op.result = "acquired" /\ v = op.vm)
                       => vms'[v] = vms[v]
  BY <1>1, ChangedVmIsFree DEF OneChange, CoreTypeOK, PoolTypeOK
<1>3. HandlesValid'
  BY <1>1, <1>2 DEF LeaseInv, HandlesValid, CoreTypeOK
<1>4. CASE \E v \in OldestWarm : LeaseVm(v)
  <2>1. PICK v \in OldestWarm : LeaseVm(v) BY <1>4
  <2>2. v \in Vms /\ vms[v].state = "Warm" BY DEF OldestWarm, VmsIn
  <2>3. op'.vm = v /\ op'.now = op.now
    BY <2>1 DEF LeaseVm, CoreTypeOK, CallTypeOK
  <2>4. \A h \in handles' : h.vm # op'.vm
    BY <1>1, <2>2, <2>3 DEF LeaseInv, HandlesValid
  <2>5. vms'[v].state = "Leased" /\ vms'[v].changedAt = op.now
    BY <2>1, <2>2 DEF LeaseVm, CoreTypeOK, PoolTypeOK
  <2>6. agenda' \in Seq(InnerSteps)
    BY <2>1, InnerPieces, ConcatProperties DEF LeaseVm
  <2> QED BY <1>3, <2>3, <2>4, <2>5, <2>6 DEF LeaseInv
<1>5. CASE op'.vm = op.vm /\ (op'.result = "acquired" => op.result = "acquired")
  <2>1. \A h \in handles' : h.vm # op'.vm BY <1>1, <1>5 DEF LeaseInv
  <2>2. ASSUME op'.result = "acquired"
        PROVE  /\ vms'[op'.vm].state = "Leased"
               /\ vms'[op'.vm].changedAt = op'.now
               /\ agenda' \in Seq(InnerSteps)
    <3>1. op.result = "acquired" /\ op.vm \in Vms
      BY <1>5, <2>2 DEF CoreTypeOK, CallTypeOK
    <3>2. agenda' \in Seq(InnerSteps) /\ (UNCHANGED op \/ op' = [op EXCEPT !.result = "err"])
      BY <3>1, InnerStepsStayInner DEF LeaseInv
    <3>3. op'.now = op.now BY <3>2 DEF CoreTypeOK, CallTypeOK
    <3> QED BY <1>2, <1>5, <3>1, <3>2, <3>3 DEF LeaseInv
  <2> QED BY <1>3, <2>1, <2>2 DEF LeaseInv
<1> QED BY <1>4, <1>5, ResultStep

\* While no caller keeps clones, LeaseInv is inductive relative to TypeOK.
LEMMA LeaseInvInductive ==
  ASSUME "clone" \notin Faults
  PROVE  /\ Init => LeaseInv
         /\ TypeOK /\ LeaseInv /\ [Next]_vars => LeaseInv'
<1>1. Init => LeaseInv
  BY DEF Init, LeaseInv, HandlesValid, NoCall
<1>2. ASSUME TypeOK, LeaseInv, [Next]_vars PROVE LeaseInv'
  <2>1. CASE Step
    <3>1. CoreTypeOK BY <1>2 DEF TypeOK, CoreTypeOK, PoolTypeOK, CallTypeOK
    <3> QED BY <1>2, <2>1, <3>1, LeaseInvStep
  <2>2. CASE Refill \/ Acquire \/ Reap
    <3>1. UNCHANGED <<vms, handles>> /\ op'.vm = NoVm /\ op'.result = "ok"
      BY <2>2 DEF Refill, Acquire, Reap, Begin, poolVars
    <3>2. \A h \in handles : h.vm # NoVm BY <1>2, VmsAssumption DEF TypeOK
    <3> QED BY <1>2, <3>1, <3>2 DEF LeaseInv, HandlesValid
  <2>3. CASE Release
    <3>1. PICK now \in Clock, h \in handles :
            /\ Begin("release", now, now, h.vm, <<"release">>)
            /\ handles' = handles \ {h}
      BY <2>3 DEF Release
    <3>2. UNCHANGED vms /\ op'.vm = h.vm /\ op'.result = "ok"
      BY <3>1 DEF Begin, poolVars
    <3>3. \A g \in handles' : g.vm # h.vm BY <1>2, <3>1 DEF LeaseInv, HandlesValid
    <3> QED BY <1>2, <3>1, <3>2, <3>3 DEF LeaseInv, HandlesValid
  <2>4. CASE Return
    <3>1. UNCHANGED vms /\ op'.vm = NoVm /\ op'.result = "ok"
      BY <2>4 DEF Return, NoCall, poolVars
    <3>2. handles' \subseteq [vm : Vms, at : Nat]
      BY <1>2, <2>4 DEF TypeOK, Return
    <3>3. \A h \in handles' : h.vm # NoVm BY <3>2, VmsAssumption
    <3>4. HandlesValid'
      <4>1. CASE op.result = "acquired"
        <5>1. handles' = handles \cup {[vm |-> op.vm, at |-> op.now]}
          BY <2>4, <4>1 DEF Return
        <5>2. vms[op.vm].state = "Leased" /\ vms[op.vm].changedAt = op.now
          BY <1>2, <4>1 DEF LeaseInv
        <5> QED BY <1>2, <3>1, <5>1, <5>2 DEF LeaseInv, HandlesValid
      <4>2. CASE op.result # "acquired"
        BY <1>2, <2>4, <3>1, <4>2 DEF Return, LeaseInv, HandlesValid
      <4> QED BY <4>1, <4>2
    <3> QED BY <3>1, <3>3, <3>4 DEF LeaseInv
  <2>5. CASE UNCHANGED vars
    BY <1>2, <2>5 DEF vars, LeaseInv, HandlesValid
  <2> QED BY <1>2, <2>1, <2>2, <2>3, <2>4, <2>5 DEF Next, Call
<1> QED BY <1>1, <1>2

(* Every lease in a caller's hands is good, for any number of VMs, any       *)
(* configuration and any failures of the provider or the clock, as long as   *)
(* callers give each lease back once.                                        *)
THEOREM HandlesAlwaysValid ==
  ASSUME "clone" \notin Faults
  PROVE  Spec => []HandlesValid
<1>1. Spec => []LeaseInv
  BY LeaseInvInductive, TypeCorrect, PTL DEF Spec
<1>2. LeaseInv => HandlesValid BY DEF LeaseInv
<1> QED BY <1>1, <1>2, PTL

----------------------------------------------------------------------------
(* The pool implements the lifecycle *)

status == [v \in Vms |-> vms[v].state]
leasedOut == {h.vm : h \in handles}

LEMMA InitIsLifecycleInit == Init => Lifecycle!Init
  BY DEF Init, Lifecycle!Init, AbsentVm

\* A step of a call is one lifecycle step of one VM or none.
LEMMA StepIsLifecycleStep ==
  ASSUME CoreTypeOK, LeaseInv, Step
  PROVE  Lifecycle!Next \/ UNCHANGED Lifecycle!vars
<1>1. leasedOut' = leasedOut /\ UNCHANGED handles
  BY StepChanges DEF leasedOut
<1>2. CASE UNCHANGED vms
  BY <1>1, <1>2 DEF Lifecycle!vars
<1>3. CASE OneChange
  <2>1. PICK v \in Vms, w \in VmRecords : vms' = [vms EXCEPT ![v] = w] /\ Change(v, w)
    BY <1>3 DEF OneChange
  <2>2. status' = [status EXCEPT ![v] = w.state] /\ status[v] = vms[v].state
    BY <2>1 DEF status, CoreTypeOK, PoolTypeOK
  <2>3. v \notin leasedOut BY <2>1, ChangedVmIsFree DEF leasedOut
  <2>4. vms[v].state \in States BY DEF CoreTypeOK, PoolTypeOK
  <2>5. \/ w.state = "Creating" /\ status[v] = "Absent"
        \/ w.state = "Warm" /\ status[v] \in {"Creating", "Draining"}
        \/ w.state = "Leased" /\ status[v] = "Warm"
        \/ w.state = "Draining" /\ status[v] = "Leased"
        \/ w.state = "Absent" /\ status[v] \in {"Creating", "Warm", "Leased", "Draining"}
    BY <2>1, <2>2, <2>4 DEF Change, Created, Warmed, LeasedNow, Drained, Discarded, FreshVms,
         InPool, Pending, VmsIn, States
  <2>6. \/ Lifecycle!Boot(v) \/ Lifecycle!Ready(v) \/ Lifecycle!Lease(v)
        \/ Lifecycle!Drain(v) \/ Lifecycle!Discard(v)
    BY <1>1, <2>2, <2>3, <2>5
       DEF status, leasedOut, Lifecycle!Boot, Lifecycle!Ready, Lifecycle!Lease,
           Lifecycle!Drain, Lifecycle!Discard, Lifecycle!Move, Lifecycle!Statuses
  <2> QED BY <2>6 DEF Lifecycle!Next
<1> QED BY <1>2, <1>3, StepChanges

(* The pool implements VmLifecycle for every configuration and any faults,   *)
(* as long as callers give each lease back once: whichever way a call ends,  *)
(* a VM a caller holds is never drained, destroyed or leased to another.     *)
THEOREM ImplementsLifecycle ==
  ASSUME "clone" \notin Faults
  PROVE  Spec => LifecycleSpec
<1>1. TypeOK /\ LeaseInv /\ [Next]_vars => [Lifecycle!Next]_(Lifecycle!vars)
  <2> SUFFICES ASSUME TypeOK, LeaseInv, [Next]_vars
               PROVE  Lifecycle!Next \/ UNCHANGED Lifecycle!vars
    OBVIOUS
  <2>1. CASE Step
    <3>1. CoreTypeOK BY DEF TypeOK, CoreTypeOK, PoolTypeOK, CallTypeOK
    <3> QED BY <2>1, <3>1, StepIsLifecycleStep
  <2>2. CASE \/ Refill \/ Acquire \/ Reap \/ UNCHANGED vars
    <3>1. UNCHANGED <<vms, handles>>
      BY <2>2 DEF Refill, Acquire, Reap, Begin, poolVars, vars
    <3> QED BY <3>1 DEF Lifecycle!vars
  <2>3. CASE Release
    <3>1. PICK now \in Clock, h \in handles :
            /\ Begin("release", now, now, h.vm, <<"release">>)
            /\ handles' = handles \ {h}
      BY <2>3 DEF Release
    <3>2. UNCHANGED vms BY <3>1 DEF Begin, poolVars
    <3>3. leasedOut' = leasedOut \ {h.vm} /\ h.vm \in leasedOut
      BY <3>1 DEF leasedOut, LeaseInv, HandlesValid
    <3>4. h.vm \in Vms BY DEF TypeOK
    <3>5. Lifecycle!GiveBack(h.vm)
      BY <3>2, <3>3 DEF leasedOut, Lifecycle!GiveBack
    <3> QED BY <3>4, <3>5 DEF Lifecycle!Next
  <2>4. CASE Return
    <3>1. UNCHANGED vms BY <2>4 DEF Return, poolVars
    <3>2. CASE op.result = "acquired"
      <4>1. handles' = handles \cup {[vm |-> op.vm, at |-> op.now]}
        BY <2>4, <3>2 DEF Return
      <4>2. leasedOut' = leasedOut \cup {op.vm}
        <5>1. [vm |-> op.vm, at |-> op.now].vm = op.vm OBVIOUS
        <5> QED BY <4>1, <5>1, Zenon DEF leasedOut
      <4>3. op.vm \in Vms /\ op.vm \notin leasedOut /\ vms[op.vm].state = "Leased"
        BY <3>2 DEF TypeOK, LeaseInv, leasedOut
      <4>4. PICK v \in Vms : v = op.vm BY <4>3
      <4>5. Lifecycle!HandOver(v)
        BY <3>1, <4>2, <4>3, <4>4 DEF leasedOut, Lifecycle!HandOver
      <4> QED BY <4>5 DEF Lifecycle!Next
    <3>3. CASE op.result # "acquired"
      <4>1. UNCHANGED handles BY <2>4, <3>3 DEF Return
      <4> QED BY <3>1, <4>1 DEF Lifecycle!vars
    <3> QED BY <3>2, <3>3
  <2> QED BY <2>1, <2>2, <2>3, <2>4 DEF Next, Call
<1>2. Spec => [](TypeOK /\ LeaseInv)
  BY LeaseInvInductive, TypeCorrect, PTL DEF Spec
<1> QED BY <1>1, <1>2, InitIsLifecycleInit, PTL DEF Spec, LifecycleSpec, Lifecycle!Spec

----------------------------------------------------------------------------
(* The host stays within its cap when cleanup works *)

\* No instant a call is given or computes exceeds what an Instant can hold.
InstantsFit == /\ MaxTime <= MaxInstant
               /\ \A d \in ReadyAfter \cup RequestTimeouts : MaxTime + d <= MaxInstant

\* The provider has exactly the VMs the pool knows; the clock stays in range.
HostInv == host = InPool /\ op.now <= MaxTime /\ op.deadline <= MaxTime

LEMMA DiscardKeepsHostExact ==
  ASSUME CoreTypeOK, host = InPool, "destroy" \notin Faults,
         NEW v, NEW failed, NEW next, DiscardVm(v, failed, next)
  PROVE  host' = InPool'
<1>1. host' = host \ {v} /\ vms' = [vms EXCEPT ![v] = AbsentVm]
  BY DEF DiscardVm
<1>2. InPool' = InPool \ {v}
  BY <1>1 DEF InPool, VmsIn, AbsentVm, CoreTypeOK, PoolTypeOK, States
<1> QED BY <1>1, <1>2

\* Rewriting a VM the pool has, into another state than Absent, keeps it there.
LEMMA RewriteKeepsPool ==
  ASSUME CoreTypeOK, NEW v \in Vms, NEW w \in VmRecords, v \in InPool, w.state # "Absent",
         vms' = [vms EXCEPT ![v] = w]
  PROVE  InPool' = InPool
  BY DEF InPool, VmsIn, CoreTypeOK, PoolTypeOK, VmRecords, States

LEMMA HostStaysExact ==
  ASSUME CoreTypeOK, HostInv, Step, "destroy" \notin Faults, InstantsFit
  PROVE  host' = InPool'
<1>1. CASE UNCHANGED <<vms, host>>
  BY <1>1 DEF HostInv, InPool, VmsIn
<1>2. CASE DiscardStale \/ DiscardUnhealthy \/ EvictSurplus \/ ReleaseUnscrubbed
  BY <1>2, DiscardKeepsHostExact
     DEF DiscardStale, DiscardUnhealthy, EvictSurplus, ReleaseUnscrubbed, HostInv
<1>3. CASE StartCreation /\ ~CreationRefused
  <2>1. PICK v \in FreshVms, after \in ReadyAfter : InsertCreated(v, op.now + after)
    BY <1>3 DEF StartCreation
  <2>2. op.now + after <= MaxInstant
    BY TimesAssumption DEF InstantsFit, HostInv, CoreTypeOK, CallTypeOK
  <2>3. /\ host' = host \cup {v}
        /\ vms' = [vms EXCEPT ![v] = [state |-> "Creating", changedAt |-> op.now,
                                      readyAt |-> op.now + after]]
    BY <2>1, <2>2 DEF InsertCreated
  <2>4. InPool' = InPool \cup {v}
    BY <2>3 DEF InPool, VmsIn, FreshVms, CoreTypeOK, PoolTypeOK, States
  <2> QED BY <2>3, <2>4 DEF HostInv
<1>4. CASE \/ PromoteHealthy \/ ReleaseScrubbed
           \/ \E v \in OldestWarm : LeaseVm(v)
  <2>1. UNCHANGED host BY <1>4 DEF PromoteHealthy, ReleaseScrubbed, LeaseVm
  <2>2. CASE UNCHANGED vms BY <1>1, <2>1, <2>2
  <2>3. CASE PromoteHealthy
    <3> DEFINE w == [state |-> "Warm", changedAt |-> op.now, readyAt |-> op.now]
    <3>1. PICK v \in ReadyAt(op.now) : vms' = [vms EXCEPT ![v] = w]
      BY <2>3 DEF PromoteHealthy
    <3>2. v \in Vms /\ v \in InPool BY DEF ReadyAt, Pending, InPool, VmsIn, States
    <3>3. w \in VmRecords /\ w.state # "Absent"
      BY DEF CoreTypeOK, CallTypeOK, VmRecords, States
    <3> HIDE DEF w
    <3> QED BY <2>1, <3>1, <3>2, <3>3, RewriteKeepsPool DEF HostInv
  <2>4. CASE \E v \in OldestWarm : LeaseVm(v)
    <3> DEFINE w == [state |-> "Leased", changedAt |-> op.now, readyAt |-> op.now]
    <3>1. PICK v \in OldestWarm : vms' = [vms EXCEPT ![v] = w]
      BY <2>4 DEF LeaseVm
    <3>2. v \in Vms /\ v \in InPool BY DEF OldestWarm, InPool, VmsIn, States
    <3>3. w \in VmRecords /\ w.state # "Absent"
      BY DEF CoreTypeOK, CallTypeOK, VmRecords, States
    <3> HIDE DEF w
    <3> QED BY <2>1, <3>1, <3>2, <3>3, RewriteKeepsPool DEF HostInv
  <2>5. CASE ReleaseScrubbed
    <3>1. PICK after \in ReadyAfter :
            \/ UNCHANGED vms
            \/ vms' = [vms EXCEPT ![op.vm] = [state |-> "Draining", changedAt |-> op.now,
                                              readyAt |-> op.now + after]]
      BY <2>5 DEF ReleaseScrubbed
    <3> DEFINE w == [state |-> "Draining", changedAt |-> op.now, readyAt |-> op.now + after]
    <3>2. w \in VmRecords /\ w.state # "Absent"
      BY TimesAssumption DEF CoreTypeOK, CallTypeOK, VmRecords, States
    <3>3. op.vm \in Vms => op.vm \in InPool
      BY <2>5 DEF ReleaseScrubbed, InPool, VmsIn, States
    <3>4. op.vm \notin Vms => UNCHANGED vms
      BY <3>1 DEF CoreTypeOK, PoolTypeOK
    <3>5. UNCHANGED vms \/ vms' = [vms EXCEPT ![op.vm] = w] BY <3>1
    <3> HIDE DEF w
    <3> QED BY <2>1, <2>2, <3>2, <3>3, <3>4, <3>5, RewriteKeepsPool DEF HostInv
  <2> QED BY <1>4, <2>3, <2>4, <2>5
<1>5. CASE StartCreation /\ CreationRefused
  BY <1>1, <1>5 DEF StartCreation
<1>6. CASE \/ ObserveTime \/ RejectPast \/ NoneStale \/ NoneReady \/ UpdateWarmSurplusMarker
           \/ CreationFails \/ StartBackgroundCreations \/ ScaleInIfNeeded \/ SurplusEvicted
           \/ AcquireMiss \/ AcquireSkipAhead \/ AcquireRetry \/ AcquireTimedOut
           \/ ReleaseRejected
  BY <1>1, <1>6 DEF ObserveTime, RejectPast, NoneStale, NoneReady, UpdateWarmSurplusMarker,
       CreationFails, StartBackgroundCreations, ScaleInIfNeeded, SurplusEvicted, AcquireMiss,
       AcquireSkipAhead, AcquireRetry, AcquireTimedOut, ReleaseRejected, poolVars
<1>7. CASE AcquireHit \/ AcquireWaited
  BY <1>4, <1>7 DEF AcquireHit, AcquireWaited
<1> QED BY <1>2, <1>3, <1>4, <1>5, <1>6, <1>7 DEF Step

\* acquire never moves its cursor past its deadline.
LEMMA CursorStep ==
  ASSUME CoreTypeOK, HostInv, Step
  PROVE  op'.now <= MaxTime /\ op'.deadline <= MaxTime
<1>1. CASE \/ UNCHANGED op \/ Fail
           \/ op' = [op EXCEPT !.result = "timed_out"]
           \/ \E v \in Vms : op' = [op EXCEPT !.vm = v, !.result = "acquired"]
  BY <1>1 DEF HostInv, CoreTypeOK, CallTypeOK, Fail
<1>2. CASE AcquireSkipAhead
  <2>1. NextTransitionReadyAt <= op.deadline
    BY <1>2 DEF AcquireSkipAhead, SomethingInTime
  <2>2. NextTransitionReadyAt \in Nat
    <3>1. {vms[v].readyAt : v \in Pending} \in SUBSET Nat
      BY DEF CoreTypeOK, PoolTypeOK, Pending, VmsIn
    <3>2. {vms[v].readyAt : v \in Pending} # {}
      BY <1>2 DEF AcquireSkipAhead, SomethingInTime
    <3> QED BY <3>1, <3>2, MinOfNaturals DEF NextTransitionReadyAt
  <2>3. op'.now = NextTransitionReadyAt /\ op'.deadline = op.deadline
    BY <1>2 DEF AcquireSkipAhead, CoreTypeOK, CallTypeOK
  <2> QED BY <2>1, <2>2, <2>3, TimesAssumption DEF HostInv, CoreTypeOK, CallTypeOK
<1>3. CASE AcquireHit \/ AcquireWaited \/ AcquireTimedOut
  BY <1>1, <1>3 DEF AcquireHit, AcquireWaited, AcquireTimedOut, LeaseVm, OldestWarm, VmsIn
<1>4. CASE Step /\ ~(AcquireHit \/ AcquireWaited \/ AcquireSkipAhead \/ AcquireTimedOut)
  BY <1>1, <1>4 DEF Step, ObserveTime, RejectPast, DiscardStale, NoneStale, PromoteHealthy,
       DiscardUnhealthy, NoneReady, UpdateWarmSurplusMarker, StartCreation, InsertCreated,
       CreationFails, StartBackgroundCreations, ScaleInIfNeeded, EvictSurplus, SurplusEvicted,
       AcquireMiss, AcquireRetry, ReleaseRejected, ReleaseScrubbed, ReleaseUnscrubbed, DiscardVm
<1> QED BY <1>2, <1>3, <1>4

\* When destroy_vm always works and no Instant overflows, the provider never has
\* a VM the pool does not know: those are the only two ways it forgets one.
LEMMA HostInvInductive ==
  ASSUME "destroy" \notin Faults, InstantsFit
  PROVE  /\ Init => HostInv
         /\ TypeOK /\ HostInv /\ [Next]_vars => HostInv'
<1>1. Init => HostInv
  BY TimesAssumption DEF Init, HostInv, InPool, VmsIn, AbsentVm, NoCall
<1>2. TypeOK /\ HostInv /\ [Next]_vars => HostInv'
  <2> SUFFICES ASSUME TypeOK, HostInv, [Next]_vars PROVE HostInv'
    OBVIOUS
  <2>1. CASE Step
    <3>1. CoreTypeOK BY DEF TypeOK, CoreTypeOK, PoolTypeOK, CallTypeOK
    <3> QED BY <2>1, <3>1, HostStaysExact, CursorStep DEF HostInv
  <2>2. CASE Refill \/ Release \/ Reap
    <3>1. /\ UNCHANGED <<vms, host>>
          /\ \E now \in Clock : op'.now = now /\ op'.deadline = now
      BY <2>2 DEF Refill, Release, Reap, Begin, poolVars
    <3> QED BY <3>1 DEF HostInv, InPool, VmsIn, Clock
  <2>3. CASE Acquire
    <3>1. PICK now \in Clock, timeout \in RequestTimeouts :
            /\ now + timeout <= MaxTime \/ now + timeout > MaxInstant
            /\ Begin("acquire", now, now + timeout, NoVm, <<"acquire">>)
      BY <2>3 DEF Acquire
    <3>2. now + timeout <= MaxTime
      BY <3>1, TimesAssumption DEF InstantsFit, Clock
    <3>3. /\ UNCHANGED <<vms, host>>
          /\ op'.now = now /\ op'.deadline = now + timeout
      BY <3>1 DEF Begin, poolVars
    <3> QED BY <3>2, <3>3 DEF HostInv, InPool, VmsIn, Clock
  <2>4. CASE Return
    BY <2>4, TimesAssumption DEF Return, NoCall, HostInv, InPool, VmsIn, poolVars
  <2>5. CASE UNCHANGED vars
    BY <2>5 DEF vars, HostInv, InPool, VmsIn
  <2> QED BY <2>1, <2>2, <2>3, <2>4, <2>5 DEF Next, Call
<1> QED BY <1>1, <1>2

(* When destroy_vm always works and no Instant overflows, the host stays     *)
(* within its cap, because the pool knows every VM that runs there and       *)
(* counts it.                                                                *)
THEOREM HostBounded ==
  ASSUME "destroy" \notin Faults, InstantsFit
  PROVE  Spec => []HostWithinCap
<1>1. HostInv /\ PoolWithinCap => HostWithinCap
  BY DEF HostInv, PoolWithinCap, HostWithinCap
<1> QED BY <1>1, HostInvInductive, TypeCorrect, PoolBounded, PTL DEF Spec
=============================================================================
