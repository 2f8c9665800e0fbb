------------------------------- MODULE VmPool -------------------------------
(***************************************************************************)
(* FirecrackerVmPool of src/agentbox-core/src/vm_pool.rs.                  *)
(*                                                                         *)
(* Every method takes `&mut self`, so calls never overlap; the danger is   *)
(* inside one call.  A call is a chain of internal functions, each of      *)
(* which may leave through `?` with the pool half way: acquire leases a    *)
(* VM, then refills, then looks at the clock again, and an error of any of *)
(* the later steps takes the lease away from the caller.  So the model     *)
(* runs a call as a chain of steps: `agenda` is what the call still has to *)
(* do (the call stack flattened, one entry per internal function) and `?`  *)
(* empties it.                                                             *)
(*                                                                         *)
(* Time is an argument of every call: an Instant is a natural number, and  *)
(* acquire moves a virtual cursor ahead of the caller's clock.             *)
(***************************************************************************)
EXTENDS Integers, Sequences, FiniteSets, FiniteSetsExt

CONSTANTS
  Vms,                \* ids the provider can give out; a host has room for so many
  NoVm,               \* "no VM" in the record of a call
  MinWarm,            \* minimum_warm_instances
  MaxWarm,            \* maximum_warm_instances
  PreferredReady,     \* preferred_ready_target
  HostCap,            \* per_host_concurrency_cap
  ScaleOutPercent,    \* scale_out_utilization_percent
  ScaleInThreshold,   \* scale_in_warm_threshold
  ScaleInAfter,       \* scale_in_after
  CreateTimeout,      \* create_timeout
  DrainTimeout,       \* drain_timeout
  ReadyAfter,         \* ready_after values of CreatedVm and DrainPlan
  RequestTimeouts,    \* AcquireRequest.timeout values
  Faults,             \* what may go wrong around the pool, see KnownFaults
  MaxTime,            \* bound: no call and no deadline lies after this instant
  MaxInstant,         \* the largest Instant; checked_add fails beyond it
  MaxCount            \* where the u64 metrics saturate

\* create, health, scrub, destroy: that method of VmProvider may return Err.
\* clock: a caller may pass an Instant older than one the pool has seen.
\* clone: a caller may keep a clone of the VmLease it passes to release.
KnownFaults == {"create", "health", "scrub", "destroy", "clock", "clone"}

ASSUME VmsAssumption == IsFiniteSet(Vms) /\ NoVm \notin Vms
ASSUME SizesAssumption ==
  {MinWarm, MaxWarm, PreferredReady, HostCap, ScaleOutPercent, ScaleInThreshold} \subseteq Nat
ASSUME TimesAssumption ==
  /\ {ScaleInAfter, CreateTimeout, DrainTimeout, MaxTime, MaxInstant, MaxCount} \subseteq Nat
  /\ ReadyAfter \subseteq Nat
  /\ RequestTimeouts \subseteq Nat
ASSUME FaultsAssumption == Faults \subseteq KnownFaults

VARIABLES
  vms,            \* the pool's map; a VM outside it is Absent
  lastObserved,   \* last_observed_at
  surplusSince,   \* warm_surplus_since
  metrics,        \* created, discarded and failed of PoolMetrics
  op,             \* the call in progress: arguments, cursor, result so far
  agenda,         \* the internal functions the call has yet to run
  \* What the outside world knows; the code cannot read these.
  handles,        \* leases in callers' hands
  host,           \* VMs that exist at the provider, known to the pool or not
  lowAt           \* last observed instant with at most ScaleInThreshold warm VMs

poolVars == <<vms, surplusSince, metrics>>
vars == <<vms, lastObserved, surplusSince, metrics, op, agenda, handles, host, lowAt>>

----------------------------------------------------------------------------
(* Data *)

NoInstant == -1                          \* Option::<Instant>::None
States == {"Absent", "Creating", "Warm", "Leased", "Draining"}
Results == {"ok", "acquired", "timed_out", "err"}
StepNames == {"observe_time", "discard_stale_transitions", "promote_ready_vms",
              "update_warm_surplus_marker", "start_creation", "start_background_creations",
              "scale_in_if_needed", "evict_surplus", "acquire", "acquire_wait",
              "acquire_retry", "release"}

AbsentVm == [state |-> "Absent", changedAt |-> 0, readyAt |-> 0]
NoCall == [name |-> "none", now |-> 0, deadline |-> 0, vm |-> NoVm, result |-> "ok"]

VmsIn(pool, s) == {v \in Vms : pool[v].state \in s}
InPool == VmsIn(vms, States \ {"Absent"})
\* Mutant of ActiveCount: VMs being scrubbed are forgotten.
ActiveCountNoDraining == Cardinality(VmsIn(vms, {"Creating", "Warm", "Leased"}))
ActiveCount == Cardinality(InPool)
WarmCount(pool) == Cardinality(VmsIn(pool, {"Warm"}))
CreatingCount == Cardinality(VmsIn(vms, {"Creating"}))
LeasedCount == Cardinality(VmsIn(vms, {"Leased"}))
\* Mutant of OldestWarm: a lease may pick a VM that is leased already.
OldestIdleOrLeased == {v \in VmsIn(vms, {"Warm", "Leased"}) :
                         \A w \in VmsIn(vms, {"Warm"}) : vms[v].changedAt <= vms[w].changedAt}
OldestWarm == {v \in VmsIn(vms, {"Warm"}) :
                 \A w \in VmsIn(vms, {"Warm"}) : vms[v].changedAt <= vms[w].changedAt}

Pending == VmsIn(vms, {"Creating", "Draining"})
NextTransitionReadyAt == Min({vms[v].readyAt : v \in Pending})

TimeoutOf(v) == IF vms[v].state = "Creating" THEN CreateTimeout ELSE DrainTimeout

\* VMs discard_stale_transitions gives up on: their time is over and they will
\* not be ready within it.  A deadline beyond the last Instant never passes.
StaleAt(now) ==
  {v \in Pending : LET limit == vms[v].changedAt + TimeoutOf(v)
                   IN limit <= MaxInstant /\ now >= limit /\ vms[v].readyAt > limit}

\* Mutant of ReadyAt: a VM is ready only after its ready instant has passed.
ReadyStrictlyBefore(now) == {v \in Pending : vms[v].readyAt < now}
ReadyAt(now) == {v \in Pending : vms[v].readyAt <= now}

\* Mutant of Increment: a plain += 1.
IncrementUnbounded(n) == n + 1
\* saturating_add(1) on a counter that saturates at MaxCount
Increment(n) == IF n < MaxCount THEN n + 1 ELSE n

\* Mutant of SurplusMarker: the marker is not reset when the surplus is gone.
SurplusMarkerSticky(pool, marker, now) ==
  IF marker = NoInstant /\ WarmCount(pool) > ScaleInThreshold THEN now ELSE marker

\* The value warm_surplus_since takes when the pool looks at its warm VMs.
SurplusMarker(pool, marker, now) ==
  IF WarmCount(pool) <= ScaleInThreshold THEN NoInstant
  ELSE IF marker = NoInstant THEN now ELSE marker

\* Mutant of BackgroundCreationTarget: leased VMs count towards the ready target.
BackgroundTargetCountsLeased ==
  LET ready == WarmCount(vms) + CreatingCount + LeasedCount
      deficit == IF WarmCount(vms) < MinWarm THEN Max({0, PreferredReady - ready}) ELSE 0
  IN Min({deficit, Max({0, HostCap - ActiveCount}), Max({0, MaxWarm - ready})})

\* How many VMs a background refill starts.
BackgroundCreationTarget ==
  LET warm == WarmCount(vms)
      warmOrCreating == warm + CreatingCount
      floorDeficit == IF warm < MinWarm THEN Max({0, PreferredReady - warmOrCreating}) ELSE 0
      scaleOut == ActiveCount > 0 /\ warm > 0 /\
                  LeasedCount * 100 >= ActiveCount * ScaleOutPercent
      proactiveDeficit == IF scaleOut THEN Max({0, 1 - CreatingCount}) ELSE 0
  IN Min({Max({floorDeficit, proactiveDeficit}),
          Max({0, HostCap - ActiveCount}), Max({0, MaxWarm - warmOrCreating})})

----------------------------------------------------------------------------
(* Control: the call's agenda *)

At(f) == agenda # <<>> /\ Head(agenda) = f
Proceed(steps) == agenda' = steps \o Tail(agenda)
\* `?` on an error: the rest of the call does not run.
Fail == /\ agenda' = <<>>
        /\ op' = [op EXCEPT !.result = "err"]

\* Mutant of AdvanceTo: promotion before the timeouts are enforced.
AdvancePromoteFirst == <<"observe_time", "promote_ready_vms", "discard_stale_transitions",
                         "update_warm_surplus_marker">>
AdvanceTo == <<"observe_time", "discard_stale_transitions", "promote_ready_vms",
               "update_warm_surplus_marker">>
Creations(n) == [i \in 1..n |-> "start_creation"]

----------------------------------------------------------------------------
(* advance_to *)

ObserveTime ==
  /\ At("observe_time")
  /\ op.now >= lastObserved
  /\ lastObserved' = op.now
  /\ Proceed(<<>>)
  /\ UNCHANGED <<poolVars, op, handles, host>>

RejectPast ==
  /\ At("observe_time")
  /\ op.now < lastObserved
  /\ Fail
  /\ UNCHANGED <<poolVars, lastObserved, handles, host>>

\* Mutant of DiscardVm: the counters move only after destroy_vm succeeded.
DiscardVmCountLate(v, failed, next) ==
  /\ vms' = [vms EXCEPT ![v] = AbsentVm]
  /\ \/ /\ host' = host \ {v}
        /\ metrics' = [metrics EXCEPT !.discarded = Increment(@)]
        /\ agenda' = next
        /\ UNCHANGED op
     \/ /\ "destroy" \in Faults
        /\ Fail
        /\ UNCHANGED <<metrics, host>>

\* Mutant of DiscardVm: an error of destroy_vm is dropped.
DiscardVmIgnoresError(v, failed, next) ==
  /\ vms' = [vms EXCEPT ![v] = AbsentVm]
  /\ metrics' = [metrics EXCEPT !.discarded = Increment(@),
                              !.failed = IF failed THEN Increment(@) ELSE @]
  /\ host' = host \ {v} \/ ("destroy" \in Faults /\ UNCHANGED host)
  /\ agenda' = next
  /\ UNCHANGED op

\* discard_vm: the pool forgets v and counts it before it asks the provider to
\* destroy it, so an error there leaves the pool without v and the host with it.
DiscardVm(v, failed, next) ==
  /\ vms' = [vms EXCEPT ![v] = AbsentVm]
  /\ metrics' = [metrics EXCEPT !.discarded = Increment(@),
                              !.failed = IF failed THEN Increment(@) ELSE @]
  /\ \/ /\ host' = host \ {v}
        /\ agenda' = next
        /\ UNCHANGED op
     \/ /\ "destroy" \in Faults
        /\ Fail
        /\ UNCHANGED host

DiscardStale ==
  /\ At("discard_stale_transitions")
  /\ \E v \in StaleAt(op.now) : DiscardVm(v, TRUE, agenda)
  /\ UNCHANGED <<lastObserved, surplusSince, handles>>

NoneStale ==
  /\ At("discard_stale_transitions")
  /\ StaleAt(op.now) = {}
  /\ Proceed(<<>>)
  /\ UNCHANGED <<poolVars, lastObserved, op, handles, host>>

PromoteHealthy ==
  /\ At("promote_ready_vms")
  /\ \E v \in ReadyAt(op.now) :
       vms' = [vms EXCEPT ![v] = [state |-> "Warm", changedAt |-> op.now, readyAt |-> op.now]]
  /\ UNCHANGED <<lastObserved, surplusSince, metrics, op, agenda, handles, host>>

DiscardUnhealthy ==
  /\ At("promote_ready_vms")
  /\ "health" \in Faults
  /\ \E v \in ReadyAt(op.now) : DiscardVm(v, TRUE, agenda)
  /\ UNCHANGED <<lastObserved, surplusSince, handles>>

NoneReady ==
  /\ At("promote_ready_vms")
  /\ ReadyAt(op.now) = {}
  /\ Proceed(<<>>)
  /\ UNCHANGED <<poolVars, lastObserved, op, handles, host>>

UpdateWarmSurplusMarker ==
  /\ At("update_warm_surplus_marker")
  /\ surplusSince' = SurplusMarker(vms, surplusSince, op.now)
  /\ Proceed(<<>>)
  /\ UNCHANGED <<vms, lastObserved, metrics, op, handles, host>>

----------------------------------------------------------------------------
(* Creation *)

FreshVms == Vms \ (InPool \cup host \cup {op.vm} \cup {h.vm : h \in handles})

\* start_creation returned Ok(false).
CreationRefused == ActiveCount >= HostCap \/ WarmCount(vms) + CreatingCount >= MaxWarm

\* create_vm succeeded.  If the ready instant does not fit, the VM that now
\* exists at the provider is never entered in the pool.
InsertCreated(v, readyAt) ==
  /\ host' = host \cup {v}
  /\ IF readyAt <= MaxInstant
     THEN /\ vms' = [vms EXCEPT ![v] =
                       [state |-> "Creating", changedAt |-> op.now, readyAt |-> readyAt]]
          /\ metrics' = [metrics EXCEPT !.created = Increment(@)]
          /\ Proceed(<<>>)
          /\ UNCHANGED op
     ELSE Fail /\ UNCHANGED <<vms, metrics>>

StartCreation ==
  /\ At("start_creation")
  /\ IF CreationRefused
     THEN Proceed(<<>>) /\ UNCHANGED <<vms, metrics, op, host>>
     ELSE \E v \in FreshVms, after \in ReadyAfter : InsertCreated(v, op.now + after)
  /\ UNCHANGED <<lastObserved, surplusSince, handles>>

CreationFails ==
  /\ At("start_creation")
  /\ ~CreationRefused
  /\ "create" \in Faults \/ FreshVms = {}
  /\ Fail
  /\ UNCHANGED <<poolVars, lastObserved, handles, host>>

\* Mutant of StartBackgroundCreations: no advance_to after the creations.
CreationsWithoutAdvance ==
  /\ At("start_background_creations")
  /\ Proceed(Creations(BackgroundCreationTarget))
  /\ UNCHANGED <<poolVars, lastObserved, op, handles, host>>

StartBackgroundCreations ==
  /\ At("start_background_creations")
  /\ Proceed(Creations(BackgroundCreationTarget) \o AdvanceTo)
  /\ UNCHANGED <<poolVars, lastObserved, op, handles, host>>

----------------------------------------------------------------------------
(* scale_in_if_needed *)

SurplusIsOld == /\ surplusSince # NoInstant
                /\ WarmCount(vms) > ScaleInThreshold
                /\ op.now - surplusSince >= ScaleInAfter

ScaleInIfNeeded ==
  /\ At("scale_in_if_needed")
  /\ Proceed(IF SurplusIsOld THEN <<"evict_surplus">> ELSE <<>>)
  /\ surplusSince' = IF WarmCount(vms) <= ScaleInThreshold THEN NoInstant ELSE surplusSince
  /\ UNCHANGED <<vms, lastObserved, metrics, op, handles, host>>

EvictSurplus ==
  /\ At("evict_surplus")
  /\ WarmCount(vms) > PreferredReady
  /\ \E v \in OldestWarm : DiscardVm(v, FALSE, agenda)
  /\ UNCHANGED <<lastObserved, surplusSince, handles>>

SurplusEvicted ==
  /\ At("evict_surplus")
  /\ WarmCount(vms) <= PreferredReady
  /\ surplusSince' = SurplusMarker(vms, surplusSince, op.now)
  /\ Proceed(<<>>)
  /\ UNCHANGED <<vms, lastObserved, metrics, op, handles, host>>

----------------------------------------------------------------------------
(* acquire *)

\* lease_vm, and the refill both of its callers run after it.
LeaseVm(v) ==
  /\ vms' = [vms EXCEPT ![v] = [state |-> "Leased", changedAt |-> op.now, readyAt |-> op.now]]
  /\ surplusSince' = SurplusMarker(vms', surplusSince, op.now)
  /\ op' = [op EXCEPT !.vm = v, !.result = "acquired"]
  /\ agenda' = <<"start_background_creations">> \o AdvanceTo
  /\ UNCHANGED <<lastObserved, metrics, handles, host>>

AcquireHit ==
  /\ At("acquire")
  /\ \E v \in OldestWarm : LeaseVm(v)

\* The condition under which acquire starts a VM of its own.
NothingOnTheWay == CreatingCount = 0 /\ ActiveCount < HostCap

AcquireMiss ==
  /\ At("acquire")
  /\ OldestWarm = {}
  /\ IF op.deadline > MaxInstant THEN Fail
     ELSE /\ Proceed((IF NothingOnTheWay THEN <<"start_creation">> \o AdvanceTo ELSE <<>>)
                       \o <<"acquire_wait">>)
          /\ UNCHANGED op
  /\ UNCHANGED <<poolVars, lastObserved, handles, host>>

AcquireWaited ==
  /\ At("acquire_wait")
  /\ \E v \in OldestWarm : LeaseVm(v)

SomethingInTime == Pending # {} /\ NextTransitionReadyAt <= op.deadline

\* The wait is virtual: the cursor jumps to the next VM that may become ready.
AcquireSkipAhead ==
  /\ At("acquire_wait")
  /\ OldestWarm = {}
  /\ SomethingInTime
  /\ op' = [op EXCEPT !.now = NextTransitionReadyAt]
  /\ Proceed(AdvanceTo \o <<"acquire_retry", "acquire_wait">>)
  /\ UNCHANGED <<poolVars, lastObserved, handles, host>>

\* Mutant of AcquireRetry: acquire starts one VM of its own at most.
AcquireNeverRetries ==
  /\ At("acquire_retry")
  /\ Proceed(<<>>)
  /\ UNCHANGED <<poolVars, lastObserved, op, handles, host>>

AcquireRetry ==
  /\ At("acquire_retry")
  /\ Proceed(IF OldestWarm = {} /\ NothingOnTheWay /\ op.now < op.deadline
             THEN <<"start_creation">> \o AdvanceTo ELSE <<>>)
  /\ UNCHANGED <<poolVars, lastObserved, op, handles, host>>

AcquireTimedOut ==
  /\ At("acquire_wait")
  /\ OldestWarm = {}
  /\ ~SomethingInTime
  /\ op' = [op EXCEPT !.result = "timed_out"]
  /\ Proceed(<<>>)
  /\ UNCHANGED <<poolVars, lastObserved, handles, host>>

----------------------------------------------------------------------------
(* release *)

\* The lease names a VM the pool does not know or does not count as leased.
ReleaseRejected ==
  /\ At("release")
  /\ vms[op.vm].state # "Leased"
  /\ Fail
  /\ UNCHANGED <<poolVars, lastObserved, handles, host>>

\* Mutant of ReleaseScrubbed: the VM is warm again at once.
ReleaseToWarm ==
  /\ At("release")
  /\ vms[op.vm].state = "Leased"
  /\ vms' = [vms EXCEPT ![op.vm] =
               [state |-> "Warm", changedAt |-> op.now, readyAt |-> op.now]]
  /\ Proceed(AdvanceTo \o <<"start_background_creations">> \o AdvanceTo)
  /\ UNCHANGED <<lastObserved, surplusSince, metrics, op, handles, host>>

ReleaseScrubbed ==
  /\ At("release")
  /\ vms[op.vm].state = "Leased"
  /\ \E after \in ReadyAfter :
       IF op.now + after > MaxInstant
       THEN Fail /\ UNCHANGED vms
       ELSE /\ vms' = [vms EXCEPT ![op.vm] =
                         [state |-> "Draining", changedAt |-> op.now, readyAt |-> op.now + after]]
            /\ Proceed(AdvanceTo \o <<"start_background_creations">> \o AdvanceTo)
            /\ UNCHANGED op
  /\ UNCHANGED <<lastObserved, surplusSince, metrics, handles, host>>

\* Mutant of ReleaseUnscrubbed: the scrub error is returned as it is.
ReleaseScrubErrorReturned ==
  /\ At("release")
  /\ vms[op.vm].state = "Leased"
  /\ "scrub" \in Faults
  /\ Fail
  /\ UNCHANGED <<poolVars, lastObserved, handles, host>>

ReleaseUnscrubbed ==
  /\ At("release")
  /\ vms[op.vm].state = "Leased"
  /\ "scrub" \in Faults
  /\ DiscardVm(op.vm, TRUE, <<"start_background_creations", "update_warm_surplus_marker">>)
  /\ UNCHANGED <<lastObserved, surplusSince, handles>>

----------------------------------------------------------------------------
(* Calls and their return *)

Idle == op = NoCall
Finished == ~Idle /\ agenda = <<>>

\* Instants a caller may pass.
Clock == {t \in 0..MaxTime : "clock" \in Faults \/ t >= lastObserved}

Begin(name, now, deadline, v, steps) ==
  /\ Idle
  /\ op' = [name |-> name, now |-> now, deadline |-> deadline, vm |-> v, result |-> "ok"]
  /\ agenda' = AdvanceTo \o steps
  /\ UNCHANGED <<poolVars, lastObserved, host, lowAt>>

Refill == /\ \E now \in Clock : Begin("refill", now, now, NoVm, <<"start_background_creations">>)
          /\ UNCHANGED handles

\* Deadlines beyond MaxTime are left out, except those no Instant can hold.
Acquire ==
  /\ \E now \in Clock, timeout \in RequestTimeouts :
       /\ now + timeout <= MaxTime \/ now + timeout > MaxInstant
       /\ Begin("acquire", now, now + timeout, NoVm, <<"acquire">>)
  /\ UNCHANGED handles

\* release takes the lease by value: the caller is left without it whatever
\* release answers, unless it kept a clone.
Release ==
  \E now \in Clock, h \in handles :
    /\ Begin("release", now, now, h.vm, <<"release">>)
    /\ handles' \in {handles \ {h}} \cup (IF "clone" \in Faults THEN {handles} ELSE {})

Reap == /\ \E now \in Clock :
             Begin("reap", now, now, NoVm,
                   <<"scale_in_if_needed", "start_background_creations">> \o AdvanceTo)
        /\ UNCHANGED handles

\* An acquired lease reaches the caller only with the call's Ok.
Return ==
  /\ Finished
  /\ handles' = IF op.result = "acquired" THEN handles \cup {[vm |-> op.vm, at |-> op.now]}
                ELSE handles
  /\ op' = NoCall
  /\ UNCHANGED <<poolVars, lastObserved, agenda, host, lowAt>>

Call == Refill \/ Acquire \/ Release \/ Reap

\* What the ghost lowAt sees of a step.
NoteLow == lowAt' = IF WarmCount(vms') <= ScaleInThreshold THEN lastObserved' ELSE lowAt

Step ==
  /\ \/ ObserveTime \/ RejectPast
     \/ DiscardStale \/ NoneStale \/ PromoteHealthy \/ DiscardUnhealthy \/ NoneReady
     \/ UpdateWarmSurplusMarker
     \/ StartCreation \/ CreationFails \/ StartBackgroundCreations
     \/ ScaleInIfNeeded \/ EvictSurplus \/ SurplusEvicted
     \/ AcquireHit \/ AcquireMiss \/ AcquireWaited \/ AcquireSkipAhead \/ AcquireRetry
     \/ AcquireTimedOut
     \/ ReleaseRejected \/ ReleaseScrubbed \/ ReleaseUnscrubbed
  /\ NoteLow

Init ==
  /\ vms = [v \in Vms |-> AbsentVm]
  /\ lastObserved = NoInstant
  /\ surplusSince = NoInstant
  /\ metrics = [created |-> 0, discarded |-> 0, failed |-> 0]
  /\ op = NoCall
  /\ agenda = <<>>
  /\ handles = {}
  /\ host = {}
  /\ lowAt = NoInstant

Next == Call \/ Step \/ Return

Spec == Init /\ [][Next]_vars

\* A call that has started runs to its end: the pool is synchronous code.
FairSpec == Spec /\ WF_vars(Step) /\ WF_vars(Return)

----------------------------------------------------------------------------
(* Properties *)

\* Type invariant of the pool, of the call record and of the ghosts.
TypeOK ==
  /\ vms \in [Vms -> [state : States, changedAt : Nat, readyAt : Nat]]
  /\ lastObserved \in Nat \cup {NoInstant}
  /\ surplusSince \in Nat \cup {NoInstant}
  /\ metrics \in [created : 0..MaxCount, discarded : 0..MaxCount, failed : 0..MaxCount]
  /\ op \in [name : {"none", "refill", "acquire", "release", "reap"}, now : Nat,
             deadline : Nat, vm : Vms \cup {NoVm}, result : Results]
  /\ op.result = "acquired" => op.vm \in Vms
  /\ agenda \in Seq(StepNames)
  /\ handles \subseteq [vm : Vms, at : Nat]
  /\ host \subseteq Vms
  /\ lowAt \in Nat \cup {NoInstant}

(* A lease in a caller's hands is good: its VM is Leased since the instant   *)
(* the lease names, and no other caller has a lease on that VM.  The code    *)
(* keeps no record of who holds what; it follows from every path of acquire, *)
(* release and the background work together.                                 *)
HandlesValid ==
  /\ \A h \in handles : vms[h.vm].state = "Leased" /\ vms[h.vm].changedAt = h.at
  /\ \A g, h \in handles : g.vm = h.vm => g = h

(* docs/FIRECRACKER_POOL.md:37, "Leased: VM is assigned to one sandbox run": *)
(* between calls every Leased VM belongs to a lease some caller holds, so    *)
(* somebody can still release it.  Nothing else ever takes a VM out of       *)
(* Leased.                                                                   *)
NoOrphanedLease == Idle => VmsIn(vms, {"Leased"}) \subseteq {h.vm : h \in handles}

(* docs/FIRECRACKER_POOL.md:19, "Bound host resource usage with explicit     *)
(* per-host capacity": the VMs that exist at the provider, whether the pool  *)
(* knows of them or not, never exceed the cap.                               *)
HostWithinCap == Cardinality(host) <= HostCap

(* The pool's own accounting never exceeds the cap, whatever fails between   *)
(* the check in start_creation and the insertion, and over any retries of    *)
(* acquire.                                                                  *)
PoolWithinCap == Cardinality(InPool) <= HostCap

(* The comment at vm_pool.rs:546: counters are right even when destroy_vm    *)
(* fails.  While no counter has saturated, every VM ever created is in the   *)
(* pool or was counted as discarded, and failures are discards.              *)
MetricsConserve ==
  metrics.created < MaxCount /\ metrics.discarded < MaxCount =>
    /\ metrics.created = Cardinality(InPool) + metrics.discarded
    /\ metrics.failed <= metrics.discarded

(* A call that returns Ok leaves no work it should have done: at the instant *)
(* it saw last no VM is ready but not promoted, none is overdue, and the     *)
(* surplus marker says whether there is a surplus.                           *)
Settled ==
  Finished /\ op.result # "err" =>
    /\ ReadyAt(lastObserved) = {}
    /\ StaleAt(lastObserved) = {}
    /\ (surplusSince # NoInstant) <=> (WarmCount(vms) > ScaleInThreshold)

(* docs/FIRECRACKER_POOL.md:59, the warm floor: after a call that refills,   *)
(* fewer warm VMs than the minimum means that the preferred number is on its *)
(* way or that one of the two limits is reached.                             *)
FloorRestored ==
  Finished /\ op.result \in {"ok", "acquired"} /\ WarmCount(vms) < MinWarm =>
    \/ WarmCount(vms) + CreatingCount >= PreferredReady
    \/ WarmCount(vms) + CreatingCount >= MaxWarm
    \/ ActiveCount >= HostCap

(* docs/FIRECRACKER_POOL.md:64, "place a VM into Creating immediately and    *)
(* let acquire wait for it until the request timeout expires": acquire gives *)
(* up before its deadline only while a VM is being created or the host is    *)
(* full, and no VM would have become ready in time.                          *)
TimedOutMeansBusy ==
  Finished /\ op.result = "timed_out" =>
    /\ \A v \in InPool : vms[v].state = "Leased" \/
                         (v \in Pending /\ vms[v].readyAt > op.deadline)
    /\ CreatingCount > 0 \/ ActiveCount >= HostCap \/ op.now = op.deadline

(* A VM becomes Warm only if it was ready within the timeout of the state it *)
(* comes from, however late the pool looks: discard_stale_transitions runs   *)
(* before promote_ready_vms and an error in it skips the promotion.          *)
NoLateWarm ==
  [][\A v \in Vms : v \in Pending /\ vms'[v].state = "Warm" =>
       /\ vms[v].readyAt <= lastObserved
       /\ \/ vms[v].readyAt <= vms[v].changedAt + TimeoutOf(v)
          \/ vms[v].changedAt + TimeoutOf(v) > MaxInstant]_vars

(* docs/FIRECRACKER_POOL.md:69: a warm VM is taken out for scale-in only     *)
(* when there were more than scale_in_warm_threshold of them for all of      *)
(* scale_in_after, as far as the pool could see.                             *)
ScaleInSustained ==
  [][\A v \in Vms : /\ vms[v].state = "Warm" /\ vms'[v].state = "Absent"
                    /\ WarmCount(vms) > ScaleInThreshold
                    => lastObserved - lowAt >= ScaleInAfter]_vars

\* Leased VMs that no caller has a lease on, and that no call in progress is
\* about to hand over or has yet to take back.
Orphans == {v \in VmsIn(vms, {"Leased"}) :
              /\ \A h \in handles : h.vm # v
              /\ v = op.vm => op.result # "acquired" /\ "release" \notin Range(agenda)}

\* VMs that exist at the provider and that the pool does not know of.
Leaked == host \ InPool

(* Where NoOrphanedLease fails, it fails in this way only: a step loses the  *)
(* lease of the VM its call works on, and it is the step that makes the call *)
(* an error, so that a call loses one lease at most and its caller hears of  *)
(* it.  Once release has got as far as the VM itself, it does not leave it   *)
(* Leased unless the instant it would be clean at does not fit (the scrub    *)
(* error of vm_pool.rs:284 does not get out).                                *)
LostOnlyOnError ==
  [][\/ Orphans' \subseteq Orphans
     \/ /\ op.result # "err" /\ op'.result = "err"
        /\ Orphans' = Orphans \cup {op.vm}
        /\ At("release") => \E after \in ReadyAfter : op.now + after > MaxInstant]_vars

(* Where HostWithinCap fails, it fails because of VMs lost in this way only: *)
(* a call that returns Ok leaves no VM at the provider that the pool has     *)
(* forgotten, and one that returns Err leaves one at most.                   *)
LeaksOnlyOnError ==
  [][\/ Leaked' \subseteq Leaked
     \/ /\ op.result # "err" /\ op'.result = "err"
        /\ \E v \in Vms : Leaked' = Leaked \cup {v}]_vars

(* The pool implements the lifecycle of VmLifecycle: the code's steps, its   *)
(* error paths included, are lifecycle steps or change nothing it speaks of. *)
Lifecycle == INSTANCE VmLifecycle
               WITH state <- [v \in Vms |-> vms[v].state], held <- {h.vm : h \in handles}
LifecycleSpec == Lifecycle!Spec

(* Every call returns; in particular the loop of acquire ends, because each  *)
(* round moves the cursor or settles the VM it was waiting for.              *)
CallReturns == ~Idle ~> Idle
=============================================================================
