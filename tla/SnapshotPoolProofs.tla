------------------------- MODULE SnapshotPoolProofs -------------------------
(***************************************************************************)
(* Theorems about SnapshotPool, for every configuration of the pool and    *)
(* every set of snapshots.  What is proved of VmPool and of                *)
(* SnapshotProvider each on its own is lifted to the two together.         *)
(***************************************************************************)
EXTENDS SnapshotPool, VmPoolOrderProofs

----------------------------------------------------------------------------
(* The provider on its own *)

\* Most of its steps leave the control plane alone; its tuple is expanded here.
USE DEF Aware!controlPlane

LEMMA ProviderNextType ==
  ASSUME Aware!TypeOK, [Aware!Next]_Aware!vars
  PROVE  Aware!TypeOK'
<1>1. CASE Aware!CreateVm BY <1>1 DEF Aware!TypeOK, Aware!CreateVm, Aware!Steps
<1>2. CASE Aware!QuerySnapshot BY <1>2 DEF Aware!TypeOK, Aware!QuerySnapshot, Aware!UseSnapshot,
                                           Aware!Steps
<1>3. CASE Aware!QueryFails BY <1>3 DEF Aware!TypeOK, Aware!QueryFails, Aware!Abort, Aware!Steps
<1>4. CASE Aware!RestoreSnapshot
  <2>1. PICK v \in Vms \ host :
          Aware!Start(v, Aware!SnapshotTag(chosen)) /\ Aware!Finish(v, Aware!SnapshotTag(chosen))
    BY <1>4 DEF Aware!RestoreSnapshot
  <2>2. chosen \in Snapshots BY <1>4 DEF Aware!TypeOK, Aware!RestoreSnapshot
  <2> DEFINE Tags == {Aware!Untagged, Aware!BootTag} \cup {Aware!SnapshotTag(s) : s \in Snapshots}
  <2>3. Aware!SnapshotTag(chosen) \in Tags BY <2>2
  <2>4. tags' \in [Vms -> Tags] /\ origin' \in [Vms -> Tags]
    <3> HIDE DEF Tags
    <3>1. tags \in [Vms -> Tags] /\ origin \in [Vms -> Tags] BY DEF Aware!TypeOK, Tags
    <3> QED BY <2>1, <2>3, <3>1 DEF Aware!Start, Aware!Finish
  <2> QED BY <1>4, <2>1, <2>2, <2>4 DEF Aware!TypeOK, Aware!RestoreSnapshot, Aware!Start,
                                        Aware!Finish, Aware!Steps
<1>5. CASE Aware!RestoreFails BY <1>5 DEF Aware!TypeOK, Aware!RestoreFails, Aware!Steps
<1>6. CASE Aware!RecordFailure BY <1>6 DEF Aware!TypeOK, Aware!RecordFailure, Aware!Steps
<1>7. CASE Aware!CreateVmFromBoot
  <2>1. PICK v \in Vms \ host :
          Aware!Start(v, Aware!BootTag) /\ Aware!Finish(v, Aware!BootTag)
    BY <1>7 DEF Aware!CreateVmFromBoot, Aware!FallbackTag
  <2> QED BY <1>7, <2>1 DEF Aware!TypeOK, Aware!CreateVmFromBoot, Aware!Start, Aware!Finish,
                            Aware!Steps
<1>8. CASE Aware!BootFails BY <1>8 DEF Aware!TypeOK, Aware!BootFails, Aware!Abort, Aware!Steps
<1>9. CASE Aware!DestroyVm BY <1>9 DEF Aware!TypeOK, Aware!DestroyVm
<1>10. CASE Aware!CatalogChanges BY <1>10 DEF Aware!TypeOK, Aware!CatalogChanges
<1>11. CASE UNCHANGED Aware!vars BY <1>11 DEF Aware!TypeOK, Aware!vars
<1> QED BY <1>1, <1>2, <1>3, <1>4, <1>5, <1>6, <1>7, <1>8, <1>9, <1>10, <1>11
           DEF Aware!Next, Aware!CreateVmGoesOn

(***************************************************************************)
(* Type correctness.                                                       *)
(***************************************************************************)
THEOREM ProviderTypeCorrect == Aware!Spec => []Aware!TypeOK
<1>1. Aware!Init => Aware!TypeOK BY DEF Aware!Init, Aware!TypeOK, Aware!Steps
<1> QED BY <1>1, ProviderNextType, PTL DEF Aware!Spec

----------------------------------------------------------------------------
(* The quarantine *)

\* A snapshot whose restore failed is quarantined, and create_vm only
\* restores from snapshots that are not.
Quarantined ==
  /\ \A s \in Snapshots : failures[s] = 0 \/ (failures[s] = 1 /\ s \in quarantined)
  /\ step = "restore_snapshot" => chosen \notin quarantined

LEMMA NextQuarantined ==
  ASSUME Aware!TypeOK, Quarantined, [Aware!Next]_Aware!vars
  PROVE  Quarantined'
<1>1. CASE Aware!QuerySnapshot
  BY <1>1 DEF Quarantined, Aware!QuerySnapshot, Aware!UseSnapshot
<1>2. CASE Aware!RestoreFails
  <2>1. chosen \in Snapshots /\ chosen \notin quarantined
    BY <1>2 DEF Aware!TypeOK, Quarantined, Aware!RestoreFails
  <2>2. failures[chosen] = 0 BY <2>1 DEF Quarantined
  <2> QED BY <1>2, <2>1, <2>2 DEF Aware!TypeOK, Quarantined, Aware!RestoreFails
<1>3. CASE Aware!CreateVm BY <1>3 DEF Quarantined, Aware!CreateVm
<1>4. CASE Aware!QueryFails BY <1>4 DEF Quarantined, Aware!QueryFails, Aware!Abort
<1>5. CASE Aware!RestoreSnapshot BY <1>5 DEF Quarantined, Aware!RestoreSnapshot, Aware!Finish
<1>6. CASE Aware!RecordFailure BY <1>6 DEF Quarantined, Aware!RecordFailure
<1>7. CASE Aware!CreateVmFromBoot BY <1>7 DEF Quarantined, Aware!CreateVmFromBoot, Aware!Finish
<1>8. CASE Aware!BootFails BY <1>8 DEF Quarantined, Aware!BootFails, Aware!Abort
<1>9. CASE Aware!DestroyVm BY <1>9 DEF Quarantined, Aware!DestroyVm
<1>10. CASE Aware!CatalogChanges BY <1>10 DEF Quarantined, Aware!CatalogChanges
<1>11. CASE UNCHANGED Aware!vars BY <1>11 DEF Quarantined, Aware!vars
<1> QED BY <1>1, <1>2, <1>3, <1>4, <1>5, <1>6, <1>7, <1>8, <1>9, <1>10, <1>11
           DEF Aware!Next, Aware!CreateVmGoesOn

(***************************************************************************)
(* A snapshot costs at most one failed restore per process, whatever the   *)
(* catalog does.                                                           *)
(***************************************************************************)
THEOREM QuarantineHolds == Aware!Spec => []Aware!FailsOnce
<1>1. Aware!Init => Quarantined BY DEF Aware!Init, Quarantined
<1>2. Quarantined => Aware!FailsOnce BY DEF Quarantined, Aware!FailsOnce
<1> QED BY <1>1, <1>2, NextQuarantined, ProviderTypeCorrect, PTL DEF Aware!Spec

----------------------------------------------------------------------------
(* Tags *)

LEMMA NextTruthful ==
  ASSUME Aware!TypeOK, Aware!TagsTruthful, [Aware!Next]_Aware!vars
  PROVE  Aware!TagsTruthful'
<1>1. CASE Aware!RestoreSnapshot
  <2>1. PICK v \in Vms \ host :
          Aware!Start(v, Aware!SnapshotTag(chosen)) /\ Aware!Finish(v, Aware!SnapshotTag(chosen))
    BY <1>1 DEF Aware!RestoreSnapshot
  <2> QED BY <2>1 DEF Aware!TypeOK, Aware!TagsTruthful, Aware!Start, Aware!Finish
<1>2. CASE Aware!CreateVmFromBoot
  <2>1. PICK v \in Vms \ host :
          Aware!Start(v, Aware!BootTag) /\ Aware!Finish(v, Aware!BootTag)
    BY <1>2 DEF Aware!CreateVmFromBoot, Aware!FallbackTag
  <2> QED BY <2>1 DEF Aware!TypeOK, Aware!TagsTruthful, Aware!Start, Aware!Finish
<1>3. CASE Aware!DestroyVm BY <1>3 DEF Aware!TypeOK, Aware!TagsTruthful, Aware!DestroyVm
<1>4. CASE UNCHANGED <<host, origin, tags>> BY <1>4 DEF Aware!TagsTruthful
<1>5. CASE Aware!CreateVm \/ Aware!QuerySnapshot \/ Aware!QueryFails \/ Aware!RestoreFails
           \/ Aware!RecordFailure \/ Aware!BootFails \/ Aware!CatalogChanges \/ UNCHANGED Aware!vars
  BY <1>4, <1>5 DEF Aware!CreateVm, Aware!QuerySnapshot, Aware!QueryFails, Aware!RestoreFails,
                    Aware!RecordFailure,
                    Aware!BootFails, Aware!CatalogChanges, Aware!Abort, Aware!vars
<1> QED BY <1>1, <1>2, <1>3, <1>5 DEF Aware!Next, Aware!CreateVmGoesOn

(***************************************************************************)
(* Every VM's boot source and snapshot id say what it was started from.    *)
(***************************************************************************)
THEOREM TagsAlwaysTruthful == Aware!Spec => []Aware!TagsTruthful
<1>1. Aware!Init => Aware!TagsTruthful BY DEF Aware!Init, Aware!TagsTruthful
<1> QED BY <1>1, NextTruthful, ProviderTypeCorrect, PTL DEF Aware!Spec

----------------------------------------------------------------------------
(* The contract *)

LEMMA StepKeepsContract ==
  ASSUME Aware!TypeOK, [Aware!Next]_Aware!vars
  PROVE  [Aware!Provider!Next]_<<host, answer, origin, tags>>
<1>1. CASE Aware!RestoreSnapshot
  <2>1. PICK v \in Vms \ host :
          Aware!Start(v, Aware!SnapshotTag(chosen)) /\ Aware!Finish(v, Aware!SnapshotTag(chosen))
    BY <1>1 DEF Aware!RestoreSnapshot
  <2>2. chosen \in Snapshots BY <1>1 DEF Aware!TypeOK, Aware!RestoreSnapshot
  <2> QED BY <2>1, <2>2 DEF Aware!Start, Aware!Finish, Aware!Provider!Next,
                            Aware!Provider!CreateVm, Aware!Provider!Sourced
<1>2. CASE Aware!CreateVmFromBoot
  <2>1. PICK v \in Vms \ host :
          Aware!Start(v, Aware!BootTag) /\ Aware!Finish(v, Aware!BootTag)
    BY <1>2 DEF Aware!CreateVmFromBoot, Aware!FallbackTag
  <2> QED BY <2>1 DEF Aware!Start, Aware!Finish, Aware!Provider!Next, Aware!Provider!CreateVm,
                      Aware!Provider!Sourced
<1>3. CASE Aware!QueryFails \/ Aware!BootFails
  BY <1>3 DEF Aware!QueryFails, Aware!BootFails, Aware!Abort, Aware!Provider!Next,
              Aware!Provider!CreateVmFails
<1>4. CASE Aware!DestroyVm
  BY <1>4 DEF Aware!DestroyVm, Aware!Provider!Next, Aware!Provider!DestroyVm, Aware!Provider!Sourced
<1>5. CASE Aware!CreateVm \/ Aware!QuerySnapshot \/ Aware!RestoreFails \/ Aware!RecordFailure
           \/ Aware!CatalogChanges \/ UNCHANGED Aware!vars
  BY <1>5 DEF Aware!CreateVm, Aware!QuerySnapshot, Aware!RestoreFails, Aware!RecordFailure,
              Aware!CatalogChanges, Aware!vars
<1> QED BY <1>1, <1>2, <1>3, <1>4, <1>5 DEF Aware!Next, Aware!CreateVmGoesOn

(***************************************************************************)
(* The provider implements the contract the pool relies on: through all    *)
(* its internal failures one new VM, truthfully tagged, or an error.       *)
(***************************************************************************)
THEOREM ImplementsProvider == Aware!Spec => Aware!ProviderSpec
<1>1. Aware!Init => Aware!Provider!Init BY DEF Aware!Init, Aware!Provider!Init
<1>2. Aware!TypeOK /\ [Aware!Next]_Aware!vars => [Aware!Provider!Next]_Aware!Provider!vars
  BY StepKeepsContract DEF Aware!Provider!vars
<1> QED BY <1>1, <1>2, ProviderTypeCorrect, PTL DEF Aware!Spec, Aware!ProviderSpec,
                                                    Aware!Provider!Spec

----------------------------------------------------------------------------
(* The pool over it *)

HIDE DEF Aware!controlPlane

\* While create_vm goes on, the host is as it was: a VM comes with its answer.
LEMMA HostWaits ==
  ASSUME Aware!CreateVmGoesOn, step' # "idle"
  PROVE  UNCHANGED host
  BY DEF Aware!CreateVmGoesOn, Aware!QuerySnapshot, Aware!QueryFails, Aware!RestoreSnapshot,
         Aware!RestoreFails, Aware!RecordFailure, Aware!CreateVmFromBoot, Aware!BootFails,
         Aware!Finish, Aware!Abort, Aware!controlPlane

LEMMA SystemStep ==
  ASSUME [SystemNext]_systemVars
  PROVE  [Next]_vars
<1> USE DEF poolOnly, vars
<1>1. CASE Ask
  BY <1>1 DEF Ask, Aware!CreateVm, Aware!controlPlane
<1>2. CASE Provide
  BY <1>2, HostWaits DEF Provide
<1>3. CASE Publish
  BY <1>3 DEF Publish, Aware!CatalogChanges, Aware!controlPlane
<1>4. CASE Answer
  <2>1. (CreationFails \/ StartCreation) /\ NoteLow
    BY <1>4 DEF Answer
  <2>2. Step BY <2>1 DEF Step
  <2> QED BY <2>2 DEF Next
<1>5. CASE PoolMoves
  BY <1>5 DEF PoolMoves
<1>6. CASE UNCHANGED systemVars
  BY <1>6 DEF systemVars
<1> QED BY <1>1, <1>2, <1>3, <1>4, <1>5, <1>6 DEF SystemNext

(***************************************************************************)
(* The pool over the snapshot-aware provider is a pool over a provider as  *)
(* VmPool assumes one: What is proved of VmPool holds of it.               *)
(***************************************************************************)
THEOREM ImplementsPool == System => Spec
<1>1. SystemInit => Init BY DEF SystemInit
<1> QED BY <1>1, SystemStep, PTL DEF System, Spec

----------------------------------------------------------------------------
(* The provider in the pool *)

LEMMA SystemProviderStep ==
  ASSUME [SystemNext]_systemVars
  PROVE  [Aware!Next]_Aware!vars
<1>1. CASE Ask \/ Provide \/ Answer \/ Publish
  BY <1>1 DEF Ask, Provide, Answer, Publish, Aware!Next
<1>2. CASE PoolMoves
  <2>1. UNCHANGED Aware!vars \/ Aware!DestroyVm
    BY <1>2 DEF PoolMoves, providerOnly, Aware!vars
  <2> QED BY <2>1 DEF Aware!Next
<1>3. CASE UNCHANGED systemVars
  BY <1>3 DEF systemVars, vars, providerOnly, Aware!vars
<1> QED BY <1>1, <1>2, <1>3 DEF SystemNext

LEMMA SystemRunsProvider == System => Aware!Spec
<1>1. SystemInit => Aware!Init BY DEF SystemInit
<1> QED BY <1>1, SystemProviderStep, PTL DEF System, Aware!Spec

(***************************************************************************)
(* However often the pool asks for a VM, no snapshot costs it more than    *)
(* one failed restore.                                                     *)
(***************************************************************************)
THEOREM QuarantineServesPool == System => []FailsOnce
  BY SystemRunsProvider, QuarantineHolds, PTL DEF FailsOnce

(***************************************************************************)
(* The pool meets the contract it relies on: one new VM, truthfully        *)
(* tagged, or an error and none.                                           *)
(***************************************************************************)
THEOREM PoolIsServed == System => ProviderSpec
  BY SystemRunsProvider, ImplementsProvider, PTL DEF ProviderSpec

----------------------------------------------------------------------------
(* Turns *)

LEMMA SystemTakesTurns ==
  ASSUME TakesTurns, [SystemNext]_systemVars
  PROVE  TakesTurns'
<1>1. ASSUME UNCHANGED poolOnly, UNCHANGED host PROVE Creating' = Creating
  BY <1>1 DEF poolOnly, Creating, At, CreationRefused, InPool, ActiveCount, VmsIn, WarmCount,
              CreatingCount
<1>2. CASE Ask
  <2>1. Creating /\ UNCHANGED poolOnly /\ UNCHANGED host
    BY <1>2 DEF Ask, Aware!CreateVm, Aware!controlPlane
  <2> QED BY <1>1, <2>1 DEF TakesTurns
<1>3. CASE Provide
  BY <1>1, <1>3, HostWaits DEF Provide, TakesTurns
<1>4. CASE Answer BY <1>4 DEF Answer, TakesTurns
<1>5. CASE Publish
  <2>1. UNCHANGED <<poolOnly, host, step>>
    BY <1>5 DEF Publish, Aware!CatalogChanges, Aware!controlPlane
  <2> QED BY <1>1, <2>1 DEF TakesTurns
<1>6. CASE PoolMoves
  BY <1>6 DEF PoolMoves, TakesTurns, providerOnly, Aware!DestroyVm
<1>7. CASE UNCHANGED systemVars
  BY <1>1, <1>7 DEF systemVars, vars, poolOnly, providerOnly, TakesTurns
<1> QED BY <1>2, <1>3, <1>4, <1>5, <1>6, <1>7 DEF SystemNext

LEMMA TurnsAreTaken == System => []TakesTurns
<1>1. SystemInit => TakesTurns BY DEF SystemInit, Aware!Init, TakesTurns
<1> QED BY <1>1, SystemTakesTurns, PTL DEF System

(***************************************************************************)
(* Both components stay well typed, and the pool and its provider take     *)
(* turns: no method of the pool goes on while create_vm is under way.      *)
(***************************************************************************)
THEOREM SystemAlwaysOK == System => []SystemOK
  BY SystemRunsProvider, ImplementsPool, TypeCorrect, ProviderTypeCorrect, TurnsAreTaken, PTL
     DEF SystemOK

----------------------------------------------------------------------------
(* The pool's promises over this provider *)

(***************************************************************************)
(* The warm floor over a provider that goes through a restore, a report    *)
(* and a cold boot for each VM, any of which may fail.                     *)
(***************************************************************************)
THEOREM ServedFloorRestored ==
  ASSUME "health" \notin Faults, CreateTimeout > 0
  PROVE  System => []FloorRestored
  BY ImplementsPool, FloorAlwaysRestored, PTL

(***************************************************************************)
(* acquire over this provider gives up only when nothing could have served *)
(* it in time.                                                             *)
(***************************************************************************)
THEOREM ServedTimedOutBusy ==
  ASSUME "health" \notin Faults, CreateTimeout > 0, MaxWarm > 0
  PROVE  System => []TimedOutMeansBusy
  BY ImplementsPool, TimedOutAlwaysBusy, PTL

\* An answer that is an error is one of the catalog or of a cold boot.
LEMMA ErrorsOfCreateVm ==
  ASSUME Aware!TypeOK, Aware!CreateVmGoesOn, step' = "idle", answer' = NoVm
  PROVE  step \in {"latest_snapshot", "create_vm_from_boot"} /\ lastError' = step
<1>1. CASE Aware!QueryFails \/ Aware!BootFails
  BY <1>1 DEF Aware!QueryFails, Aware!BootFails, Aware!Abort
<1>2. ~Aware!RestoreSnapshot /\ ~Aware!CreateVmFromBoot
  BY VmsAssumption DEF Aware!RestoreSnapshot, Aware!CreateVmFromBoot, Aware!Finish
<1>3. ~Aware!QuerySnapshot /\ ~Aware!RestoreFails /\ ~Aware!RecordFailure
  BY DEF Aware!QuerySnapshot, Aware!RestoreFails, Aware!RecordFailure
<1> QED BY <1>1, <1>2, <1>3 DEF Aware!CreateVmGoesOn

(***************************************************************************)
(* Failed restores and failed reports never reach a caller of the pool: a  *)
(* call fails only in the step in which the catalog or a cold boot does,   *)
(* or when the VM it releases is not leased.  The theorem assumes callers  *)
(* whose clocks do not run backwards and instants that fit.                *)
(***************************************************************************)
THEOREM RestoresAlwaysSurvived ==
  ASSUME "clock" \notin Faults, InstantsFit
  PROVE  System => PoolSurvivesRestores
<1>1. ASSUME SystemOK, OrderInv, NeverPast, HostInv, [SystemNext]_systemVars,
             op.result # "err", op'.result = "err"
      PROVE  \/ step \in {"latest_snapshot", "create_vm_from_boot"} /\ lastError' = step
             \/ op.name = "release" /\ vms[op.vm].state # "Leased"
  <2>1. CoreTypeOK /\ Aware!TypeOK
    BY <1>1 DEF SystemOK, TypeOK, CoreTypeOK, PoolTypeOK, CallTypeOK
  <2>2. CASE Ask \/ Provide \/ Publish \/ UNCHANGED systemVars
    BY <1>1, <2>2 DEF Ask, Provide, Publish, poolOnly, systemVars, vars
  <2>3. CASE Answer
    <3>1. CASE answer' = NoVm BY <2>1, <2>3, <3>1, ErrorsOfCreateVm DEF Answer
    <3>2. CASE answer' # NoVm
      <4>1. StartCreation BY <2>3, <3>2 DEF Answer
      <4> QED BY <1>1, <2>1, <4>1, CreationFits
    <3> QED BY <3>1, <3>2
  <2>4. CASE PoolMoves
    <3>1. Next /\ ~CreationFails BY <2>4 DEF PoolMoves, Creating, CreationFails
    <3>2. ~Call /\ ~Return
      BY <1>1 DEF Call, Refill, Acquire, Release, Reap, Begin, Return, NoCall
    <3>3. Step BY <3>1, <3>2 DEF Next
    <3>4. ReleaseRejected BY <1>1, <2>1, <3>1, <3>3, ProviderFails, OnlyTheseFail
    <3>5. "release" \in StepsOf(agenda)
      BY <1>1, <2>1, <3>4, LeadsTail DEF ReleaseRejected, At, OrderInv, Linked, CoreTypeOK
    <3>6. op.name = "release"
      BY <1>1, <3>5 DEF OrderInv, OwnAgenda, OwnSteps, Refilling, Refreshing
    <3> QED BY <3>4, <3>6 DEF ReleaseRejected
  <2> QED BY <1>1, <2>2, <2>3, <2>4 DEF SystemNext
<1>2. Spec => []NeverPast
  BY AlwaysOrdered, NeverPastInductive, PTL DEF Spec
<1>3. Spec => []HostInv
  BY AlwaysOrdered, HostInvInductive, ProviderFails, PTL DEF Spec
<1> QED BY <1>1, <1>2, <1>3, ImplementsPool, SystemAlwaysOK, AlwaysOrdered, PTL
           DEF System, PoolSurvivesRestores

----------------------------------------------------------------------------
(* Every call comes to an end *)

\* The calls to the control plane that create_vm may still make.
CallsLeft == CASE step = "idle" -> 5
               [] step = "latest_snapshot" -> 4
               [] step = "restore_snapshot" -> 3
               [] step = "record_restore_failure" -> 2
               [] OTHER -> 1

\* The pool has less to do, or it is as it was and the provider has fewer calls
\* to make, or nothing but the catalog changed.
Progress ==
  \/ Less(WorkLeft', WorkLeft)
  \/ UNCHANGED WorkLeft /\ CallsLeft' < CallsLeft
  \/ Publish /\ UNCHANGED <<WorkLeft, CallsLeft>>

LEMMA ProviderRunsDown ==
  ASSUME Aware!CreateVmGoesOn, step' # "idle"
  PROVE  CallsLeft' < CallsLeft
<1>1. CASE Aware!QuerySnapshot
  <2>1. step = "latest_snapshot" /\ step' \in {"restore_snapshot", "create_vm_from_boot"}
    BY <1>1 DEF Aware!QuerySnapshot
  <2> QED BY <2>1 DEF CallsLeft
<1>2. CASE Aware!RestoreFails BY <1>2 DEF Aware!RestoreFails, CallsLeft
<1>3. CASE Aware!RecordFailure BY <1>3 DEF Aware!RecordFailure, CallsLeft
<1> QED BY <1>1, <1>2, <1>3 DEF Aware!CreateVmGoesOn, Aware!QueryFails, Aware!RestoreSnapshot,
           Aware!CreateVmFromBoot, Aware!BootFails, Aware!Finish, Aware!Abort

(***************************************************************************)
(* Over the snapshot-aware provider, too, every call comes to an end: each *)
(* step of the pool or of the provider leaves the pool less to do, or the  *)
(* pool as it is and the provider fewer calls to make.  Snapshots that are *)
(* published meanwhile do not prolong a call.                              *)
(***************************************************************************)
THEOREM SystemRunsDown ==
  System =>
    /\ [](CallsLeft \in Nat /\ WorkLeft \in Nat \X Nat \X Nat \X Nat \X Nat \X Nat)
    /\ [][agenda # <<>> => Progress]_systemVars
<1>1. CallsLeft \in Nat BY DEF CallsLeft
<1>2. ASSUME UNCHANGED poolOnly PROVE UNCHANGED WorkLeft
  BY <1>2 DEF poolOnly, WorkLeft, CountOf, Entries, Pending, VmsIn, WarmCount
<1>3. ASSUME TypeOK, OrderInv, op.now <= op.deadline, SystemNext, agenda # <<>>
      PROVE  Progress
  <2> USE DEF Progress
  <2>1. CASE Ask
    <3>1. CallsLeft' < CallsLeft BY <2>1 DEF Ask, Aware!CreateVm, CallsLeft
    <3> QED BY <1>2, <2>1, <3>1 DEF Ask
  <2>2. CASE Provide BY <1>2, <2>2, ProviderRunsDown DEF Provide
  <2>3. CASE Publish
    <3>1. UNCHANGED CallsLeft BY <2>3 DEF Publish, Aware!CatalogChanges, CallsLeft
    <3> QED BY <1>2, <2>3, <3>1 DEF Publish
  <2>4. CASE Answer \/ PoolMoves
    <3>1. Next BY <2>4 DEF Answer, PoolMoves, Next, Step
    <3> QED BY <1>3, <3>1, NextLessens
  <2> QED BY <1>3, <2>1, <2>2, <2>3, <2>4 DEF SystemNext
<1>4. TypeOK /\ OrderInv /\ op.now <= op.deadline /\ [SystemNext]_systemVars
        => [agenda # <<>> => Progress]_systemVars
  BY <1>3
<1> QED BY <1>1, <1>4, ImplementsPool, AlwaysOrdered, AlwaysInTime, CallsRunDown, PTL DEF System
=============================================================================
