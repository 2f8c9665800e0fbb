---------------------------- MODULE SnapshotPool ----------------------------
(***************************************************************************)
(* The VM pool over the snapshot-aware provider: FirecrackerVmPool (VmPool)*)
(* with a SnapshotAwareProvider (SnapshotProvider) as its VmProvider, over *)
(* one host.  Where VmPool lets create_vm succeed or fail in one step, the *)
(* provider now goes through its calls to the control plane inside         *)
(* start_creation, and its answer is what the pool goes on with.           *)
(***************************************************************************)
EXTENDS VmPool

CONSTANTS Snapshots, NoSnapshot

VARIABLES quarantined, step, chosen, answer, tags, origin, latest, failures, lastError

ASSUME SnapshotsAssumption == NoSnapshot \notin Snapshots
ASSUME ProviderFails == "create" \in Faults /\ "destroy" \notin Faults

Aware == INSTANCE SnapshotProvider

poolOnly == <<vms, lastObserved, surplusSince, metrics, op, agenda, handles, lowAt>>
providerOnly == <<quarantined, step, chosen, answer, tags, origin, latest, failures, lastError>>

\* start_creation has decided to call create_vm.
Creating == At("start_creation") /\ ~CreationRefused

Ask == Creating /\ Aware!CreateVm /\ UNCHANGED poolOnly

Provide ==
  /\ Creating
  /\ Aware!CreateVmGoesOn
  /\ step' # "idle"
  /\ UNCHANGED poolOnly

\* create_vm returns: with Ok the pool enters the VM in its map, with Err its
\* own call fails.
Answer ==
  /\ Creating
  /\ Aware!CreateVmGoesOn
  /\ step' = "idle"
  /\ IF answer' = NoVm THEN CreationFails ELSE StartCreation
  /\ NoteLow

\* The catalog is read once per create_vm, so it need only change before that.
Publish ==
  /\ step = "latest_snapshot"
  /\ Aware!CatalogChanges
  /\ UNCHANGED poolOnly

\* The pool works without its provider, or has it destroy a VM.
PoolMoves ==
  /\ ~Creating
  /\ Next
  /\ IF host' = host THEN UNCHANGED providerOnly ELSE Aware!DestroyVm

SystemInit == Init /\ Aware!Init
SystemNext == Ask \/ Provide \/ Answer \/ Publish \/ PoolMoves
systemVars == <<vars, providerOnly>>
System == SystemInit /\ [][SystemNext]_systemVars

\* A call runs to its end, the provider's work included; that work is not
\* held up by a catalog that changes for ever.
FairSystem ==
  /\ System
  /\ WF_systemVars(Ask) /\ WF_systemVars(Provide \/ Answer) /\ WF_systemVars(PoolMoves /\ ~Idle)

----------------------------------------------------------------------------
(* Properties: the pool's own, inherited from VmPool, and these.  FailsOnce *)
(* and ProviderSpec are the provider's promises, now in the pool's service. *)

\* The provider works only while the pool waits for its answer.
TakesTurns == step # "idle" => Creating

\* Type invariant of both components.
SystemOK == TypeOK /\ Aware!TypeOK /\ TakesTurns

(* docs/FIRECRACKER_SNAPSHOT.md, "Restore failures are recorded and          *)
(* immediately fallback to cold boot without breaking the pool": a call of   *)
(* the pool fails only as the catalog or a cold boot does, however many      *)
(* restores and reports of failures went wrong during the call.              *)
PoolSurvivesRestores ==
  [][op.result # "err" /\ op'.result = "err" =>
       \/ step \in {"latest_snapshot", "create_vm_from_boot"} /\ lastError' = step
       \/ op.name = "release" /\ vms[op.vm].state # "Leased"]_systemVars

\* No snapshot costs the pool more than one failed restore.
FailsOnce == Aware!FailsOnce

\* Every create_vm of the pool gets one new VM, truthfully tagged, or an error
\* and none.
ProviderSpec == Aware!ProviderSpec
=============================================================================
