-------------------------- MODULE SnapshotProvider --------------------------
(***************************************************************************)
(* SnapshotAwareProvider of src/agentbox-core/src/snapshot.rs: the         *)
(* VmProvider that restores a VM from the latest snapshot of its lineage   *)
(* and falls back to a cold boot.                                          *)
(*                                                                         *)
(* create_vm makes up to four calls to the control plane, each of which    *)
(* may fail; snapshots are published, withdrawn and replaced by others at  *)
(* any time between them.                                                  *)
(***************************************************************************)
EXTENDS Naturals, FiniteSets

CONSTANTS
  Vms,            \* ids the control plane can give out
  NoVm,           \* "no VM", none of Vms
  Snapshots,      \* snapshot ids of the preferred lineage
  NoSnapshot      \* None, none of Snapshots (SnapshotPool assumes both)

VARIABLES
  quarantined,    \* quarantined_snapshot_ids
  step,           \* where create_vm is
  chosen,         \* the snapshot create_vm works with
  answer,         \* the VM the last create_vm returned, or NoVm for Err
  tags,           \* boot_source and snapshot_id of the CreatedVm returned for a VM
  \* The control plane behind the trait SnapshotControlPlane.
  host,           \* VMs that exist
  origin,         \* what each of them was really started from
  latest,         \* the latest snapshot in the catalog
  failures,       \* how many restores of a snapshot have failed
  lastError       \* the call whose error ended the last create_vm

controlPlane == <<host, origin, failures>>
vars == <<quarantined, step, chosen, answer, tags, host, origin, latest, failures, lastError>>

Steps == {"idle", "latest_snapshot", "restore_snapshot", "record_restore_failure",
          "create_vm_from_boot"}
Untagged == [bootSource |-> "None", snapshot |-> NoSnapshot]
BootTag == [bootSource |-> "Boot", snapshot |-> NoSnapshot]
SnapshotTag(s) == [bootSource |-> "Snapshot", snapshot |-> s]

\* Mutant of FallbackTag: the snapshot that could not be restored is kept.
FallbackTagKeepsSnapshot == [bootSource |-> "Boot", snapshot |-> chosen]
\* The tag of a cold boot, whatever the control plane put in its answer.
FallbackTag == BootTag

----------------------------------------------------------------------------
(* create_vm *)

Finish(v, tag) == /\ step' = "idle"
                  /\ answer' = v
                  /\ tags' = [tags EXCEPT ![v] = tag]
                  /\ UNCHANGED lastError

Abort(culprit) == /\ step' = "idle"
                  /\ answer' = NoVm
                  /\ lastError' = culprit
                  /\ UNCHANGED tags

CreateVm ==
  /\ step = "idle"
  /\ step' = "latest_snapshot"
  /\ chosen' = NoSnapshot
  /\ lastError' = "none"
  /\ UNCHANGED <<quarantined, answer, tags, controlPlane, latest>>

\* Mutant of UseSnapshot: an empty catalog is not recognised.
UseWhateverLatest == latest \notin quarantined
UseSnapshot == latest # NoSnapshot /\ latest \notin quarantined

QuerySnapshot ==
  /\ step = "latest_snapshot"
  /\ chosen' = latest
  /\ step' = IF UseSnapshot THEN "restore_snapshot" ELSE "create_vm_from_boot"
  /\ UNCHANGED <<quarantined, answer, tags, controlPlane, latest, lastError>>

\* An error of the catalog is the error of create_vm.
QueryFails ==
  /\ step = "latest_snapshot"
  /\ Abort("latest_snapshot")
  /\ UNCHANGED <<quarantined, chosen, controlPlane, latest>>

Start(v, source) == host' = host \cup {v} /\ origin' = [origin EXCEPT ![v] = source]

RestoreSnapshot ==
  /\ step = "restore_snapshot"
  /\ \E v \in Vms \ host : Start(v, SnapshotTag(chosen)) /\ Finish(v, SnapshotTag(chosen))
  /\ UNCHANGED <<quarantined, chosen, latest, failures>>

\* Mutant of RestoreFails: quarantined only once the failure is on record.
RestoreFailsUnquarantined ==
  /\ step = "restore_snapshot"
  /\ failures' = [failures EXCEPT ![chosen] = @ + 1]
  /\ step' = "record_restore_failure"
  /\ UNCHANGED <<quarantined, chosen, answer, tags, host, origin, latest, lastError>>

RestoreFails ==
  /\ step = "restore_snapshot"
  /\ failures' = [failures EXCEPT ![chosen] = @ + 1]
  /\ quarantined' = quarantined \cup {chosen}
  /\ step' = "record_restore_failure"
  /\ UNCHANGED <<chosen, answer, tags, host, origin, latest, lastError>>

\* Mutant of RecordFailure: an error of the report is the error of create_vm.
RecordFailurePropagates ==
  /\ step = "record_restore_failure"
  /\ \/ step' = "create_vm_from_boot" /\ UNCHANGED <<answer, tags, lastError>>
     \/ Abort("record_restore_failure")
  /\ UNCHANGED <<quarantined, chosen, controlPlane, latest>>

\* Whether the report succeeds or not, a cold boot follows.
RecordFailure ==
  /\ step = "record_restore_failure"
  /\ step' = "create_vm_from_boot"
  /\ UNCHANGED <<quarantined, chosen, answer, tags, controlPlane, latest, lastError>>

CreateVmFromBoot ==
  /\ step = "create_vm_from_boot"
  /\ \E v \in Vms \ host : Start(v, BootTag) /\ Finish(v, FallbackTag)
  /\ UNCHANGED <<quarantined, chosen, latest, failures>>

BootFails ==
  /\ step = "create_vm_from_boot"
  /\ Abort("create_vm_from_boot")
  /\ UNCHANGED <<quarantined, chosen, controlPlane, latest>>

----------------------------------------------------------------------------
\* destroy_vm is passed on; the pool calls it between two create_vm.
DestroyVm ==
  /\ step = "idle"
  /\ \E v \in host :
       /\ host' = host \ {v}
       /\ origin' = [origin EXCEPT ![v] = Untagged]
       /\ tags' = [tags EXCEPT ![v] = Untagged]
  /\ UNCHANGED <<quarantined, step, chosen, answer, latest, failures, lastError>>

\* The catalog changes: a snapshot is published, replaced or withdrawn.
CatalogChanges ==
  /\ latest' \in (Snapshots \cup {NoSnapshot}) \ {latest}
  /\ UNCHANGED <<quarantined, step, chosen, answer, tags, controlPlane, lastError>>

Init ==
  /\ quarantined = {}
  /\ step = "idle"
  /\ chosen = NoSnapshot
  /\ answer = NoVm
  /\ tags = [v \in Vms |-> Untagged]
  /\ host = {}
  /\ origin = [v \in Vms |-> Untagged]
  /\ latest = NoSnapshot
  /\ failures = [s \in Snapshots |-> 0]
  /\ lastError = "none"

\* What create_vm does after its call.
CreateVmGoesOn == \/ QuerySnapshot \/ QueryFails \/ RestoreSnapshot \/ RestoreFails
                  \/ RecordFailure \/ CreateVmFromBoot \/ BootFails

Next == CreateVm \/ CreateVmGoesOn \/ DestroyVm \/ CatalogChanges

Spec == Init /\ [][Next]_vars

----------------------------------------------------------------------------
(* Properties *)

\* Type invariant.
TypeOK ==
  /\ quarantined \subseteq Snapshots
  /\ step \in Steps
  /\ chosen \in Snapshots \cup {NoSnapshot}
  /\ step \in {"restore_snapshot", "record_restore_failure"} => chosen \in Snapshots
  /\ answer \in Vms \cup {NoVm}
  /\ tags \in [Vms -> {Untagged, BootTag} \cup {SnapshotTag(s) : s \in Snapshots}]
  /\ host \subseteq Vms
  /\ origin \in [Vms -> {Untagged, BootTag} \cup {SnapshotTag(s) : s \in Snapshots}]
  /\ latest \in Snapshots \cup {NoSnapshot}
  /\ failures \in [Snapshots -> Nat]
  /\ lastError \in Steps \cup {"none"}

(* docs/FIRECRACKER_SNAPSHOT.md:69, failed snapshot ids are "quarantined       *)
(* in-process": one snapshot costs at most one failed restore, even when the *)
(* catalog keeps offering it, withdraws it and offers it again, and even     *)
(* when the failure could not be recorded.                                   *)
FailsOnce == \A s \in Snapshots : failures[s] <= 1

\* The pool learns how each of its VMs was really started.
TagsTruthful == \A v \in host : tags[v] = origin[v]

(* Through all its internal failures the provider keeps the contract the     *)
(* pool relies on: one new VM, whose boot_source and snapshot_id say what it *)
(* was really started from after a restore, a fallback or a plain boot       *)
(* alike, or an error and none.                                              *)
Provider == INSTANCE VmProvider
              WITH Sources <- {BootTag} \cup {SnapshotTag(s) : s \in Snapshots}, NoSource <- Untagged
ProviderSpec == Provider!Spec
=============================================================================
