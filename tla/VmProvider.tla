----------------------------- MODULE VmProvider -----------------------------
(***************************************************************************)
(* What FirecrackerVmPool expects of the VmProvider it is given            *)
(* (src/agentbox-core/src/vm_pool.rs): create_vm answers with one VM that  *)
(* did not exist before, tagged with what it was started from, or with an  *)
(* error and nothing new exists; only destroy_vm takes a VM away.  This is *)
(* the host of module VmPool as its provider sees it.                      *)
(***************************************************************************)
CONSTANTS Vms, NoVm,
          Sources,  \* what a VM can be started from
          NoSource

VARIABLES host,     \* the VMs that exist
          answer,   \* what the last create_vm gave: a VM, or NoVm
          origin,   \* what each VM was really started from
          tags      \* what its CreatedVm says of that

vars == <<host, answer, origin, tags>>

Init ==
  /\ host = {} /\ answer = NoVm
  /\ origin = [v \in Vms |-> NoSource] /\ tags = [v \in Vms |-> NoSource]

Sourced(v, s) == origin' = [origin EXCEPT ![v] = s] /\ tags' = [tags EXCEPT ![v] = s]

CreateVm == \E v \in Vms \ host, s \in Sources : host' = host \cup {v} /\ answer' = v /\ Sourced(v, s)

CreateVmFails == answer' = NoVm /\ UNCHANGED <<host, origin, tags>>

DestroyVm == \E v \in host : host' = host \ {v} /\ Sourced(v, NoSource) /\ UNCHANGED answer

Next == CreateVm \/ CreateVmFails \/ DestroyVm

Spec == Init /\ [][Next]_vars
=============================================================================
