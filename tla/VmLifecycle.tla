---------------------------- MODULE VmLifecycle ----------------------------
(***************************************************************************)
(* What the Tier 2 pool promises about one micro-VM, whatever the pool's   *)
(* scheduling does: the lifecycle table of docs/FIRECRACKER_POOL.md as the *)
(* state machine of src/agentbox-core/src/vm_pool.rs really runs it.       *)
(*                                                                         *)
(* A VM that a caller holds a lease on is Leased and stays so until that   *)
(* caller gives the lease back; nobody drains it, destroys it or hands it  *)
(* to a second caller meanwhile.  A used VM is never handed out again      *)
(* before it went through Draining.                                        *)
(***************************************************************************)
CONSTANT Vms

VARIABLES state,    \* VM -> its VmState, or "Absent" outside the pool
          held      \* the VMs a caller holds a lease on

vars == <<state, held>>

Statuses == {"Absent", "Creating", "Warm", "Leased", "Draining"}

Init == /\ state = [v \in Vms |-> "Absent"]
        /\ held = {}

Move(v, from, to) == /\ state[v] \in from
                     /\ state' = [state EXCEPT ![v] = to]
                     /\ UNCHANGED held

Boot(v)    == Move(v, {"Absent"}, "Creating")
Ready(v)   == Move(v, {"Creating", "Draining"}, "Warm")
Lease(v)   == Move(v, {"Warm"}, "Leased")
Drain(v)   == v \notin held /\ Move(v, {"Leased"}, "Draining")
Discard(v) == v \notin held /\ Move(v, Statuses \ {"Absent"}, "Absent")

\* The pool's answer reaches the caller: from here on the caller holds the VM.
HandOver(v) == /\ state[v] = "Leased"
               /\ v \notin held
               /\ held' = held \cup {v}
               /\ UNCHANGED state

\* The caller passes its lease to release.
GiveBack(v) == /\ v \in held
               /\ held' = held \ {v}
               /\ UNCHANGED state

Next == \E v \in Vms : \/ Boot(v) \/ Ready(v) \/ Lease(v) \/ Drain(v)
                       \/ Discard(v) \/ HandOver(v) \/ GiveBack(v)

Spec == Init /\ [][Next]_vars

(***************************************************************************)
(* Every VM a caller holds is Leased in the pool.                          *)
(***************************************************************************)
HeldIsLeased == /\ state \in [Vms -> Statuses]
                /\ held \subseteq {v \in Vms : state[v] = "Leased"}
=============================================================================
