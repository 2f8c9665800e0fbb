--------------------------- MODULE PythonRuntime ---------------------------
(***************************************************************************)
(* A process that opens sandboxes and makes reproduction runs, while the   *)
(* assets both need are prepared, replaced or removed: SharedRuntime and   *)
(* ReproRun over the same directories.  A runtime that is open needs them  *)
(* no more; a reproduction run looks for them every time.                  *)
(***************************************************************************)
EXTENDS SharedRuntime, ReproRun

vars == <<assetVars, sharedVars, reproVars>>

Init == AssetsInit /\ SharedInit /\ ReproInit

\* A thread makes one call at a time, of either kind.
SharedStep ==
  /\ \E o \in Openers : Opener(o) /\ (o \in Repros => guest[o] = "none")
  /\ UNCHANGED reproVars
ReproStep == ((\E r \in Repros : Repro(r)) \/ Timers \/ MillisecondPasses) /\ UNCHANGED sharedVars
AssetsStep == (\E p \in Places : PlaceChanges(p)) /\ UNCHANGED <<sharedVars, reproVars>>

Next == SharedStep \/ ReproStep \/ AssetsStep
Spec == Init /\ [][Next]_vars

\* Time passes, timers fire when their sleep is over, and a guest that keeps
\* running comes to a check of the epoch.
FairSpec ==
  /\ Spec
  /\ WF_vars(MillisecondPasses /\ UNCHANGED sharedVars)
  /\ WF_vars(Timers /\ UNCHANGED sharedVars)
  /\ \A r \in Repros : WF_vars(ReproInterrupted(r) /\ UNCHANGED sharedVars)

\* Type invariant.
TypeOK == AssetsOK /\ SharedOK /\ ReproOK
=============================================================================
