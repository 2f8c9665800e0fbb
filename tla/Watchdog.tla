------------------------------ MODULE Watchdog ------------------------------
(***************************************************************************)
(* What timeout_ms promises, whatever interrupts the guest: a run that is  *)
(* reported as timed out had a timeout, and that time, less a grace of at  *)
(* most Grace milliseconds, had passed since it was put under watch.       *)
(*                                                                         *)
(* EpochTicker (one thread that moves the epoch of all runs) implements it *)
(* with a grace of one millisecond, ReproRun (a thread per run) with none. *)
(***************************************************************************)
EXTENDS Integers

CONSTANTS Runs, Timeouts, MaxAge, Grace
VARIABLES watch, limit, elapsed, verdict
watchVars == <<watch, limit, elapsed, verdict>>

Unlimited == -1

Reset(r, to, limitMs) ==
  /\ watch' = [watch EXCEPT ![r] = to]
  /\ limit' = [limit EXCEPT ![r] = limitMs]
  /\ elapsed' = [elapsed EXCEPT ![r] = 0]
  /\ verdict' = [verdict EXCEPT ![r] = "none"]

Watch(r, limitMs) == watch[r] = "idle" /\ Reset(r, "on", limitMs)
Forget(r) == watch[r] # "idle" /\ Reset(r, "idle", Unlimited)

End(r, how) ==
  /\ watch[r] = "on"
  /\ watch' = [watch EXCEPT ![r] = "over"]
  /\ verdict' = [verdict EXCEPT ![r] = how]
  /\ UNCHANGED <<limit, elapsed>>

Finish(r) == End(r, "finished")
TimeOut(r) == limit[r] # Unlimited /\ elapsed[r] >= limit[r] - Grace /\ End(r, "timed_out")

Elapse ==
  /\ elapsed' = [r \in Runs |-> IF watch[r] = "idle" \/ elapsed[r] = MaxAge THEN elapsed[r]
                                ELSE elapsed[r] + 1]
  /\ UNCHANGED <<watch, limit, verdict>>

Init ==
  /\ watch = [r \in Runs |-> "idle"]
  /\ limit = [r \in Runs |-> Unlimited]
  /\ elapsed = [r \in Runs |-> 0]
  /\ verdict = [r \in Runs |-> "none"]

Next == \/ Elapse
        \/ \E r \in Runs : (\E t \in Timeouts : Watch(r, t)) \/ Finish(r) \/ TimeOut(r) \/ Forget(r)

Spec == Init /\ [][Next]_watchVars
=============================================================================
