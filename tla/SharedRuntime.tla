--------------------------- MODULE SharedRuntime ---------------------------
(***************************************************************************)
(* WasmRuntime::new of src/agentbox-core/src/runtime.rs: the engine and    *)
(* the compiled module are made once per process, in a OnceCell, and       *)
(* shared by all sandboxes.  One thread at a time initialises the cell,    *)
(* the others wait for it; if it fails the cell stays empty and the next   *)
(* thread tries, with an engine and a ticker thread of its own.            *)
(***************************************************************************)
EXTENDS RuntimeAssets

CONSTANTS
  Openers,      \* threads that call WasmRuntime::new
  Nobody,
  MaxEngines    \* bound: engines made by the process

ASSUME OpenersAssumption == Openers \subseteq Seekers /\ Nobody \notin Seekers /\ MaxEngines \in Nat

VARIABLES
  cell,          \* SHARED_RUNTIME_STATE: its engine, or 0
  initialising,  \* who is in get_or_try_init
  engines,       \* engines made so far: 1..engines
  tickers,       \* the ticker threads that move the epoch of each engine
  runtime        \* the engine of each opener's runtime, 0 for none

sharedVars == <<cell, initialising, engines, tickers, runtime>>

CallNew(o) == Call(o) /\ UNCHANGED sharedVars

\* The cell is full.
TakeShared(o) ==
  /\ step[o] = "called"
  /\ cell # 0
  /\ step' = [step EXCEPT ![o] = "found"]
  /\ runtime' = [runtime EXCEPT ![o] = cell]
  /\ UNCHANGED <<assets, override, dir, hindered, cell, initialising, engines, tickers>>

\* Mutant of NextEngine: a failed attempt leaves its engine to the next.
FirstEngine == 1
NextEngine == engines + 1

\* An engine and its ticker, before anything is known of python.wasm.
SpawnTicker(o) ==
  /\ engines < MaxEngines
  /\ step[o] = "called" /\ cell = 0 /\ initialising = Nobody
  /\ initialising' = o
  /\ engines' = NextEngine
  /\ tickers' = [tickers EXCEPT ![NextEngine] = @ + 1]
  /\ runtime' = [runtime EXCEPT ![o] = NextEngine]
  /\ UNCHANGED <<cell, assetVars>>

\* Engine::new or the spawning of the thread fails.
SpawnFails(o) ==
  /\ step[o] = "called" /\ cell = 0 /\ initialising = Nobody
  /\ Hinder(o)
  /\ UNCHANGED sharedVars

\* Mutant of Locate: a failed attempt does not let the next thread in.
LocateHoldsCell(o) ==
  /\ initialising = o
  /\ ResolveDir(o) \/ CheckModule(o) \/ LoadModule(o)
  /\ cell' = IF step'[o] = "found" THEN runtime[o] ELSE cell
  /\ initialising' = IF step'[o] = "found" THEN Nobody ELSE o
  /\ runtime' = IF step'[o] = "failed" THEN [runtime EXCEPT ![o] = 0] ELSE runtime
  /\ UNCHANGED <<engines, tickers>>

\* Mutant of Locate: what failed once fails again at once.
LocateRemembers(o) ==
  /\ initialising = o
  /\ Proceed(o, engines = 1 /\ Usable, "found", Unset)
  /\ cell' = IF step'[o] = "found" THEN runtime[o] ELSE cell
  /\ initialising' = Nobody
  /\ runtime' = IF step'[o] = "failed" THEN [runtime EXCEPT ![o] = 0] ELSE runtime
  /\ UNCHANGED <<engines, tickers>>

\* The rest of init_shared_runtime_state; the ticker of a failed attempt stays.
Locate(o) ==
  /\ initialising = o
  /\ ResolveDir(o) \/ CheckModule(o) \/ LoadModule(o)
  /\ cell' = IF step'[o] = "found" THEN runtime[o] ELSE cell
  /\ initialising' = IF step'[o] \in {"found", "failed"} THEN Nobody ELSE o
  /\ runtime' = IF step'[o] = "failed" THEN [runtime EXCEPT ![o] = 0] ELSE runtime
  /\ UNCHANGED <<engines, tickers>>

\* The answer is taken and, later, the runtime dropped.
DropRuntime(o) ==
  /\ Answered(o)
  /\ runtime' = [runtime EXCEPT ![o] = 0]
  /\ UNCHANGED <<cell, initialising, engines, tickers>>

SharedInit ==
  /\ cell = 0 /\ initialising = Nobody /\ engines = 0
  /\ tickers = [e \in 1..MaxEngines |-> 0]
  /\ runtime = [o \in Openers |-> 0]

Opener(o) == CallNew(o) \/ TakeShared(o) \/ SpawnTicker(o) \/ SpawnFails(o) \/ Locate(o) \/ DropRuntime(o)

SharedOK ==
  /\ cell \in 0..engines
  /\ initialising \in Openers \cup {Nobody}
  /\ engines \in 0..MaxEngines
  /\ tickers \in [1..MaxEngines -> Nat]
  /\ runtime \in [Openers -> 0..engines]
  /\ initialising # Nobody => step[initialising] \in Searching

(* All runtimes of the process are one: whoever holds a runtime holds the one *)
(* of the cell, and one ticker moves its epoch, however many attempts failed  *)
(* before and left a ticker behind: with two, every timeout would fire after  *)
(* half its time (runtime.rs:54 and 141).                                     *)
RuntimeShared ==
  \A o \in Openers : runtime[o] # 0 /\ initialising # o => runtime[o] = cell /\ tickers[cell] = 1
=============================================================================
