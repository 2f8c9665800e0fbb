--------------------------- MODULE RuntimeAssets ---------------------------
(***************************************************************************)
(* How a caller finds python.wasm: resolve_cpython_runtime_dir of          *)
(* src/agentbox-core/src/runtime.rs and the checks its callers make on the *)
(* directory it returns, while that directory may be prepared or removed.  *)
(*                                                                         *)
(* A directory named by AGENTBOX_CPYTHON_WASI_RUNTIME_DIR is the only one  *)
(* looked at; otherwise the first candidate that is a directory is taken,  *)
(* complete or not.  The search, the check for the file and the loading of *)
(* it are three steps, and the directories may change between them.        *)
(***************************************************************************)
EXTENDS Naturals, Sequences

CONSTANTS
  Seekers,      \* threads that look for the runtime
  Places,       \* directories
  Candidates,   \* where to look, in order, if the environment names no place
  Overrides,    \* values of AGENTBOX_CPYTHON_WASI_RUNTIME_DIR
  Unset         \* it is not set

ASSUME CandidatesAssumption ==
  Candidates \in Seq(Places) /\ Unset \notin Places /\ Overrides \subseteq Places \cup {Unset}

VARIABLES
  assets,       \* what is at each place
  override,     \* the environment variable
  step,         \* how far each search is
  dir,          \* the directory it has resolved
  hindered      \* ghost: since the call the runtime was incomplete, or one was removed

searchVars == <<step, dir, hindered>>
assetVars == <<assets, override, searchVars>>

\* "bare": a directory without python.wasm; "broken": with one that cannot be loaded.
States == {"absent", "bare", "broken", "complete"}

Searching == {"called", "checking", "loading"}

\* The directory resolve_cpython_runtime_dir returns, if any.
Resolve ==
  IF override # Unset THEN {p \in {override} : assets[p] # "absent"}
  ELSE {Candidates[i] : i \in {i \in DOMAIN Candidates :
          assets[Candidates[i]] # "absent" /\ \A j \in 1..i - 1 : assets[Candidates[j]] = "absent"}}

Usable == \E p \in Resolve : assets[p] = "complete"

----------------------------------------------------------------------------
Call(c) ==
  /\ step[c] = "idle"
  /\ step' = [step EXCEPT ![c] = "called"]
  /\ hindered' = [hindered EXCEPT ![c] = ~Usable]
  /\ UNCHANGED <<assets, override, dir>>

\* The search goes on, or is over with an error.
Proceed(c, ok, to, place) ==
  /\ step' = [step EXCEPT ![c] = IF ok THEN to ELSE "failed"]
  /\ dir' = [dir EXCEPT ![c] = IF ok THEN place ELSE Unset]
  /\ UNCHANGED <<assets, override, hindered>>

ResolveDir(c) ==
  /\ step[c] = "called"
  /\ Proceed(c, Resolve # {}, "checking", CHOOSE p \in Resolve : TRUE)

\* wasm_path.is_file()
CheckModule(c) ==
  /\ step[c] = "checking"
  /\ Proceed(c, assets[dir[c]] \in {"broken", "complete"}, "loading", dir[c])

\* Module::from_file
LoadModule(c) ==
  /\ step[c] = "loading"
  /\ Proceed(c, assets[dir[c]] = "complete", "found", Unset)

\* Something else fails: an engine, a thread, a limit of 0.
Hinder(c) ==
  /\ step' = [step EXCEPT ![c] = "failed"]
  /\ hindered' = [hindered EXCEPT ![c] = TRUE]
  /\ dir' = [dir EXCEPT ![c] = Unset]
  /\ UNCHANGED <<assets, override>>

\* The answer is taken: the thread may call again.
Answered(c) ==
  /\ step[c] \in {"found", "failed"}
  /\ step' = [step EXCEPT ![c] = "idle"]
  /\ hindered' = [hindered EXCEPT ![c] = FALSE]
  /\ UNCHANGED <<assets, override, dir>>

\* prepare_cpython_wasi_assets.py, or somebody else, at a place: a directory
\* is made before it is filled.
PlaceChanges(p) ==
  /\ assets' \in {[assets EXCEPT ![p] = s] :
                   s \in IF assets[p] = "absent" THEN {"bare"} ELSE States \ {assets[p]}}
  /\ UNCHANGED <<override, step, dir>>
  /\ hindered' = [c \in Seekers |->
       \/ hindered[c]
       \/ step[c] \in Searching /\ (~Usable' \/ assets[p] = "complete")]

AssetsInit ==
  /\ assets \in [Places -> States]
  /\ override \in Overrides
  /\ step = [c \in Seekers |-> "idle"]
  /\ dir = [c \in Seekers |-> Unset]
  /\ hindered = [c \in Seekers |-> FALSE]

AssetsOK ==
  /\ assets \in [Places -> States]
  /\ override \in Overrides
  /\ step \in [Seekers -> Searching \cup {"idle", "found", "failed"}]
  /\ dir \in [Seekers -> Places \cup {Unset}]
  /\ hindered \in [Seekers -> BOOLEAN]
  /\ \A c \in Seekers : step[c] \in {"checking", "loading"} => dir[c] \in Places

(* An error is current: whoever is told that the runtime is missing made its  *)
(* call, or was waiting for the answer, when the runtime was incomplete or a  *)
(* complete one was taken away.  A failure is not remembered for later calls  *)
(* (runtime.rs:54), and a directory that appears in front of the one already  *)
(* resolved does no harm (runtime.rs:187).                                    *)
ErrorsAreCurrent == \A c \in Seekers : step[c] = "failed" => hindered[c]
=============================================================================
