# Formal models of EnterSandBox

This directory holds TLA+ models of the parts of EnterSandBox (`agentbox-core`
and its scripts) whose correctness depends on the order in which things happen,
on what fails, and on what earlier steps left behind. Every module names the
file it models; a definition carries the name of the function, field or type it
stands for wherever TLA+ allows. `PROJECT.json` maps each definition to lines.

    tlc -config VmPoolCore.cfg MCVmPool.tla     # model-check one configuration
    tlapm VmPoolProofs.tla                      # check the proofs of one module

## 1. The system

| Component | Source | State | Operations | Talks to |
|---|---|---|---|---|
| VM pool | `agentbox-core/src/vm_pool.rs` | map of VMs with state, timestamps and tags, `last_observed_at`, `warm_surplus_since`, metrics | `refill`, `acquire`, `release`, `reap` | a `VmProvider` (create, prepare, healthcheck, scrub, destroy) and callers that hold `VmLease`s |
| Snapshot-aware provider | `agentbox-core/src/snapshot.rs` | `quarantined_snapshot_ids` | `create_vm`, `destroy_vm`, three that are passed on | a `SnapshotControlPlane`; it is itself a `VmProvider` |
| Runtime and epoch ticker | `agentbox-core/src/runtime.rs` | one engine and module per process in a `OnceCell`; active execution count behind a mutex and condvar, the engine's epoch, one deadline per store | `WasmRuntime::new`, `resolve_cpython_runtime_dir`, `begin_execution` / guard drop, `arm_epoch_timeout`, the ticker thread | all sandbox runs of the process, Wasmtime, the directories the assets are in |
| Sandbox run | `agentbox-core/src/lib.rs` | one `WasmSession` per run: temporary directory, output pipes, limits | `execute_sandbox_run` | import policy, runtime, `VirtualFS` |
| VirtualFS | `agentbox-core/src/vfs.rs` | a flat map from normalised path to contents | `write_file`, `remove_file`, `entries`, `replace_entries`, readers | callers and runs that share it (`Arc`) |
| Import policy | `agentbox-core/src/import_policy.rs` | none; a lexical scanner | `enforce_allowed_modules` | sandbox run |
| CPython reproduction | `agentbox-core/src/cpython_wasi_repro.rs` | an engine per call and a detached timer thread | `run_with_options` | the same directories, Wasmtime |
| Rootfs preparation | `scripts/prepare_firecracker_rootfs.py` | archive, extracted directory, image and its record, all on disk | `prepare_rootfs` under three flags | network, mkfs, its own earlier runs |
| CPython assets | `scripts/prepare_cpython_wasi_assets.py` | archive and directory on disk | `prepare_assets` | network |
| The rest | testbench, benchmark gate, packaging, benchmarks, Python package | none that outlives a call | | |

What is hard about it, and what makes each part correct:

* **Pool.** Every operation first brings the pool to the present (stale VMs
  go, ready ones are promoted, surplus is evicted) and every provider call in
  between can fail and leave the operation half done. `acquire` moves time
  forward by itself while it waits. Correct means: a lease in somebody's hands
  names a VM that is leased to nobody else, nothing is Leased that nobody
  holds, the host never has more VMs than the cap, promotion never beats a
  timeout, scale-in waits out its period, the warm floor comes back, and every
  call returns.
* **Provider.** The catalog changes between the calls of one `create_vm`, and
  each of the calls can fail. Correct means: a broken snapshot costs one
  failed restore, tags say what a VM was really started from, and the pool
  sees either one new VM or an error and none.
* **Ticker.** One thread serves all runs and sleeps when there are none: lost
  wakeups, stale ticks and counts that drift. Correct means: a run with a
  timeout ends, not early, and the thread comes to rest.
* **Shared runtime.** Threads race to make it, an attempt can fail half way with
  its ticker already running, and the assets come and go meanwhile. Correct
  means: all runtimes are one with one ticker, and an error is about the present.
* **Reproduction runs.** Nobody joins the timer threads, so they fire into later
  calls. Correct means: no call is timed out by another one's timer, and every
  timeout ends its call, 0 included.
* **Import policy.** It reads Python without a parser. Correct means: it refuses
  exactly the imports Python would execute and the allow list does not cover.
* **Run and VirtualFS.** The whole map is replaced at the end of a run, runs
  may overlap, and there are several ways to fail after the guest is done.
  Correct means: failures change nothing, a success changes what the guest
  changed, the run's own files stay out, the map can always be loaded again,
  truncated output is never passed off as complete.
* **Preparation scripts.** They decide what to do from what is on disk, and
  what is on disk was left by runs with other flags, of other releases, or
  killed half way. Correct means: ok stands for verified files, `--force`
  heals, `--check-only` agrees with the run before it, and no leftovers make
  every further run fail.

The full list, line by line, is under `hazards` in `PROJECT.json`.

## 2. The modules

| Module | What it is |
|---|---|
| `VmLifecycle` | Abstract: what a pool promises about each VM and its lease (boot, ready, lease, hand over, give back, drain, discard). |
| `VmPool` | The pool, one action per internal function between two provider calls. Implements `VmLifecycle`. |
| `VmPoolProofs` | Theorems about `VmPool`. |
| `VmPoolOrderProofs` | Those that rest on the order of the internal functions. |
| `VmProvider` | Abstract: what the pool relies on when it calls `create_vm` and `destroy_vm`, the truth of the tags included. |
| `SnapshotProvider` | `SnapshotAwareProvider`, one action per call to the control plane. Implements `VmProvider`. |
| `SnapshotPool` | `VmPool` over `SnapshotProvider`, one host. Implements both. |
| `SnapshotPoolProofs` | Theorems about the provider, the refinement among them, and those that carry the results about the two parts over to the whole. |
| `Watchdog` | Abstract: what a timeout promises, whoever keeps it. |
| `EpochTicker` | The ticker thread, the execution guards and the deadlines of any number of runs. Implements `Watchdog` with a grace of 1 ms. |
| `EpochTickerProofs` | Theorems about it. |
| `RuntimeAssets` | Search for `python.wasm` in directories that change. |
| `SharedRuntime` | `WasmRuntime::new` in many threads: cell, engine, ticker. |
| `ReproRun` | `run_with_options` in many threads, its engines and timers. Implements `Watchdog` without grace. |
| `PythonRuntime` | The two together in one process, over the same directories. |
| `PythonRuntimeProofs` | Theorems about it: all of its safety properties. |
| `SandboxRun` | Runs over a shared `VirtualFS`, and callers that write to it meanwhile. |
| `SandboxRunProofs` | Theorems about it: all of its properties. |
| `ImportPolicy` | The scanner of the import policy, as functions. |
| `PythonImports` | The reference: logical lines, tokens and import statements of Python. |
| `ImportPolicyProofs` | Theorems: scanner and reference agree on every program. |
| `RootfsPrepare` | `prepare_rootfs` run again and again over one disk. |
| `RootfsPrepareProofs` | Theorems about it. |
| `MC*` | Constants for TLC, and in `MCImportPolicy` the programs to compare on. |

### VmPool

A public method is a sequence of internal functions. `op` is the call in
progress (its arguments, its cursor in time, its result so far) and `agenda` the
functions it has yet to run; a step takes the first one off, does what one
iteration of it does, and puts back what follows. `AdvanceTo` is the agenda of
`advance_to`: `ObserveTime` or `RejectPast`, then `DiscardStale` until
`NoneStale`, `PromoteHealthy` and `DiscardUnhealthy` until `NoneReady`, and
`UpdateWarmSurplusMarker`. `StartBackgroundCreations` appends one
`StartCreation` per VM it wants. Each iteration is a step of its own because it
makes a provider call that may fail and leave the method with `?` (`Fail`),
keeping whatever was changed before. `AcquireHit`, `AcquireMiss`,
`AcquireWaited`, `AcquireSkipAhead`, `AcquireRetry` and `AcquireTimedOut` are the
branches of `acquire`, `Release*` those of `release`, and `ScaleInIfNeeded`,
`EvictSurplus` and `SurplusEvicted` the loop of `reap`.

The constant `Faults` names what may go wrong: four provider methods, a clock
that goes backwards (`clock`), a caller that releases a clone of a lease
(`clone`). `checked_add` fails beyond `MaxInstant`. Three of the seven metrics are
kept, those that balance against each other; they saturate at `MaxCount`, which
is 0 (no counting) in the runs that do not ask about them. Time is cut off at
`MaxTime`.

The pool takes `&mut self`, so calls do not interleave; what varies is the order
of the calls, the times they are made at, who holds which lease, and where the
provider fails.

### SnapshotProvider

`create_vm` is at one of four calls (`step`): query of the catalog, restore,
report of the failure, cold boot. The catalog may change between any two of
them. `origin` is what the control plane really started a VM from, `tags` what
`CreatedVm` says; `VmProvider`, which the provider implements, lets the two only
change together.

### SnapshotPool

`VmPool` lets `create_vm` succeed or fail in one step. Here the call goes through
the provider's own steps inside `start_creation`: the pool asks (`Ask`), the
provider works (`Provide`) while the catalog may change (`Publish`), and its
answer is what the pool goes on with (`Answer`). Everything else the pool does is
`PoolMoves`, which destroys VMs through the provider. Health checks and scrubs,
which the provider passes on unchanged, are left to work in this module;
`pool_core` has them fail. The module extends `VmPool` and has the provider as an
instance, so the pool's properties are those of `VmPool` itself.

### EpochTicker

The ticker thread is checking the count, waiting on the condition variable or
sleeping; a run is idle, armed (its deadline set), running or returned, and is
counted from `BeginExecution` to `DropGuard`. Spurious wakeups are modelled. Time
passes in whole milliseconds, which is the unit of `timeout_ms` and the tick
interval of the code, so that rounding up to ticks changes nothing but 0.
A deadline is kept as the number of ticks left until it. Wasmtime's part, that a
guest whose deadline has come traps at its next check, is `GuestInterrupted`.

`Watchdog` is what both users of timeouts promise: a run reported as timed out
had a timeout, and that time less `Grace` had passed since it was armed. The
ticker needs a grace of one millisecond, as the first tick may be one that was
already under way; a timer thread of its own (`ReproRun`) needs none.

### RuntimeAssets, SharedRuntime, ReproRun, PythonRuntime

`RuntimeAssets` is the search every caller makes: the directory is resolved,
then looked into for `python.wasm`, then the file is loaded, three steps between
which `PlaceChanges` may prepare or remove the assets. The resolution itself is
one step, and the environment variable is fixed for the life of the process. The
ghost `hindered` remembers, for each call, that the runtime was incomplete or was
taken away while the call was under way or waiting; `ErrorsAreCurrent` says no
call fails otherwise.

`SharedRuntime` is `WasmRuntime::new`: `SpawnTicker` is the start of
`init_shared_runtime_state` (engine and ticker thread come before anything is
known of the file), `Locate` the rest of it, `TakeShared` a caller that finds the
cell full. A failed attempt leaves the cell empty and its ticker running, with a
counter and an engine that nobody else uses.

`ReproRun` is `run_with_options`: an engine per call, `ArmTimeoutDeadline` with
its detached thread, `TimerFires` whenever that sleep is over, `GuestEnds`,
`ReproInterrupted` and the errors in between. The code decides that a trap is a
timeout by its text (`is_epoch_timeout`); here the guest's end says what it was.

`PythonRuntime` composes them. A thread makes one call at a time, but may use
both kinds in turn. Threads that only wait for the cell are not served in any
order, and the fairness of `once_cell` is not claimed.

### ImportPolicy and PythonImports

A program is a sequence of symbols: characters, and words, which matter only as
a whole. `ImportPolicy` translates the scanner (`split_statements` with its string
and comment states, `parse_import_clause`, `parse_from_import_clause`,
`extract_module_name`, `enforce_allowed_modules`); `PythonImports` is written from
the Python language: logical lines, brackets, strings, tokens, and the grammar
of import statements. The two are compared on every program (`Valid`) of up to
five pieces of text. What the scanner does not undertake to see is left out of
the programs: continuation lines, imports after a colon; what it reads
differently is left out of `PolicyExact` by `Plain`: a comma in the comment behind
an import (the finding `import_comment`) and a backslash in a triple-quoted
string. A policy of `None` accepts everything and is left out. Both are functions
on positions, `StateBefore` and `StateAfter`, and choices whose conditions overlap are
written with `IF`, since the arms of a `CASE` have no order; that is what
makes them fit for proofs.

### SandboxRun

`NewSession` copies the VirtualFS into the run's directory, the guest changes
files and prints, and `Conclude` is everything after the guest's end: verdict,
collection of the directory, `replace_entries`. It is one step because the
directory and the pipes are the run's own and `replace_entries` takes the lock
once. A set of paths and the relation `Ancestor` stand for the names; the
two pipes, which have one limit, are one.

A guest that writes exactly `max_output_bytes` is answered as if it had exceeded
them (`>=` in `output_limit_exceeded`): the pipe cannot tell, and the model has
it as the code does.

### RootfsPrepare

Each action is a stretch of `prepare_rootfs` between two effects on disk, so
that `Interrupt` (a kill, or an `OSError` such as a full disk) can fall between
any two and in the middle of one: half a download, half a directory, an image
without a file system, half a record. An archive is missing, damaged or genuine
for a release; a directory is whole, has at least the expected files, or less;
an image is missing, blank or made of a directory. The record has three ways of
being wrong: it does not fit the run or is no record at all (`Garbage`), both
answered by making it anew, or it cannot be decoded (`Undecodable`: bytes that
are not UTF-8), an error that nobody catches before `main` and that ends every
run, `--force` included. `ErrorsHaveCause` names the last as its only
exception; no run and no kill leaves such a record, since `json.dumps` writes
ASCII. `DiskChanges` is what people do between runs, moving the manifest to
another release included; files stay files and directories stay directories.
The manifest is assumed to fit its archive, and two runs at once are left out.

A run repeats itself in three ways: attempts of a download, one more download
after a mismatch, one more extraction after files that are not the expected ones.
`StepsLeft` is the measure that says it cannot do so for ever: the stages still
ahead, times the attempts each may take, less those of the present stage.

## 3. The runs

| Run | Configuration | What it shows |
|---|---|---|
| `pool_core` | health checks and scrubs may fail; cap 3, four VM ids, 5 instants | Leases are good and none is lost, the host stays within its cap, no VM is promoted after its timeout, scale-in waits, and `VmLifecycle` is implemented. |
| `pool_faults` | every provider method fails, the clock goes back, instants overflow, clones are released; cap 2 | The pool's own accounting holds: balance of metrics, settled after Ok. A lease or a VM at the provider is lost only in the step that makes its call an error, one at most per call. |
| `pool_orphan` | `create_vm` fails | **Violation**: the lease is lost when the refill inside `acquire` fails. |
| `pool_leak` | `destroy_vm` fails | **Violation**: the host exceeds its cap. |
| `snapshot_pool` | pool of two VMs over a provider with two snapshots; every call of the provider but `destroy_vm` may fail | A snapshot fails once, failed restores and reports never reach the pool's callers, `VmProvider` is implemented, the warm floor comes back, `TimedOut` only when nothing could have served the call, every call returns. |
| `ticker` | two runs, timeouts none, 0, 1 and 3 ms | No lost wakeup, `Watchdog` is implemented, every timeout fires. |
| `process` | a thread that opens sandboxes and one that also makes reproduction runs, two places for the assets | Errors are current, one runtime with one ticker, `Watchdog` is implemented, every timeout fires. |
| `sandbox_run` | two runs, one caller, a directory with a file in it, one internal path | See `SandboxRun` above. |
| `import_policy` | all programs of up to five pieces, three allow lists | The policy is exact. |
| `import_comment` | the same programs, comments with commas included | **Violation**: a word in a comment is taken for a module. |
| `rootfs` | two releases, two download attempts, all flags, all interruptions | Ok means pinned, `--force` heals, `--check-only` agrees, errors have a cause outside the disk unless the record cannot be decoded, every run ends. |
| `rootfs_blank` | the same without interruptions | **Violation**: zeros are recorded as a built image. |

**Bounds, and why they suffice.** Pool: the number of VM ids exceeds the cap
by one, so that an id can be given out while others are leaked or in transit; a
cap of two or three puts the cap, the maximum of warm instances and the
scale-in threshold within reach of each other; `MaxTime` is long enough for a
VM to be created, become stale or be leased, and for a surplus to last its
period and end before it. VM ids are interchangeable (the map's order only
breaks ties, which the model leaves open), and so are the runs of
`sandbox_run`: both are symmetry sets, and no run with symmetry checks liveness.
Provider: two snapshots let the catalog flip between a
quarantined one and another, two VMs let a failing creation meet a pool that is
not empty, and three instants are a wait and what comes after it. Ticker: two
runs are what one run needs
to interfere with another; 3 ms outlast a tick that was already under way, and
`MaxAge` stops the ages once they no longer matter. Process: two threads race
for the cell, two places put one in front of the other, `MaxEngines` and
`MaxRepros` of 2 are a failed attempt and the next one, and a timer that is left
over and a call it must not reach. Sandbox run: a directory
and a file in it conflict, a third path is the callers', a fourth is internal;
the guest writes less than, exactly and more than the limit of one byte, and a
limit of 0 is refused. Import policy: five pieces open a string, a comment or a
bracket, put an import into it, close it and go on. Rootfs: two releases let
everything on disk be of
another release than the manifest, two attempts reach both sides of the limit.
All state spaces are finite and searched completely.

**Fairness.** Pool over its provider (`FairSystem`): weak fairness of the
provider's work and of the pool while a call is under way, since a
method is synchronous code that runs to its end and its caller then gets the
answer; none on the start of calls, time or the catalog. Ticker (`FairSpec`):
weak fairness of the ticker
thread, of the passage of time, of `GuestInterrupted` (Wasmtime checks the
deadline at every function entry and loop back-edge) and of `DropGuard` (a
destructor); none on `GuestFinishes`, since guests may loop for ever. Process
(`FairSpec`): the same of time, of the timer threads and of `ReproInterrupted`; none
on the threads that search and initialise. The
other modules state safety only.

**Deadlock.** TLC's deadlock check is on in every run but the two of the import
policy, whose programs have a largest length.

## 4. What is proved

Each theorem holds for every value of the constants under the named
assumptions of the component's module.

* `VmPoolProofs`: `TypeCorrect`; `PoolBounded` under every fault;
  `HandlesAlwaysValid` and `ImplementsLifecycle` as long as callers release
  each lease once (`"clone" \notin Faults`); `HostBounded` if `destroy_vm` works
  and no instant overflows (`InstantsFit`). `HandlesValid` is not inductive,
  because a method is cut into steps: `LeaseInv` adds that the VM a call works
  on is in nobody's hands, and that the VM `acquire` is about to return stays
  Leased while the rest of `acquire` runs, which consists of inner steps only.
  `HostInv` says the host has exactly the VMs of the map; that the map stays
  within the cap (`PoolWithinCap`) is a fact about cardinalities, proved once per
  kind of change and not checked by any run.
* `VmPoolOrderProofs` rests on the order of the agenda. `Follows` gives, for each
  internal function, what may come right after it; `Linked` says every agenda is
  such a chain, whatever is pushed onto it (`Chain`, `AgendaStep`), and
  `OwnAgenda` that it holds only functions of the method being run. `OrderInv`
  adds what that buys: when a function is next, the ones before it have done
  their work (`SettledFor`) - the time is observed, nothing is overdue, nothing
  ready is left, the surplus marker is right. From it follow, under every fault,
  `NeverLateWarm` and `AlwaysSettled` (a call that returns Ok leaves nothing
  undone), and these:
  - `ScaleInAlwaysSustained`, if `destroy_vm` works: `SurplusInv` says that while
    the marker is set there have been too many warm VMs ever since, or the
    evictions that refresh it are under way.
  - `MetricsAlwaysConserve`, under every fault: a step leaves the pool's set of
    VMs and the counters alone, or adds one VM and counts it, or takes one out
    and counts it (`CountStep`), because a release on the agenda is one of a VM
    (`ReleaseInv`).
  - `LeasesNeverOrphaned`, if creation and destruction work, clocks do not run
    backwards, leases are given back once, instants fit and there are more ids
    than the cap: `OrphanInv` says every Leased VM is in a caller's hands or is
    the one the call works on. The assumptions are what it takes for no `?` to
    leave a call in between (`NothingFails`); health checks and scrubs may fail.
    `NeverPast` (the cursor of a call is never behind the last observation)
    excludes the error of `advance_to`.
  - `FloorAlwaysRestored`, if VMs that are ready are healthy and `CreateTimeout`
    is not 0: `FloorInv` counts, with `Enough(n)`, the creations the agenda still
    holds; each of them adds a VM or a limit stands in its way, and the
    refreshing that follows loses none of those that count.
  - `TimedOutAlwaysBusy`, if besides `MaxWarm` is not 0: `WaitInv` says that
    whenever `acquire` goes on to wait without looking once more, a VM is on the
    way or about to be started, the host is full, or the deadline has come.
  - `CallsRunDown`, under every fault: `WorkLeft` is six natural numbers (the time
    `acquire` may still let pass, the agenda's entries of three kinds, its length,
    the VMs the loops may take up), and every step of a call makes them smaller
    lexicographically (`StepLessens`). A round of `acquire` moves the cursor
    strictly forward, because no VM that is ready is left when it looks for the
    next one (`SkipMovesAhead`). This is the part of `CallReturns` that is not
    about fairness.
  - `LeasesLostOnlyOnError` and `VmsLeakedOnlyOnError`, under every fault, clones and
    clocks that run backwards included: what the findings `pool_orphan` and
    `pool_leak` cost. An orphan (`Orphans`: Leased, with no lease and no call
    at work on it) or a leak (`Leaked`: on the host and not in the map) comes into
    being only in a step that turns the call's result into an error. `EndInv`
    says that an error ends the call at once, so there is one of them per
    call at most, and that after a hit only functions run that leave Leased VMs
    alone. `release` itself orphans its VM only if an Instant overflows.
  - `LostForGood`, under every fault: an orphan stays one through every later step
    of every call, so the slot of the host that `pool_orphan` costs never comes
    back while the pool lives.

  The assumptions of `FloorAlwaysRestored` and `TimedOutAlwaysBusy` are needed: with
  `health` among the faults, with a `CreateTimeout` of 0, and for the second with a
  `MaxWarm` of 0, TLC finds a counterexample in a small pool. The defaults of the code (30 s and 8) satisfy
  them, but nothing in it rejects a configuration that does not.
* `SnapshotPoolProofs` begins with the provider on its own, as the instance
  `Aware`: `ProviderTypeCorrect`, `QuarantineHolds`, `TagsAlwaysTruthful`,
  `ImplementsProvider`. `Quarantined` strengthens `FailsOnce` by where a failed
  snapshot is and which one is being restored; the refinement maps every internal
  step to a stutter and the last one to one step of `VmProvider`.
  The whole implements the pool (`ImplementsPool`) and runs
  the provider as its own specification allows (`SystemRunsProvider`), so that the
  theorems of both hold of it: `QuarantineServesPool`, `PoolIsServed`,
  `ServedFloorRestored`, `ServedTimedOutBusy`, under the assumptions of their
  originals. Pool and provider take turns (`TakesTurns`, part of
  `SystemAlwaysOK`). `RestoresAlwaysSurvived` needs both parts: a creation that
  fails is an error of the catalog or of a cold boot (`ErrorsOfCreateVm`), and
  apart from creations only the release of a VM that is not leased makes a call
  fail (`OnlyTheseFail`), if clocks do not run backwards and instants fit.
  `SystemRunsDown` extends `CallsRunDown` by the calls that `create_vm` may still
  make (`CallsLeft`).
* `EpochTickerProofs`: `TypeCorrect`, `NoLostWakeup`, `NeverEarly`,
  `ImplementsWatchdog`. The count is
  a natural number only because it is the number of guards, so type
  correctness and `TickerAwake` are proved together (`Counted`). The last two
  need `Ticking`: the ticks a run has seen exceed its age by at most one, and
  not at all while the next tick is due.
* `PythonRuntimeProofs`: `TypeCorrect`, `ErrorsAlwaysCurrent`,
  `RuntimeAlwaysShared`, `ReproImplementsWatchdog`, for any number of threads,
  places, engines and timers. `AssetsInv` says what each stage of a search knows
  of its directory unless it is hindered; `SharedInv` that every engine
  has one ticker and every runtime, but that of an attempt still under way, is the
  cell's; `ReproInv` that no two calls share an engine, and that the timer of a
  call's engine has no less left than the call's timeout minus its age.
* `SandboxRunProofs`: every property of `SandboxRun`, for any number of runs, and
  `InternalAlwaysOut`, which no run checks.
  `Faithful` links a run to the VirtualFS (no answer before the end; the files
  are those it copied until it succeeds or somebody else writes; Ok only for
  output that did not fill the pipe) and gives `FailureLeavesFiles`,
  `OkMeansComplete` and, as an action property, `OnlyGuestChanges`.
  `AlwaysMaterializable` is not inductive, since what a run brings back was in
  its directory: `UserTreesFit` says that the directories fit as well.
* `RootfsPrepareProofs`: `TypeCorrect`, `OkAlwaysPinned`, `ForceHeals`,
  `ChecksAgree`, `ErrorsAlwaysHaveCause`. `Trusted` says what has been verified
  by which point of a run; `Forced` that a forced run works only on what it
  made itself; `Kept` that what was promised to the next check is still there,
  because only checks have run since and checks reach no step that writes.
  `ErrorsAlwaysHaveCause` leaves out one state of the disk, a record that cannot
  be decoded, where the code does fail (section 5).
  `RunsAlwaysEnd`: every step of a run makes `StepsLeft` smaller, so that a run has
  at most 13 * (`MaxAttempts` + 1) steps, whatever is downloaded. `NextStage` says
  where each step leads, `StageLess` that attempts never outweigh a stage.
* `ImportPolicyProofs`: `PolicyAlwaysExact`, the invariant of the run for programs of
  any number of pieces, and `EveryProgramChecked`, which needs no run: for any set of
  symbols, every valid plain program over it and every allow list, the
  scanner collects exactly the modules Python imports, and refuses exactly those with no
  package on the list. Functions on positions take an induction over numbers,
  which `Induction` gives as a fact about sets of naturals. The argument:
  1. Scanner and reader go through the program side by side and agree on what is
     string, comment and code (`Agree`, case by case; `Synchronised`).
  2. So the scanner cuts where the reader ends a line or has a separator inside
     brackets (`CutsAreEnds`): a piece begins where a line does, or within brackets.
  3. A piece and its line have a head in common, up to the first string or comment
     or opening bracket (`PieceOfLine`). Every token of the line before a string or
     bracket is found in the piece at its place (`TokenInPiece`), with nothing but
     spaces between two of them (`TokenGaps`).
  4. With the tokens, what the scanner makes of the piece is what the grammar makes of
     the line: for `import` clause by clause, for `from` the second
     token, nothing for relative imports and other statements (`StatementImports`).
  5. A piece that begins within brackets holds no import: if it began with a keyword,
     the line would have one behind a bracket (`PieceInBrackets`), which no statement
     has (`BracketsHideKeywords`).
  6. A module is on the normalised allow list, or behind an entry and a dot, exactly
     if one of its packages is an entry without its outer spaces (`AllowedByPackage`).

Only model-checked: liveness (`CallReturns`, `TimeoutFires`, `ReproTimeoutFires`),
since the prover has no way to reason about fairness; `SystemRunsDown` proves the
part of `CallReturns` that needs none. Every invariant and every action
property of a passing run is a theorem, and so are the refinements.

## 5. Where code and documents disagree

Each of these has a run that finds it:

1. `vm_pool.rs:215`: `acquire` loses the lease when its refill fails (`pool_orphan`). The slot is
   gone for good (`LostForGood`); how often it can happen is bounded by the errors
   callers see (`LeasesLostOnlyOnError`).
2. `vm_pool.rs:552`: a VM whose destruction failed is forgotten and replaced (`pool_leak`),
   one per error at most (`VmsLeakedOnlyOnError`).
3. `import_policy.rs:198`: a comma in a comment behind an import makes modules of the words after it (`import_comment`).
4. `prepare_firecracker_rootfs.py:280`: a run without mkfs leaves a blank image that later runs call built (`rootfs_blank`).

These are visible in the models and have no run of their own:

* `vm_pool.rs:468`: an error in the scale-in loop leaves a stale surplus marker,
  and a later `reap` scales in without a sustained surplus. `ScaleInSustained`
  fails in `pool_core` once `destroy` is added to `Faults`.
* `vm_pool.rs:224`: `acquire` gives up long before its deadline if the VM it
  started itself is ready at once and unhealthy. `TimedOutMeansBusy` fails with
  `health` in `Faults`.
* `runtime.rs:89`: a run without `timeout_ms` has no limit at all, against
  `docs/PROMPT.md:23`.
* `prepare_firecracker_rootfs.py:335`: a `rootfs-image.json` with bytes that are not
  UTF-8 makes every run fail, `--force` included, until somebody removes it; any
  other damage to it is repaired ("existing metadata mismatch ... (refreshing)",
  line 493). `ErrorsHaveCause` without its exception fails in `rootfs`.
* `runtime.rs:296`: exactly `max_output_bytes` bytes of output count as more.

## 6. What is not modelled

* `prepare_cpython_wasi_assets.py`: only its effect on the directory
  (`PlaceChanges`). Its steps are those of `prepare_firecracker_rootfs.py` up to
  the verification of the expected files, which `RootfsPrepare` models with all
  flags and interruptions.
* Engine configuration, memory limits and the WASI context in `runtime.rs` and
  `cpython_wasi_repro.rs`: decided once, inside Wasmtime. `context_diff_report`
  and the texts of failures are wording.
* The bindings of `lib.rs` to Python, the testbench, the benchmark gate,
  packaging, the benchmarks, the Python package: sequential code without state
  that outlives a call.
* Of the pool's seven metrics the four that no balance is about (`recycled`,
  `warm_hit`, `cold_miss` and `acquire_wait_ms`); of `VmLease` and
  `CreatedVm` the fields nobody decides by.
* Firecracker itself and the control plane: external, modelled by what their
  traits let the code assume, which is that any call may fail.

## 7. The plan

Done: pool with its abstraction and proofs; provider with its contract and
proofs; the pool over the provider with proofs; ticker, shared runtime and
reproduction runs with their common abstraction and proofs; sandbox run with
proofs; import policy against its reference, with proofs; rootfs preparation
with proofs, its termination included.

What could follow:

1. A measure like `StepsLeft` for the search of `RuntimeAssets`; it has no loop that
   could go on, so it is last in line.
2. The verdict of `ImportPolicy` in place of the nondeterministic `Refused` of
   `SandboxRun`, should a property come to depend on it.
3. Two `prepare_rootfs` at once over one directory: the script takes no lock and its
   documents do not say what to expect.
