---------------------------- MODULE SandboxRun ----------------------------
(***************************************************************************)
(* Runs of Python code over a VirtualFS: execute_sandbox_run of            *)
(* src/agentbox-core/src/lib.rs, WasmSession of runtime.rs and VirtualFS   *)
(* of vfs.rs.                                                              *)
(*                                                                         *)
(* A run copies the VirtualFS to a temporary directory, lets the guest     *)
(* work there, and on success replaces the whole VirtualFS by what it      *)
(* finds in the directory.  Several runs may share one VirtualFS (it is an *)
(* Arc), and callers may write to it directly while runs are in progress.  *)
(*                                                                         *)
(* When a deadline interrupts the guest is the subject of EpochTicker;     *)
(* here an interruption is one of the ways a guest ends.  The two output   *)
(* pipes, which have the same limit, are one.                              *)
(***************************************************************************)
EXTENDS Integers, FiniteSets

CONSTANTS
  Runs,        \* threads that call execute_sandbox_run, one call at a time
  Paths,       \* normalised paths
  InternalPaths,   \* those is_internal_path accepts
  Ancestor,    \* pairs <<p, q>> of paths where p names a directory q lies in
  Contents,    \* file contents
  NoFile,      \* "no such file"
  HostPaths,   \* paths that callers write or remove through VirtualFS itself
  Limits,      \* max_output_bytes values
  MaxWanted    \* bound: bytes a guest tries to write

ASSUME PathsAssumption == /\ InternalPaths \subseteq Paths
                          /\ HostPaths \subseteq Paths
                          /\ Ancestor \subseteq Paths \X Paths
ASSUME ContentsAssumption == NoFile \notin Contents /\ Contents # {}
ASSUME LimitsAssumption == Limits \subseteq Nat /\ MaxWanted \in Nat

VARIABLES
  files,     \* VirtualFS.files
  phase,     \* how far each run is
  dir,       \* the run's sandbox_root
  limit,     \* its output_limit_bytes
  result,    \* what execute_sandbox_run answered
  \* What the outside world sees; the code cannot read it.
  wanted,    \* bytes the guest tried to write to its output
  loaded,    \* the VirtualFS as the run copied it
  raced      \* somebody else changed the VirtualFS since

vars == <<files, phase, dir, limit, result, wanted, loaded, raced>>

Phases == {"idle", "loaded", "running", "done"}
Endings == {"exit", "trap", "interrupt"}
Results == {"none", "ok", "failed", "output_exceeded", "timed_out"}
FileMaps == [Paths -> Contents \cup {NoFile}]
Empty == [p \in Paths |-> NoFile]

Present(fs) == {p \in Paths : fs[p] # NoFile}

\* No path of S is a directory on the way to another one.
Compatible(S) == \A p, q \in S : <<p, q>> \notin Ancestor

\* materialize_virtual_fs succeeds: all files fit into one directory tree.
Materializable(fs) == Compatible(Present(fs) \ InternalPaths)

\* The user's files and the run's own: code.py and bootstrap.py.
Materialized(fs, own) == [p \in Paths |-> IF p \in InternalPaths THEN own[p] ELSE fs[p]]
OwnFiles == {own \in FileMaps : Present(own) = InternalPaths}

\* Mutant of Collected: the run's own files come back too.
CollectedWithInternal(d) == d

\* collect_files_in_dir and the retain of sync_back_to_vfs
Collected(d) == [p \in Paths |-> IF p \in InternalPaths THEN NoFile ELSE d[p]]

\* Mutant of ReplaceEntries: entries are inserted into the old map.
ReplaceByMerging(entries) ==
  files' = [p \in Paths |-> IF entries[p] = NoFile THEN files[p] ELSE entries[p]]

\* replace_entries: files that are not in the entries are gone.
ReplaceEntries(entries) == files' = entries

\* The pipe takes what fits.
Written(r) == IF wanted[r] < limit[r] THEN wanted[r] ELSE limit[r]

\* Mutant of OutputLimitExceeded: a full pipe is no reason to complain.
OutputBeyondLimit(r) == Written(r) > limit[r]
OutputLimitExceeded(r) == Written(r) >= limit[r]

\* The VirtualFS changes while the runs outside S are in progress.
RacedBy(S) == raced' = [r \in Runs |-> raced[r] \/ (r \notin S /\ phase[r] # "idle")]

Answer(r, answer) == /\ phase' = [phase EXCEPT ![r] = "done"]
                     /\ result' = [result EXCEPT ![r] = answer]

----------------------------------------------------------------------------
(* Callers *)

\* The code breaks the import policy, or memory_limit_mb does not fit in bytes.
Refused(r) ==
  /\ phase[r] = "idle"
  /\ Answer(r, "failed")
  /\ loaded' = [loaded EXCEPT ![r] = files]
  /\ UNCHANGED <<files, dir, limit, wanted, raced>>

\* WasmSession::new: the copy comes first, then the check of the limit.
NewSession(r) ==
  /\ phase[r] = "idle"
  /\ loaded' = [loaded EXCEPT ![r] = files]
  /\ \E n \in Limits, own \in OwnFiles :
       IF Materializable(files) /\ n > 0
       THEN /\ phase' = [phase EXCEPT ![r] = "loaded"]
            /\ dir' = [dir EXCEPT ![r] = Materialized(files, own)]
            /\ limit' = [limit EXCEPT ![r] = n]
            /\ UNCHANGED result
       ELSE Answer(r, "failed") /\ UNCHANGED <<dir, limit>>
  /\ UNCHANGED <<files, wanted, raced>>

\* The temporary directory goes with the session.
DropSession(r) == dir' = [dir EXCEPT ![r] = Empty]

LinkingFails(r) ==
  /\ phase[r] = "loaded"
  /\ Answer(r, "failed")
  /\ DropSession(r)
  /\ UNCHANGED <<files, limit, wanted, loaded, raced>>

CallStart(r) ==
  /\ phase[r] = "loaded"
  /\ phase' = [phase EXCEPT ![r] = "running"]
  /\ UNCHANGED <<files, dir, limit, result, wanted, loaded, raced>>

\* The caller has read the answer.
Return(r) ==
  /\ phase[r] = "done"
  /\ phase' = [phase EXCEPT ![r] = "idle"]
  /\ result' = [result EXCEPT ![r] = "none"]
  /\ limit' = [limit EXCEPT ![r] = 0]
  /\ wanted' = [wanted EXCEPT ![r] = 0]
  /\ loaded' = [loaded EXCEPT ![r] = Empty]
  /\ raced' = [raced EXCEPT ![r] = FALSE]
  /\ UNCHANGED <<files, dir>>

\* write_file of a file that is there or not, and remove_file
HostChangesFile(p, content) ==
  /\ files' = [files EXCEPT ![p] = content]
  /\ RacedBy({})
  /\ UNCHANGED <<phase, dir, limit, result, wanted, loaded>>

WriteFile(p) == \E content \in Contents : HostChangesFile(p, content)
RemoveFile(p) == files[p] # NoFile /\ HostChangesFile(p, NoFile)

----------------------------------------------------------------------------
(* The guest *)

\* A file system never holds a file below a file.
GuestChangesFile(r) ==
  /\ phase[r] = "running"
  /\ \E p \in Paths, content \in Contents \cup {NoFile} :
       dir' = [dir EXCEPT ![r][p] = content]
  /\ Compatible(Present(dir'[r]))
  /\ UNCHANGED <<files, phase, limit, result, wanted, loaded, raced>>

GuestPrints(r) ==
  /\ phase[r] = "running"
  /\ wanted[r] < MaxWanted
  /\ wanted' = [wanted EXCEPT ![r] = @ + 1]
  /\ UNCHANGED <<files, phase, dir, limit, result, loaded, raced>>

----------------------------------------------------------------------------
(* The end of a run *)

\* Mutant of Verdict: the error of a trap is passed on as it is.
VerdictUnclassified(r, ending) ==
  IF OutputLimitExceeded(r) THEN "output_exceeded" ELSE IF ending = "exit" THEN "ok" ELSE ending

\* What execute_sandbox_run makes of the end of start.call.
Verdict(r, ending) ==
  IF OutputLimitExceeded(r) THEN "output_exceeded"
  ELSE CASE ending = "exit" -> "ok"
         [] ending = "trap" -> "failed"
         [] ending = "interrupt" -> "timed_out"

SyncBackToVfs(r) == ReplaceEntries(Collected(dir[r])) /\ RacedBy({r})

\* Mutant of Conclude: the files are synchronised before the verdict.
ConcludeSyncFirst(r) ==
  /\ phase[r] = "running"
  /\ \E ending \in Endings : Answer(r, Verdict(r, ending))
  /\ SyncBackToVfs(r)
  /\ DropSession(r)
  /\ UNCHANGED <<limit, wanted, loaded>>

\* The directory and the pipes are the run's own, so all that happens between
\* the end of the guest and replace_entries is one step.
Conclude(r) ==
  /\ phase[r] = "running"
  /\ \E ending \in Endings :
       \/ /\ Answer(r, Verdict(r, ending))
          /\ IF Verdict(r, ending) = "ok" THEN SyncBackToVfs(r) ELSE UNCHANGED <<files, raced>>
       \/ /\ Verdict(r, ending) = "ok"            \* the directory cannot be read
          /\ Answer(r, "failed")
          /\ UNCHANGED <<files, raced>>
  /\ DropSession(r)
  /\ UNCHANGED <<limit, wanted, loaded>>

----------------------------------------------------------------------------
Init ==
  /\ files = Empty
  /\ phase = [r \in Runs |-> "idle"]
  /\ dir = [r \in Runs |-> Empty]
  /\ limit = [r \in Runs |-> 0]
  /\ result = [r \in Runs |-> "none"]
  /\ wanted = [r \in Runs |-> 0]
  /\ loaded = [r \in Runs |-> Empty]
  /\ raced = [r \in Runs |-> FALSE]

Host == \E p \in HostPaths : WriteFile(p) \/ RemoveFile(p)

Run(r) == \/ Refused(r) \/ NewSession(r) \/ LinkingFails(r) \/ CallStart(r)
          \/ GuestChangesFile(r) \/ GuestPrints(r) \/ Conclude(r) \/ Return(r)

Next == Host \/ \E r \in Runs : Run(r)

Spec == Init /\ [][Next]_vars

----------------------------------------------------------------------------
(* Properties *)

\* Type invariant.
TypeOK ==
  /\ files \in FileMaps
  /\ phase \in [Runs -> Phases]
  /\ dir \in [Runs -> FileMaps]
  /\ limit \in [Runs -> Nat]
  /\ result \in [Runs -> Results]
  /\ wanted \in [Runs -> 0..MaxWanted]
  /\ loaded \in [Runs -> FileMaps]
  /\ raced \in [Runs -> BOOLEAN]

(* The next run can start: if callers do not write paths that conflict with  *)
(* others, the VirtualFS can always be materialised again, whatever the      *)
(* guests created and deleted and whichever runs overlapped.                 *)
HostPathsApart == \A p \in HostPaths, q \in Paths : {<<p, q>>, <<q, p>>} \cap Ancestor = {}
AlwaysMaterializable == HostPathsApart => Materializable(files)

(* The run's own files stay its own: unless a caller writes there, nothing   *)
(* of the reserved directory is ever in the VirtualFS                        *)
(* (runtime.rs:495, an assert of the test of sync_back_to_vfs).                 *)
InternalStaysOut == Present(files) \cap InternalPaths \subseteq HostPaths

(* A run that fails for whatever reason, at whatever stage, leaves the       *)
(* VirtualFS as it found it.                                                 *)
FailureLeavesFiles ==
  \A r \in Runs : phase[r] = "done" /\ result[r] # "ok" /\ ~raced[r] => files = loaded[r]

(* docs/TB_PLAN.md:70 (files persist between runs): a run that answers Ok    *)
(* leaves what its guest created, changed or deleted so, and every other     *)
(* file as it was, provided nobody else changed the VirtualFS meanwhile; its *)
(* own files, which lay in the same directory, stay out (runtime.rs:495).    *)
OnlyGuestChanges ==
  [][\A r \in Runs : phase[r] = "running" /\ result'[r] = "ok" /\ ~raced[r] =>
       /\ \A p \in Paths \ InternalPaths :
            files'[p] = IF dir[r][p] # loaded[r][p] THEN dir[r][p] ELSE files[p]
       /\ Present(files') \cap InternalPaths = {}]_vars

(* A run that answers Ok hands out all its output: a guest that wrote more   *)
(* than the limit never gets away with a truncated stdout.                   *)
OkMeansComplete ==
  \A r \in Runs : result[r] = "ok" => Written(r) = wanted[r]
=============================================================================
