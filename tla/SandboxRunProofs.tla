--------------------------- MODULE SandboxRunProofs ---------------------------
(***************************************************************************)
(* Theorems about SandboxRun, for any number of runs, any set of paths and *)
(* contents and every output limit.                                        *)
(***************************************************************************)
EXTENDS SandboxRun, TLAPS

----------------------------------------------------------------------------
(* What the helpers return *)

LEMMA EmptyType == Empty \in FileMaps /\ Present(Empty) = {}
  BY DEF Empty, FileMaps, Present

LEMMA MaterializedType ==
  ASSUME NEW fs \in FileMaps, NEW own \in OwnFiles
  PROVE  /\ Materialized(fs, own) \in FileMaps
         /\ Present(Materialized(fs, own)) \ InternalPaths = Present(fs) \ InternalPaths
  BY DEF OwnFiles, FileMaps, Materialized, Present

LEMMA CollectedType ==
  ASSUME NEW d \in FileMaps
  PROVE  /\ Collected(d) \in FileMaps
         /\ Present(Collected(d)) = Present(d) \ InternalPaths
         /\ \A p \in Paths \ InternalPaths : Collected(d)[p] = d[p]
  BY DEF FileMaps, Collected, Present

LEMMA VerdictType ==
  ASSUME NEW r \in Runs, NEW ending \in Endings
  PROVE  /\ Verdict(r, ending) \in Results \ {"none"}
         /\ Verdict(r, ending) = "ok" => ~OutputLimitExceeded(r) /\ ending = "exit"
  BY DEF Verdict, Endings, Results

LEMMA CompatibleSubset ==
  ASSUME NEW S, NEW T \in SUBSET S, Compatible(S)
  PROVE  Compatible(T)
  BY DEF Compatible

\* The effect of Conclude on the variables, whichever way it goes.
LEMMA ConcludeEffect ==
  ASSUME TypeOK, NEW r \in Runs, Conclude(r)
  PROVE  /\ phase[r] = "running"
         /\ phase' = [phase EXCEPT ![r] = "done"]
         /\ UNCHANGED <<limit, wanted, loaded>>
         /\ dir' = [dir EXCEPT ![r] = Empty]
         /\ \E answer \in Results \ {"none"} :
              /\ result' = [result EXCEPT ![r] = answer]
              /\ \/ answer = "ok" /\ ~OutputLimitExceeded(r) /\ SyncBackToVfs(r)
                 \/ answer # "ok" /\ UNCHANGED <<files, raced>>
<1>1. PICK ending \in Endings :
        \/ /\ Answer(r, Verdict(r, ending))
           /\ IF Verdict(r, ending) = "ok" THEN SyncBackToVfs(r) ELSE UNCHANGED <<files, raced>>
        \/ /\ Verdict(r, ending) = "ok"
           /\ Answer(r, "failed")
           /\ UNCHANGED <<files, raced>>
  BY DEF Conclude
<1>2. phase[r] = "running" /\ UNCHANGED <<limit, wanted, loaded>> /\ dir' = [dir EXCEPT ![r] = Empty]
  BY DEF Conclude, DropSession
<1>3. phase' = [phase EXCEPT ![r] = "done"]
  BY <1>1 DEF Answer
<1>4. \E answer \in Results \ {"none"} :
        /\ result' = [result EXCEPT ![r] = answer]
        /\ \/ answer = "ok" /\ ~OutputLimitExceeded(r) /\ SyncBackToVfs(r)
           \/ answer # "ok" /\ UNCHANGED <<files, raced>>
  <2>1. CASE /\ Answer(r, Verdict(r, ending))
             /\ IF Verdict(r, ending) = "ok" THEN SyncBackToVfs(r) ELSE UNCHANGED <<files, raced>>
    BY <2>1, VerdictType DEF Answer
  <2>2. CASE Answer(r, "failed") /\ UNCHANGED <<files, raced>>
    <3>1. "failed" \in Results \ {"none"} /\ "failed" # "ok" BY DEF Results
    <3>2. result' = [result EXCEPT ![r] = "failed"] BY <2>2 DEF Answer
    <3> QED BY <2>2, <3>1, <3>2, Zenon
  <2> QED BY <1>1, <2>1, <2>2
<1> QED BY <1>2, <1>3, <1>4

----------------------------------------------------------------------------
(* Type correctness *)

LEMMA InitTyped == ASSUME Init PROVE TypeOK
  BY EmptyType, LimitsAssumption DEF Init, TypeOK, Phases, Results

LEMMA HostTyped ==
  ASSUME TypeOK, Host
  PROVE  TypeOK'
<1>1. PICK p \in HostPaths, content \in Contents \cup {NoFile} : HostChangesFile(p, content)
  BY DEF Host, WriteFile, RemoveFile
<1>2. files' \in FileMaps
  BY <1>1, PathsAssumption DEF TypeOK, HostChangesFile, FileMaps
<1>3. raced' \in [Runs -> BOOLEAN]
  BY <1>1 DEF HostChangesFile, RacedBy
<1> QED BY <1>1, <1>2, <1>3 DEF TypeOK, HostChangesFile

LEMMA RunTyped ==
  ASSUME TypeOK, NEW r \in Runs, Run(r)
  PROVE  TypeOK'
<1>1. CASE Refused(r)
  BY <1>1 DEF TypeOK, Refused, Answer, Phases, Results
<1>2. CASE NewSession(r)
  <2>1. PICK n \in Limits, own \in OwnFiles :
          IF Materializable(files) /\ n > 0
          THEN /\ phase' = [phase EXCEPT ![r] = "loaded"]
               /\ dir' = [dir EXCEPT ![r] = Materialized(files, own)]
               /\ limit' = [limit EXCEPT ![r] = n]
               /\ UNCHANGED result
          ELSE Answer(r, "failed") /\ UNCHANGED <<dir, limit>>
    BY <1>2 DEF NewSession
  <2>2. loaded' = [loaded EXCEPT ![r] = files] /\ UNCHANGED <<files, wanted, raced>>
    BY <1>2 DEF NewSession
  <2>3. n \in Nat /\ Materialized(files, own) \in FileMaps
    BY LimitsAssumption, MaterializedType DEF TypeOK
  <2> QED BY <2>1, <2>2, <2>3 DEF TypeOK, Answer, Phases, Results
<1>3. CASE LinkingFails(r)
  BY <1>3, EmptyType DEF TypeOK, LinkingFails, DropSession, Answer, Phases, Results
<1>4. CASE CallStart(r)
  BY <1>4 DEF TypeOK, CallStart, Phases
<1>5. CASE GuestChangesFile(r)
  <2>1. PICK p \in Paths, content \in Contents \cup {NoFile} :
          dir' = [dir EXCEPT ![r][p] = content]
    BY <1>5 DEF GuestChangesFile
  <2>2. dir' \in [Runs -> FileMaps]
    BY <2>1 DEF TypeOK, FileMaps
  <2> QED BY <1>5, <2>2 DEF TypeOK, GuestChangesFile
<1>6. CASE GuestPrints(r)
  <2>1. wanted' \in [Runs -> 0..MaxWanted]
    BY <1>6, LimitsAssumption DEF TypeOK, GuestPrints
  <2> QED BY <1>6, <2>1 DEF TypeOK, GuestPrints
<1>7. CASE Conclude(r)
  <2>1. files' \in FileMaps /\ raced' \in [Runs -> BOOLEAN]
    <3>1. SyncBackToVfs(r) \/ UNCHANGED <<files, raced>> BY <1>7, ConcludeEffect
    <3>2. CASE SyncBackToVfs(r)
      <4>1. files' = Collected(dir[r]) BY <3>2 DEF SyncBackToVfs, ReplaceEntries
      <4>2. raced' \in [Runs -> BOOLEAN] BY <3>2 DEF SyncBackToVfs, RacedBy
      <4> QED BY <4>1, <4>2, CollectedType DEF TypeOK
    <3> QED BY <3>1, <3>2 DEF TypeOK
  <2>2. phase' \in [Runs -> Phases] /\ result' \in [Runs -> Results]
    BY <1>7, ConcludeEffect DEF TypeOK, Phases, Results
  <2>3. dir' \in [Runs -> FileMaps] /\ UNCHANGED <<limit, wanted, loaded>>
    BY <1>7, ConcludeEffect, EmptyType DEF TypeOK
  <2> QED BY <2>1, <2>2, <2>3 DEF TypeOK
<1>8. CASE Return(r)
  BY <1>8, EmptyType, LimitsAssumption DEF TypeOK, Return, Phases, Results
<1> QED BY <1>1, <1>2, <1>3, <1>4, <1>5, <1>6, <1>7, <1>8 DEF Run

LEMMA NextTyped ==
  ASSUME TypeOK, [Next]_vars
  PROVE  TypeOK'
<1>1. CASE UNCHANGED vars BY <1>1 DEF vars, TypeOK
<1> QED BY <1>1, HostTyped, RunTyped DEF Next

(***************************************************************************)
(* Type correctness: every ending of a guest is one of the four answers,   *)
(* and the VirtualFS is always a map of files.                             *)
(***************************************************************************)
THEOREM TypeCorrect == Spec => []TypeOK
  BY InitTyped, NextTyped, PTL DEF Spec

----------------------------------------------------------------------------
(* The life of a run *)

\* What links a run to the VirtualFS: there is no answer before the end; the
\* files are as the run copied them until it succeeds or somebody interferes;
\* and an Ok is given only to output that did not fill the pipe.
Faithful(r) ==
  /\ phase[r] # "done" => result[r] = "none"
  /\ phase[r] # "idle" /\ result[r] # "ok" /\ ~raced[r] => files = loaded[r]
  /\ result[r] = "ok" => Written(r) = wanted[r]

AllFaithful == \A r \in Runs : Faithful(r)

LEMMA InitFaithful == ASSUME Init PROVE AllFaithful
  BY DEF Init, AllFaithful, Faithful

LEMMA HostFaithful ==
  ASSUME TypeOK, AllFaithful, Host
  PROVE  AllFaithful'
<1> SUFFICES ASSUME NEW q \in Runs PROVE Faithful(q)'
  BY DEF AllFaithful
<1>0. Faithful(q) BY DEF AllFaithful
<1>1. UNCHANGED <<phase, limit, result, wanted, loaded>> /\ RacedBy({})
  BY DEF Host, WriteFile, RemoveFile, HostChangesFile
<1>2. phase[q] # "idle" => raced'[q]
  BY <1>1 DEF RacedBy
<1> QED BY <1>0, <1>1, <1>2 DEF Faithful, Written

LEMMA RunFaithful ==
  ASSUME TypeOK, AllFaithful, NEW r \in Runs, Run(r)
  PROVE  AllFaithful'
<1> SUFFICES ASSUME NEW q \in Runs PROVE Faithful(q)'
  BY DEF AllFaithful
<1>0. Faithful(q) BY DEF AllFaithful
<1>1. CASE Refused(r)
  BY <1>0, <1>1 DEF TypeOK, Refused, Answer, Faithful, Written
<1>2. CASE NewSession(r)
  <2>1. loaded' = [loaded EXCEPT ![r] = files] /\ UNCHANGED <<files, wanted, raced>> /\ phase[r] = "idle"
    BY <1>2 DEF NewSession
  <2>2. \/ phase' = [phase EXCEPT ![r] = "loaded"] /\ UNCHANGED result
        \/ phase' = [phase EXCEPT ![r] = "done"] /\ result' = [result EXCEPT ![r] = "failed"]
    BY <1>2 DEF NewSession, Answer
  <2>3. q # r => limit'[q] = limit[q]
    BY <1>2 DEF TypeOK, NewSession
  <2>4. CASE q = r
    BY <1>0, <2>1, <2>2, <2>4 DEF TypeOK, Faithful
  <2>5. CASE q # r
    BY <1>0, <2>1, <2>2, <2>3, <2>5 DEF TypeOK, Faithful, Written
  <2> QED BY <2>4, <2>5
<1>3. CASE LinkingFails(r)
  BY <1>0, <1>3 DEF TypeOK, LinkingFails, Answer, Faithful, Written
<1>4. CASE CallStart(r)
  BY <1>0, <1>4 DEF TypeOK, CallStart, Faithful, Written
<1>5. CASE GuestChangesFile(r)
  BY <1>0, <1>5 DEF GuestChangesFile, Faithful, Written
<1>6. CASE GuestPrints(r)
  BY <1>0, <1>6 DEF TypeOK, GuestPrints, Faithful, Written
<1>7. CASE Conclude(r)
  <2>1. /\ phase[r] = "running" /\ phase' = [phase EXCEPT ![r] = "done"]
        /\ UNCHANGED <<limit, wanted, loaded>>
    BY <1>7, ConcludeEffect
  <2>2. PICK answer \in Results \ {"none"} :
          /\ result' = [result EXCEPT ![r] = answer]
          /\ \/ answer = "ok" /\ ~OutputLimitExceeded(r) /\ SyncBackToVfs(r)
             \/ answer # "ok" /\ UNCHANGED <<files, raced>>
    BY <1>7, ConcludeEffect
  <2>3. CASE answer = "ok" /\ ~OutputLimitExceeded(r) /\ SyncBackToVfs(r)
    <3>1. raced' = [x \in Runs |-> raced[x] \/ (x \notin {r} /\ phase[x] # "idle")]
      BY <2>3 DEF SyncBackToVfs, RacedBy
    <3>2. CASE q = r
      <4>1. wanted[r] \in Nat /\ limit[r] \in Nat
        BY LimitsAssumption DEF TypeOK
      <4>2. Written(r) = wanted[r]
        BY <2>3, <4>1 DEF OutputLimitExceeded, Written
      <4> QED BY <2>1, <2>2, <2>3, <3>2, <4>2 DEF TypeOK, Faithful, Written
    <3>3. CASE q # r
      BY <1>0, <2>1, <2>2, <3>1, <3>3 DEF TypeOK, Faithful, Written
    <3> QED BY <3>2, <3>3
  <2>4. CASE answer # "ok" /\ UNCHANGED <<files, raced>>
    BY <1>0, <2>1, <2>2, <2>4 DEF TypeOK, Faithful, Written
  <2> QED BY <2>2, <2>3, <2>4
<1>8. CASE Return(r)
  BY <1>0, <1>8 DEF TypeOK, Return, Faithful, Written
<1> QED BY <1>1, <1>2, <1>3, <1>4, <1>5, <1>6, <1>7, <1>8 DEF Run

LEMMA NextFaithful ==
  ASSUME TypeOK, AllFaithful, [Next]_vars
  PROVE  AllFaithful'
<1>1. CASE UNCHANGED vars
  BY <1>1 DEF vars, AllFaithful, Faithful, Written
<1> QED BY <1>1, HostFaithful, RunFaithful DEF Next

LEMMA AlwaysFaithful == Spec => [](TypeOK /\ AllFaithful)
  BY InitTyped, NextTyped, InitFaithful, NextFaithful, PTL DEF Spec

(***************************************************************************)
(* A run that fails at any stage leaves the VirtualFS as it found it.      *)
(***************************************************************************)
THEOREM FailuresLeaveFiles == Spec => []FailureLeavesFiles
<1>1. AllFaithful => FailureLeavesFiles BY DEF AllFaithful, Faithful, FailureLeavesFiles
<1> QED BY <1>1, AlwaysFaithful, PTL

(***************************************************************************)
(* No truncated output is answered with Ok, whatever the limit.            *)
(***************************************************************************)
THEOREM OkAlwaysComplete == Spec => []OkMeansComplete
<1>1. AllFaithful => OkMeansComplete BY DEF AllFaithful, Faithful, OkMeansComplete
<1> QED BY <1>1, AlwaysFaithful, PTL

(***************************************************************************)
(* A run that answers Ok, and that nobody raced, changes exactly what its  *)
(* guest changed.                                                          *)
(***************************************************************************)
THEOREM SuccessIsExact == Spec => OnlyGuestChanges
<1> DEFINE Exact(r) ==
      phase[r] = "running" /\ result'[r] = "ok" /\ ~raced[r] =>
        /\ \A p \in Paths \ InternalPaths :
             files'[p] = IF dir[r][p] # loaded[r][p] THEN dir[r][p] ELSE files[p]
        /\ Present(files') \cap InternalPaths = {}
<1>1. ASSUME TypeOK, AllFaithful, Next, NEW q \in Runs PROVE Exact(q)
  <2> SUFFICES ASSUME phase[q] = "running", result'[q] = "ok", ~raced[q]
               PROVE  /\ \A p \in Paths \ InternalPaths :
                           files'[p] = IF dir[q][p] # loaded[q][p] THEN dir[q][p] ELSE files[p]
                      /\ Present(files') \cap InternalPaths = {}
    OBVIOUS
  <2>1. result[q] = "none" /\ files = loaded[q]
    BY <1>1 DEF AllFaithful, Faithful
  <2>2. ASSUME NEW r \in Runs, Run(r) PROVE Conclude(q)
    <3>1. CASE NewSession(r)
      BY <1>1, <2>1, <3>1 DEF TypeOK, NewSession, Answer
    <3>2. CASE ~NewSession(r) /\ ~Conclude(r)
      BY <1>1, <2>1, <2>2, <3>2
      DEF TypeOK, Run, Refused, LinkingFails, CallStart, GuestChangesFile, GuestPrints, Return, Answer
    <3>3. CASE Conclude(r)
      <4>1. r = q BY <1>1, <2>1, <3>3, ConcludeEffect DEF TypeOK
      <4> QED BY <3>3, <4>1
    <3> QED BY <3>1, <3>2, <3>3
  <2>3. ~Host
    BY <2>1 DEF Host, WriteFile, RemoveFile, HostChangesFile
  <2>4. Conclude(q) BY <1>1, <2>2, <2>3 DEF Next
  <2>5. files' = Collected(dir[q])
    BY <1>1, <2>4, ConcludeEffect DEF TypeOK, SyncBackToVfs, ReplaceEntries
  <2>6. \A p \in Paths \ InternalPaths : files'[p] = dir[q][p]
    BY <1>1, <2>5, CollectedType DEF TypeOK
  <2>7. Present(files') \cap InternalPaths = {}
    BY <1>1, <2>5, CollectedType DEF TypeOK
  <2> QED BY <2>1, <2>6, <2>7
<1>2. TypeOK /\ AllFaithful /\ [Next]_vars => [\A r \in Runs : Exact(r)]_vars
  BY <1>1
<1>3. TypeOK /\ AllFaithful /\ [Next]_vars =>
        [\A r \in Runs : phase[r] = "running" /\ result'[r] = "ok" /\ ~raced[r] =>
           /\ \A p \in Paths \ InternalPaths :
                files'[p] = IF dir[r][p] # loaded[r][p] THEN dir[r][p] ELSE files[p]
           /\ Present(files') \cap InternalPaths = {}]_vars
  BY <1>2
<1> QED BY <1>3, AlwaysFaithful, PTL DEF Spec, OnlyGuestChanges

----------------------------------------------------------------------------
(* The VirtualFS can be loaded again *)

\* AlwaysMaterializable is not inductive: what a run brings back was in its
\* directory, so the directories have to fit as well.
UserTreesFit ==
  /\ Compatible(Present(files) \ InternalPaths)
  /\ \A r \in Runs : Compatible(Present(dir[r]) \ InternalPaths)

LEMMA InitFit == ASSUME Init PROVE UserTreesFit
  BY EmptyType DEF Init, UserTreesFit, Compatible

\* One file at a path that is neither below nor above another never hurts.
LEMMA HostFit ==
  ASSUME TypeOK, UserTreesFit, HostPathsApart, Host
  PROVE  UserTreesFit'
<1>1. PICK p \in HostPaths, content \in Contents \cup {NoFile} :
        files' = [files EXCEPT ![p] = content] /\ UNCHANGED dir
  BY DEF Host, WriteFile, RemoveFile, HostChangesFile
<1>2. Present(files') \subseteq Present(files) \cup {p}
  BY <1>1, PathsAssumption DEF TypeOK, FileMaps, Present
<1>3. Compatible(Present(files') \ InternalPaths)
  <2> SUFFICES ASSUME NEW x \in Present(files') \ InternalPaths,
                      NEW y \in Present(files') \ InternalPaths
               PROVE  <<x, y>> \notin Ancestor
    BY DEF Compatible
  <2>1. CASE x = p \/ y = p
    <3>1. x \in Paths /\ y \in Paths BY DEF Present
    <3> QED BY <2>1, <3>1 DEF HostPathsApart
  <2>2. CASE x # p /\ y # p
    BY <1>2, <2>2 DEF UserTreesFit, Compatible
  <2> QED BY <2>1, <2>2
<1>4. Present(files)' = Present(files') BY DEF Present
<1>5. \A r \in Runs : Present(dir[r])' = Present(dir[r]) BY <1>1 DEF Present
<1> QED BY <1>1, <1>3, <1>4, <1>5 DEF UserTreesFit, Compatible

\* A directory, or the VirtualFS, takes the place of one that fits.
LEMMA FitKept ==
  ASSUME UserTreesFit,
         Compatible(Present(files') \ InternalPaths),
         \A q \in Runs : Compatible(Present(dir'[q]) \ InternalPaths)
  PROVE  UserTreesFit'
  BY DEF UserTreesFit, Compatible, Present

LEMMA RunFit ==
  ASSUME TypeOK, UserTreesFit, NEW r \in Runs, Run(r)
  PROVE  UserTreesFit'
<1>1. CASE UNCHANGED <<files, dir>>
  BY <1>1, FitKept DEF UserTreesFit
<1>2. CASE NewSession(r)
  <2>1. CASE UNCHANGED dir
    BY <1>1, <1>2, <2>1 DEF NewSession
  <2>2. CASE dir' # dir
    <3>1. PICK own \in OwnFiles : dir' = [dir EXCEPT ![r] = Materialized(files, own)]
      BY <1>2, <2>2 DEF NewSession
    <3>2. UNCHANGED files BY <1>2 DEF NewSession
    <3>3. Present(dir'[r]) \ InternalPaths = Present(files) \ InternalPaths
      BY <3>1, MaterializedType DEF TypeOK
    <3>4. \A q \in Runs : q # r => dir'[q] = dir[q]
      BY <3>1 DEF TypeOK
    <3> QED BY <3>2, <3>3, <3>4, FitKept DEF UserTreesFit
  <2> QED BY <2>1, <2>2
<1>3. CASE LinkingFails(r)
  <2>1. UNCHANGED files /\ \A q \in Runs : dir'[q] = IF q = r THEN Empty ELSE dir[q]
    BY <1>3 DEF TypeOK, LinkingFails, DropSession
  <2>2. Compatible(Present(Empty) \ InternalPaths) BY EmptyType DEF Compatible
  <2> QED BY <2>1, <2>2, FitKept DEF UserTreesFit
<1>4. CASE GuestChangesFile(r)
  <2>1. UNCHANGED files /\ \A q \in Runs : q # r => dir'[q] = dir[q]
    BY <1>4 DEF TypeOK, GuestChangesFile
  <2>2. Compatible(Present(dir'[r]))
    BY <1>4 DEF GuestChangesFile
  <2>3. Compatible(Present(dir'[r]) \ InternalPaths)
    BY <2>2, CompatibleSubset
  <2> QED BY <2>1, <2>3, FitKept DEF UserTreesFit
<1>5. CASE Conclude(r)
  <2>1. \A q \in Runs : dir'[q] = IF q = r THEN Empty ELSE dir[q]
    BY <1>5, ConcludeEffect DEF TypeOK
  <2>2. Compatible(Present(Empty) \ InternalPaths) BY EmptyType DEF Compatible
  <2>3. files' = files \/ files' = Collected(dir[r])
    BY <1>5, ConcludeEffect DEF SyncBackToVfs, ReplaceEntries
  <2>4. Compatible(Present(Collected(dir[r])) \ InternalPaths)
    <3>1. Present(Collected(dir[r])) \ InternalPaths = Present(dir[r]) \ InternalPaths
      BY CollectedType DEF TypeOK
    <3> QED BY <3>1 DEF UserTreesFit
  <2>5. Compatible(Present(files') \ InternalPaths)
    BY <2>3, <2>4 DEF UserTreesFit
  <2> QED BY <2>1, <2>2, <2>5, FitKept DEF UserTreesFit
<1> QED BY <1>1, <1>2, <1>3, <1>4, <1>5 DEF Run, Refused, CallStart, GuestPrints, Return

LEMMA NextFit ==
  ASSUME TypeOK, UserTreesFit, HostPathsApart, [Next]_vars
  PROVE  UserTreesFit'
<1>1. CASE UNCHANGED vars
  BY <1>1, FitKept DEF vars, UserTreesFit
<1> QED BY <1>1, HostFit, RunFit DEF Next

(***************************************************************************)
(* If callers write no path below or above another one, every run finds a  *)
(* VirtualFS that can be copied to a directory.                            *)
(***************************************************************************)
THEOREM AlwaysLoadable == Spec => []AlwaysMaterializable
<1>1. CASE HostPathsApart
  <2>1. UserTreesFit => AlwaysMaterializable
    BY DEF UserTreesFit, AlwaysMaterializable, Materializable
  <2>2. Init => UserTreesFit BY InitFit
  <2>3. TypeOK /\ UserTreesFit /\ [Next]_vars => UserTreesFit' BY <1>1, NextFit
  <2> QED BY <2>1, <2>2, <2>3, TypeCorrect, PTL DEF Spec
<1>2. CASE ~HostPathsApart
  <2>1. AlwaysMaterializable BY <1>2 DEF AlwaysMaterializable
  <2> QED BY <2>1, PTL
<1> QED BY <1>1, <1>2

----------------------------------------------------------------------------
LEMMA NextInternal ==
  ASSUME TypeOK, InternalStaysOut, [Next]_vars
  PROVE  InternalStaysOut'
<1>1. CASE UNCHANGED files
  BY <1>1 DEF InternalStaysOut, Present
<1>2. CASE Host
  <2>1. PICK p \in HostPaths, content \in Contents \cup {NoFile} :
          files' = [files EXCEPT ![p] = content]
    BY <1>2 DEF Host, WriteFile, RemoveFile, HostChangesFile
  <2>2. Present(files') \subseteq Present(files) \cup {p}
    BY <2>1, PathsAssumption DEF TypeOK, FileMaps, Present
  <2> QED BY <2>2 DEF InternalStaysOut, Present
<1>3. ASSUME NEW r \in Runs, Conclude(r) PROVE InternalStaysOut'
  <2>1. CASE files' = Collected(dir[r])
    <3>1. Present(files') \cap InternalPaths = {}
      BY <2>1, CollectedType DEF TypeOK
    <3> QED BY <3>1 DEF InternalStaysOut, Present
  <2> QED BY <1>1, <1>3, <2>1, ConcludeEffect DEF SyncBackToVfs, ReplaceEntries
<1> QED BY <1>1, <1>2, <1>3
        DEF Next, Run, vars, Refused, NewSession, LinkingFails, CallStart, GuestChangesFile,
            GuestPrints, Return

(***************************************************************************)
(* The run's own files never reach the VirtualFS.                          *)
(***************************************************************************)
THEOREM InternalAlwaysOut == Spec => []InternalStaysOut
<1>1. Init => InternalStaysOut BY EmptyType DEF Init, InternalStaysOut
<1> QED BY <1>1, NextInternal, TypeCorrect, PTL DEF Spec
=============================================================================
