------------------------ MODULE PythonRuntimeProofs ------------------------
(***************************************************************************)
(* Theorems about PythonRuntime, for any threads, places, candidates and   *)
(* timeouts.                                                               *)
(***************************************************************************)
EXTENDS PythonRuntime, TLAPS

----------------------------------------------------------------------------
(* The search *)

\* At most one directory is resolved.
LEMMA ResolveOne ==
  ASSUME AssetsOK
  PROVE  Resolve \subseteq Places /\ \A p, q \in Resolve : p = q
<1>1. CASE override # Unset
  BY <1>1, CandidatesAssumption DEF AssetsOK, Resolve
<1>2. CASE override = Unset
  <2>1. \A i \in DOMAIN Candidates : i \in Nat /\ i >= 1 /\ Candidates[i] \in Places
    BY CandidatesAssumption
  <2>2. ASSUME NEW i \in DOMAIN Candidates, NEW j \in DOMAIN Candidates,
               assets[Candidates[i]] # "absent", assets[Candidates[j]] # "absent",
               \A k \in 1..i - 1 : assets[Candidates[k]] = "absent",
               \A k \in 1..j - 1 : assets[Candidates[k]] = "absent"
        PROVE  i = j
    <3>1. i \in Nat /\ i >= 1 /\ j \in Nat /\ j >= 1 BY <2>1
    <3>2. ~(i < j) BY <2>2, <3>1
    <3>3. ~(j < i) BY <2>2, <3>1
    <3> QED BY <3>1, <3>2, <3>3
  <2> QED BY <1>2, <2>1, <2>2 DEF Resolve
<1> QED BY <1>1, <1>2

\* What a search that is not hindered relies on.
Sound(c) ==
  /\ step[c] = "failed" => hindered[c]
  /\ step[c] \in Searching /\ ~hindered[c] => Usable
  /\ step[c] \in {"checking", "loading"} /\ ~hindered[c] => assets[dir[c]] = "complete"

AssetsInv == AssetsOK /\ \A c \in Seekers : Sound(c)

\* The steps by which a search moves, TakeShared's included.
Taken(c) == /\ step[c] = "called"
            /\ step' = [step EXCEPT ![c] = "found"]
            /\ UNCHANGED <<assets, override, dir, hindered>>
SearchMoves(c) == \/ Call(c) \/ ResolveDir(c) \/ CheckModule(c) \/ LoadModule(c)
                  \/ Hinder(c) \/ Answered(c) \/ Taken(c)

LEMMA SearchKeeps ==
  ASSUME AssetsInv, NEW c \in Seekers, SearchMoves(c)
  PROVE  AssetsInv'
<1> USE DEF AssetsInv
<1>1. UNCHANGED <<assets, override>>
  BY DEF SearchMoves, Call, ResolveDir, CheckModule, LoadModule, Hinder, Answered, Taken, Proceed
<1>2. (Usable' <=> Usable) /\ Resolve' = Resolve
  BY <1>1 DEF Usable, Resolve
<1>3. ASSUME AssetsOK', Sound(c)',
             \A q \in Seekers \ {c} : /\ step'[q] = step[q] /\ dir'[q] = dir[q]
                                      /\ hindered'[q] <=> hindered[q]
      PROVE  AssetsInv'
  <2>1. ASSUME NEW q \in Seekers, q # c PROVE Sound(q)'
    BY <1>1, <1>2, <1>3, <2>1 DEF Sound
  <2> QED BY <1>3, <2>1
<1>4. Sound(c) OBVIOUS
<1>5. CASE Call(c)
  <2>1. AssetsOK' BY <1>5 DEF Call, AssetsOK, Searching
  <2>2. step'[c] = "called" BY <1>5 DEF Call, AssetsOK
  <2>3. hindered'[c] <=> ~Usable BY <1>5 DEF Call, AssetsOK
  <2>4. Sound(c)' BY <1>2, <2>2, <2>3 DEF Sound
  <2> QED BY <1>3, <1>5, <2>1, <2>4 DEF Call, AssetsOK
<1>6. CASE ResolveDir(c)
  <2> USE DEF ResolveDir, Proceed
  <2>1. CASE Resolve = {}
    <3>1. hindered[c] BY <1>4, <1>6, <2>1 DEF Sound, Usable, Searching
    <3>2. AssetsOK' BY <1>6, <2>1 DEF AssetsOK, Searching
    <3>3. Sound(c)' BY <1>6, <2>1, <3>1 DEF AssetsOK, Sound, Searching
    <3> QED BY <1>3, <1>6, <3>2, <3>3 DEF AssetsOK
  <2>2. CASE Resolve # {}
    <3> DEFINE p == CHOOSE p \in Resolve : TRUE
    <3>1. p \in Resolve BY <2>2
    <3>2. p \in Places BY <3>1, ResolveOne
    <3>3. ~hindered[c] => Usable /\ assets[p] = "complete"
      BY <1>4, <1>6, <3>1, ResolveOne DEF Sound, Usable, Searching
    <3>4. step' = [step EXCEPT ![c] = "checking"] /\ dir' = [dir EXCEPT ![c] = p]
          /\ hindered' = hindered
      BY <1>6, <2>2
    <3> HIDE DEF p, ResolveDir, Proceed
    <3>5. AssetsOK' BY <1>1, <3>2, <3>4 DEF AssetsOK, Searching
    <3>6. Sound(c)' BY <1>1, <1>2, <3>3, <3>4 DEF AssetsOK, Sound
    <3> QED BY <1>3, <3>4, <3>5, <3>6 DEF AssetsOK
  <2> QED BY <2>1, <2>2
<1>7. CASE CheckModule(c)
  <2> USE DEF CheckModule, Proceed
  <2>1. dir[c] \in Places BY <1>7 DEF AssetsOK
  <2>2. AssetsOK' BY <1>7, <2>1 DEF AssetsOK, Searching
  <2>3. Sound(c)' BY <1>2, <1>4, <1>7, <2>1 DEF AssetsOK, Sound, Searching
  <2> QED BY <1>3, <1>7, <2>2, <2>3 DEF AssetsOK
<1>8. CASE LoadModule(c)
  <2> USE DEF LoadModule, Proceed
  <2>1. AssetsOK' BY <1>8 DEF AssetsOK, Searching
  <2>2. Sound(c)' BY <1>4, <1>8 DEF AssetsOK, Sound, Searching
  <2> QED BY <1>3, <1>8, <2>1, <2>2 DEF AssetsOK
<1>9. CASE Hinder(c)
  <2>1. AssetsOK' /\ Sound(c)' BY <1>9 DEF Hinder, AssetsOK, Sound, Searching
  <2> QED BY <1>3, <1>9, <2>1 DEF Hinder, AssetsOK
<1>10. CASE Answered(c)
  <2>1. AssetsOK' /\ Sound(c)' BY <1>10 DEF Answered, AssetsOK, Sound, Searching
  <2> QED BY <1>3, <1>10, <2>1 DEF Answered, AssetsOK
<1>11. CASE Taken(c)
  <2>1. AssetsOK' /\ Sound(c)' BY <1>11 DEF Taken, AssetsOK, Sound, Searching
  <2> QED BY <1>3, <1>11, <2>1 DEF Taken, AssetsOK
<1> QED BY <1>5, <1>6, <1>7, <1>8, <1>9, <1>10, <1>11 DEF SearchMoves

LEMMA PlaceKeeps ==
  ASSUME AssetsInv, NEW p \in Places, PlaceChanges(p)
  PROVE  AssetsInv'
<1> USE DEF AssetsInv
<1>1. PICK s \in States : assets' = [assets EXCEPT ![p] = s]
  BY DEF PlaceChanges, States
<1>2. AssetsOK'
  <2>1. hindered' \in [Seekers -> BOOLEAN] BY DEF PlaceChanges, AssetsOK
  <2> QED BY <1>1, <2>1 DEF AssetsOK, PlaceChanges
<1>3. ASSUME NEW c \in Seekers PROVE Sound(c)'
  <2>1. hindered'[c] <=> hindered[c] \/ (step[c] \in Searching /\ (~Usable' \/ assets[p] = "complete"))
    BY DEF PlaceChanges, AssetsOK
  <2>2. UNCHANGED <<step, dir>> BY DEF PlaceChanges
  <2>3. step[c] \in {"checking", "loading"} => step[c] \in Searching /\ dir[c] \in Places
    BY DEF AssetsOK, Searching
  <2> QED BY <1>1, <2>1, <2>2, <2>3 DEF AssetsOK, Sound
<1> QED BY <1>2, <1>3

\* All that a step of the process can do to the searches and the places.
LEMMA MovesOfNext ==
  ASSUME [Next]_vars
  PROVE  \/ \E c \in Seekers : SearchMoves(c)
         \/ \E p \in Places : PlaceChanges(p)
         \/ UNCHANGED assetVars
<1>1. ASSUME NEW o \in Openers, Opener(o) PROVE SearchMoves(o) \/ UNCHANGED assetVars
  BY <1>1 DEF Opener, CallNew, TakeShared, SpawnTicker, SpawnFails, Locate, DropRuntime,
              SearchMoves, Taken
<1>2. ASSUME NEW r \in Repros, Repro(r) PROVE SearchMoves(r) \/ UNCHANGED assetVars
  BY <1>2 DEF Repro, CallRepro, LocateRepro, ReproFails, ArmTimeoutDeadline, GuestEnds, Reports,
              ReproInterrupted, InstantiateFails, ReproReturns, SearchMoves
<1>3. CASE Timers \/ MillisecondPasses
  BY <1>3 DEF Timers, TimerFires, MillisecondPasses
<1>4. CASE UNCHANGED vars BY <1>4 DEF vars
<1> QED BY <1>1, <1>2, <1>3, <1>4, OpenersAssumption, ReprosAssumption
        DEF Next, SharedStep, ReproStep, AssetsStep

LEMMA NextAssets ==
  ASSUME AssetsInv, [Next]_vars
  PROVE  AssetsInv'
<1>1. CASE UNCHANGED assetVars
  BY <1>1 DEF AssetsInv, AssetsOK, Sound, assetVars, searchVars, Usable, Resolve
<1> QED BY <1>1, MovesOfNext, SearchKeeps, PlaceKeeps

LEMMA AlwaysAssets == Spec => []AssetsInv
<1>1. Init => AssetsInv
  BY DEF Init, AssetsInit, AssetsInv, AssetsOK, Sound, Searching
<1> QED BY <1>1, NextAssets, PTL DEF Spec

(***************************************************************************)
(* Nobody is told that the runtime is missing unless it was so, or became  *)
(* so, during its own call.                                                *)
(***************************************************************************)
THEOREM ErrorsAlwaysCurrent == Spec => []ErrorsAreCurrent
<1>1. AssetsInv => ErrorsAreCurrent BY DEF AssetsInv, Sound, ErrorsAreCurrent
<1> QED BY <1>1, AlwaysAssets, PTL

----------------------------------------------------------------------------
(* The shared runtime *)

\* One thread initialises an empty cell with an engine of its own, and is not
\* in a reproduction run; every engine has its ticker.
SharedInv ==
  /\ SharedOK
  /\ \A e \in 1..MaxEngines : tickers[e] = IF e <= engines THEN 1 ELSE 0
  /\ initialising # Nobody => cell = 0 /\ runtime[initialising] # 0
  /\ \A o \in Openers : runtime[o] # 0 /\ initialising # o => runtime[o] = cell
  /\ \A r \in Repros : guest[r] # "none" => initialising # r

GuestsOK == guest \in [Repros -> {"none", "starting", "running", "over"}]

\* A reproduction run moves its own thread only, which is not the initialising one.
LEMMA ReproAlone ==
  ASSUME AssetsOK, SharedInv, GuestsOK, NEW r \in Repros, Repro(r)
  PROVE  /\ initialising # r
         /\ \A c \in Seekers \ {r} : step'[c] = step[c]
         /\ \A q \in Repros \ {r} : guest'[q] = guest[q]
<1> USE ReprosAssumption DEF AssetsOK, GuestsOK
<1>1. guest[r] # "none" => initialising # r BY DEF SharedInv
<1>2. initialising = r => r # Nobody /\ step[r] \in Searching
  BY OpenersAssumption, <1>1 DEF SharedInv, SharedOK
<1>3. CASE CallRepro(r) BY <1>2, <1>3 DEF CallRepro, Call, Searching
<1>4. CASE LocateRepro(r)
  BY <1>1, <1>4 DEF LocateRepro, ResolveDir, CheckModule, LoadModule, Proceed, reproVars
<1>5. CASE ReproFails(r) BY <1>1, <1>5 DEF ReproFails, Hinder, reproVars
<1>6. ASSUME NEW t \in ReproTimeouts, ArmTimeoutDeadline(r, t)
      PROVE  /\ guest[r] # "none" /\ UNCHANGED step
             /\ \A q \in Repros \ {r} : guest'[q] = guest[q]
  BY <1>6 DEF ArmTimeoutDeadline, assetVars, searchVars
<1>7. ASSUME NEW how, Reports(r, how)
      PROVE  /\ guest[r] # "none" /\ UNCHANGED step
             /\ \A q \in Repros \ {r} : guest'[q] = guest[q]
  BY <1>7 DEF Reports, assetVars, searchVars
<1>8. CASE InstantiateFails(r) BY <1>1, <1>8 DEF InstantiateFails, DropStore, Hinder
<1>9. CASE ReproReturns(r) BY <1>1, <1>9 DEF ReproReturns, DropStore, Answered
<1> QED BY <1>1, <1>3, <1>4, <1>5, <1>6, <1>7, <1>8, <1>9 DEF Repro, GuestEnds, ReproInterrupted

LEMMA SharedKeepsAlone ==
  ASSUME AssetsOK, SharedInv, GuestsOK, ReproStep \/ AssetsStep \/ UNCHANGED vars
  PROVE  SharedInv'
<1>1. UNCHANGED sharedVars BY DEF ReproStep, AssetsStep, vars
<1>2. CASE UNCHANGED <<step, guest>>
  BY <1>1, <1>2 DEF SharedInv, SharedOK, sharedVars
<1>3. ASSUME NEW r \in Repros, Repro(r) PROVE SharedInv'
  <2>1. SharedOK'
    BY <1>1, <1>3, ReproAlone, OpenersAssumption DEF SharedInv, SharedOK, sharedVars
  <2>2. \A q \in Repros : guest'[q] # "none" => initialising # q
    BY <1>3, ReproAlone DEF SharedInv
  <2> QED BY <1>1, <2>1, <2>2 DEF SharedInv, sharedVars
<1>4. ASSUME Timers \/ MillisecondPasses PROVE UNCHANGED <<step, guest>>
  BY <1>4 DEF Timers, TimerFires, MillisecondPasses, assetVars, searchVars
<1>5. ASSUME AssetsStep \/ UNCHANGED vars PROVE UNCHANGED <<step, guest>>
  BY <1>5 DEF AssetsStep, PlaceChanges, vars, assetVars, searchVars, reproVars
<1> QED BY <1>2, <1>3, <1>4, <1>5 DEF ReproStep

LEMMA SharedKeepsOpener ==
  ASSUME AssetsOK, SharedInv, GuestsOK, NEW o \in Openers, Opener(o),
         o \in Repros => guest[o] = "none", UNCHANGED reproVars
  PROVE  SharedInv'
<1> USE OpenersAssumption DEF AssetsOK
<1>1. o \in Seekers /\ o # Nobody OBVIOUS
<1>2. guest' = guest BY DEF reproVars
<1>3. CASE CallNew(o)
  BY <1>1, <1>2, <1>3 DEF CallNew, Call, SharedInv, SharedOK, Searching, sharedVars
<1>4. CASE TakeShared(o)
  <2>1. initialising = Nobody BY <1>4 DEF TakeShared, SharedInv
  <2>2. SharedOK' BY <1>1, <1>4, <2>1 DEF TakeShared, SharedInv, SharedOK
  <2>3. \A p \in Openers : runtime'[p] # 0 => runtime'[p] = cell
    BY <1>4, <2>1 DEF TakeShared, SharedInv, SharedOK
  <2> QED BY <1>2, <1>4, <2>1, <2>2, <2>3 DEF TakeShared, SharedInv
<1>5. CASE SpawnTicker(o)
  <2> USE DEF SpawnTicker, NextEngine
  <2>1. /\ engines' = engines + 1 /\ engines \in Nat /\ engines + 1 \in 1..MaxEngines
        /\ cell = 0 /\ cell' = 0 /\ initialising = Nobody /\ initialising' = o
    BY <1>5 DEF SharedInv, SharedOK
  <2>2. tickers[engines + 1] = 0 BY <2>1 DEF SharedInv
  <2>3. tickers' = [tickers EXCEPT ![engines + 1] = 1]
    BY <1>5, <2>2 DEF SharedInv, SharedOK
  <2>4. runtime' = [runtime EXCEPT ![o] = engines + 1] BY <1>5
  <2>5. runtime \in [Openers -> 0..engines] /\ tickers \in [1..MaxEngines -> Nat]
    BY DEF SharedInv, SharedOK
  <2>6. step'[o] \in Searching BY <1>1, <1>5 DEF assetVars, searchVars, Searching
  <2>7. SharedOK'
    <3>1. runtime' \in [Openers -> 0..engines'] BY <2>1, <2>4, <2>5
    <3>2. tickers' \in [1..MaxEngines -> Nat] BY <2>1, <2>3, <2>5
    <3>3. cell' \in 0..engines' /\ engines' \in 0..MaxEngines BY <2>1
    <3> QED BY <2>1, <2>6, <3>1, <3>2, <3>3 DEF SharedOK
  <2>8. \A e \in 1..MaxEngines : tickers'[e] = IF e <= engines' THEN 1 ELSE 0
    <3>1. \A e \in 1..MaxEngines : tickers[e] = IF e <= engines THEN 1 ELSE 0 BY DEF SharedInv
    <3> QED BY <2>1, <2>3, <2>5, <3>1
  <2>9. runtime'[o] # 0 BY <2>1, <2>4, <2>5
  <2>10. \A p \in Openers : runtime'[p] # 0 /\ p # o => runtime'[p] = cell'
    BY <2>1, <2>4, <2>5 DEF SharedInv
  <2> QED BY <1>2, <2>1, <2>7, <2>8, <2>9, <2>10 DEF SharedInv
<1>6. CASE SpawnFails(o)
  BY <1>1, <1>2, <1>6 DEF SpawnFails, Hinder, SharedInv, SharedOK, sharedVars
<1>7. CASE Locate(o)
  <2>1. /\ initialising = o /\ cell = 0 /\ runtime[o] # 0 /\ UNCHANGED <<engines, tickers>>
        /\ \A p \in Openers : p # o => runtime[p] = 0
    BY <1>1, <1>7 DEF Locate, SharedInv
  <2>2. step'[o] \in Searching \cup {"found", "failed"}
    BY <1>1, <1>7 DEF Locate, ResolveDir, CheckModule, LoadModule, Proceed, Searching
  <2>3. runtime \in [Openers -> 0..engines] /\ engines \in 0..MaxEngines
        /\ tickers \in [1..MaxEngines -> Nat]
    BY DEF SharedInv, SharedOK
  <2>4. \A e \in 1..MaxEngines : tickers'[e] = IF e <= engines' THEN 1 ELSE 0
    BY <2>1 DEF SharedInv
  <2>5. \A r \in Repros : guest'[r] # "none" => initialising' # r
    BY <1>1, <1>2, <1>7, ReprosAssumption DEF Locate, GuestsOK
  <2>6. CASE step'[o] = "found"
    <3>1. cell' = runtime[o] /\ initialising' = Nobody /\ runtime' = runtime
      BY <1>7, <2>6 DEF Locate
    <3> QED BY <2>1, <2>3, <2>4, <2>5, <3>1 DEF SharedInv, SharedOK
  <2>7. CASE step'[o] = "failed"
    <3>1. cell' = 0 /\ initialising' = Nobody /\ runtime' = [runtime EXCEPT ![o] = 0]
      BY <1>7, <2>1, <2>7 DEF Locate
    <3> QED BY <2>1, <2>3, <2>4, <2>5, <3>1 DEF SharedInv, SharedOK
  <2>8. CASE step'[o] \in Searching
    <3>1. cell' = 0 /\ initialising' = o /\ runtime' = runtime
      BY <1>7, <2>1, <2>8 DEF Locate, Searching
    <3> QED BY <2>1, <2>3, <2>4, <2>5, <2>8, <3>1 DEF SharedInv, SharedOK
  <2> QED BY <2>2, <2>6, <2>7, <2>8
<1>8. CASE DropRuntime(o)
  <2>1. initialising # o
    BY <1>1, <1>8 DEF DropRuntime, Answered, SharedInv, SharedOK, Searching
  <2>2. SharedOK'
    BY <1>1, <1>8, <2>1 DEF DropRuntime, Answered, SharedInv, SharedOK
  <2>3. \A p \in Openers : p # o => runtime'[p] = runtime[p]
    BY <1>8 DEF DropRuntime, SharedInv, SharedOK
  <2>4. runtime'[o] = 0 BY <1>8 DEF DropRuntime, SharedInv, SharedOK
  <2> QED BY <1>2, <1>8, <2>1, <2>2, <2>3, <2>4 DEF DropRuntime, SharedInv, SharedOK
<1> QED BY <1>3, <1>4, <1>5, <1>6, <1>7, <1>8 DEF Opener

LEMMA NextShared ==
  ASSUME AssetsOK, SharedInv, GuestsOK, [Next]_vars
  PROVE  SharedInv'
BY SharedKeepsAlone, SharedKeepsOpener DEF Next, SharedStep

----------------------------------------------------------------------------
(* The reproduction runs *)

Watched == {"running", "over"}

\* A call under watch has an engine of its own, any other has nothing left of
\* the call before it; a timer that still sleeps will fire late enough for the
\* call that has its engine, which it cannot be if another has armed it.
RunInv(r) ==
  /\ guest[r] \notin Watched =>
       /\ age[r] = 0 /\ verdict[r] = "none" /\ timeout[r] = NoTimeout
       /\ engine[r] = 0 /\ r \notin expired
  /\ guest[r] \in Watched => engine[r] # 0
  /\ \A q \in Repros : engine[q] = engine[r] /\ engine[r] # 0 => q = r
  /\ \A t \in timers : t.engine = engine[r] => timeout[r] - t.left <= age[r]
  /\ r \in expired => age[r] >= timeout[r]

ReproInv == ReproOK /\ \A r \in Repros : RunInv(r)

LEMMA RunTypes ==
  ASSUME ReproOK, NEW r \in Repros
  PROVE  /\ timeout[r] \in Int /\ timeout[r] <= MaxAge
         /\ age[r] \in 0..MaxAge /\ MaxAge \in Nat
<1>1. timeout[r] \in ReproTimeouts \cup {NoTimeout} /\ age[r] \in 0..MaxAge BY DEF ReproOK
<1>2. MaxAge \in Nat /\ ReproTimeouts \subseteq Nat \cup {NoTimeout}
      /\ \A t \in ReproTimeouts : t <= MaxAge
  BY ReprosAssumption
<1>3. -1 \in Int /\ -1 <= MaxAge BY <1>2
<1>4. CASE timeout[r] = NoTimeout BY <1>1, <1>2, <1>3, <1>4 DEF NoTimeout
<1>5. CASE timeout[r] \in ReproTimeouts /\ timeout[r] # NoTimeout
  <2>1. timeout[r] \in Nat BY <1>2, <1>5
  <2>2. timeout[r] <= MaxAge BY <1>2, <1>5
  <2> QED BY <1>1, <1>2, <2>1, <2>2
<1> QED BY <1>1, <1>4, <1>5

\* What the steps of a call leave alone.
OthersAlone(r) ==
  \A q \in Repros \ {r} : /\ guest'[q] = guest[q] /\ engine'[q] = engine[q]
                          /\ timeout'[q] = timeout[q] /\ age'[q] = age[q]
                          /\ verdict'[q] = verdict[q]
                          /\ q \in expired' <=> q \in expired

\* The steps of a call that starts, or is over, arm no timer.
LEMMA DropStoreKeeps ==
  ASSUME ReproInv, NEW r \in Repros, NEW to \in {"none", "starting"}, DropStore(r, to)
  PROVE  ReproInv'
<1>1. ReproOK'
  <2>1. 0 \in 0..made /\ 0 \in 0..MaxAge BY ReprosAssumption DEF ReproInv, ReproOK
  <2> QED BY <2>1 DEF ReproInv, ReproOK, DropStore
<1>2. RunInv(r)'
  <2>1. /\ guest'[r] = to /\ age'[r] = 0 /\ verdict'[r] = "none" /\ timeout'[r] = NoTimeout
        /\ engine'[r] = 0 /\ r \notin expired' /\ timers' = timers
    BY DEF ReproInv, ReproOK, DropStore
  <2>2. \A t \in timers : t.engine # 0 BY DEF ReproInv, ReproOK
  <2> QED BY <2>1, <2>2 DEF RunInv, Watched
<1>3. ASSUME NEW q \in Repros, q # r PROVE RunInv(q)'
  <2>1. OthersAlone(r) /\ timers' = timers BY DEF ReproInv, ReproOK, DropStore, OthersAlone
  <2>2. engine'[r] = 0 BY DEF ReproInv, ReproOK, DropStore
  <2> QED BY <1>3, <2>1, <2>2 DEF ReproInv, RunInv, OthersAlone
<1> QED BY <1>2, <1>1, <1>3 DEF ReproInv

LEMMA ArmKeeps ==
  ASSUME ReproInv, NEW r \in Repros, NEW timeoutMs \in ReproTimeouts,
         ArmTimeoutDeadline(r, timeoutMs)
  PROVE  ReproInv'
<1> USE DEF ReproInv, ArmTimeoutDeadline, NewEngine
<1> DEFINE new == [engine |-> made + 1, left |-> timeoutMs]
<1>1. /\ made \in Nat /\ made + 1 \in 1..MaxRepros /\ made' = made + 1
      /\ timeoutMs \in Int /\ (timeoutMs # NoTimeout => timeoutMs \in 0..MaxAge)
  BY ReprosAssumption DEF ReproOK, NoTimeout
<1>2. \A t \in timers' : t \in timers \/ t = new OBVIOUS
<1>3. \A t \in timers : t.engine \in 1..made BY DEF ReproOK
<1>4. \A q \in Repros : engine[q] \in 0..made BY DEF ReproOK
<1>5. engine' = [engine EXCEPT ![r] = made + 1] /\ timeout' = [timeout EXCEPT ![r] = timeoutMs]
      /\ guest' = [guest EXCEPT ![r] = "running"] /\ UNCHANGED <<expired, age, verdict>>
  OBVIOUS
<1>6. ReproOK'
  <2>1. timers' \subseteq [engine : 1..made', left : 0..MaxAge]
    <3>1. timers' = timers \cup IF timeoutMs = NoTimeout THEN {} ELSE {new} OBVIOUS
    <3>2. timers \subseteq [engine : 1..made, left : 0..MaxAge] BY DEF ReproOK
    <3>3. timers \subseteq [engine : 1..made', left : 0..MaxAge] BY <1>1, <3>2
    <3>4. timeoutMs # NoTimeout => new \in [engine : 1..made', left : 0..MaxAge] BY <1>1
    <3> QED BY <3>1, <3>3, <3>4
  <2>2. engine' \in [Repros -> 0..made'] BY <1>1, <1>4, <1>5 DEF ReproOK
  <2> QED BY <1>1, <1>5, <2>1, <2>2 DEF ReproOK
<1>7. RunInv(r)'
  <2>1. /\ guest'[r] = "running" /\ engine'[r] = made + 1 /\ timeout'[r] = timeoutMs
        /\ age'[r] = 0 /\ r \notin expired'
    BY <1>5 DEF RunInv, ReproOK, Watched
  <2>2. \A q \in Repros : q # r => engine'[q] # made + 1 BY <1>1, <1>4, <1>5 DEF ReproOK
  <2>3. \A t \in timers' : t.engine = made + 1 => t.left = timeoutMs BY <1>1, <1>2, <1>3
  <2> QED BY <1>1, <2>1, <2>2, <2>3 DEF RunInv, Watched
<1>8. ASSUME NEW q \in Repros, q # r PROVE RunInv(q)'
  <2>1. engine'[q] = engine[q] /\ timeout'[q] = timeout[q] /\ age'[q] = age[q]
        /\ guest'[q] = guest[q] /\ engine[q] # made + 1 /\ engine'[r] = made + 1
    BY <1>1, <1>4, <1>5, <1>8 DEF ReproOK
  <2>2. \A p \in Repros : p # r => engine'[p] = engine[p] BY <1>5 DEF ReproOK
  <2>3. \A t \in timers' : t.engine = engine[q] => t \in timers BY <1>2, <2>1
  <2>4. RunInv(q) OBVIOUS
  <2> QED BY <1>5, <2>1, <2>2, <2>3, <2>4 DEF RunInv
<1> QED BY <1>6, <1>7, <1>8

LEMMA ReportsKeeps ==
  ASSUME ReproInv, NEW r \in Repros, NEW how \in {"ok", "failed", "timed_out"}, Reports(r, how)
  PROVE  ReproInv'
<1>1. PICK v \in {how, "limit"} : verdict' = [verdict EXCEPT ![r] = v] BY DEF Reports
<1>2. ReproOK' BY <1>1 DEF Reports, ReproInv, ReproOK
<1>3. ASSUME NEW q \in Repros PROVE RunInv(q)'
  <2>1. guest'[q] \in Watched <=> guest[q] \in Watched
    BY DEF Reports, ReproInv, ReproOK, Watched
  <2>2. q # r => verdict'[q] = verdict[q] BY <1>1 DEF ReproInv, ReproOK
  <2>3. guest[r] \in Watched BY DEF Reports, Watched
  <2> QED BY <2>1, <2>2, <2>3 DEF Reports, ReproInv, RunInv
<1> QED BY <1>2, <1>3 DEF ReproInv

LEMMA TimerKeeps ==
  ASSUME ReproInv, NEW t \in timers, TimerFires(t)
  PROVE  ReproInv'
<1>1. ReproOK' BY DEF TimerFires, ReproInv, ReproOK
<1>2. ASSUME NEW r \in Repros PROVE RunInv(r)'
  <2>1. timers' \subseteq timers BY DEF TimerFires
  <2>2. r \in expired' <=> r \in expired \/ engine[r] = t.engine BY DEF TimerFires
  <2>3. engine[r] = t.engine => engine[r] # 0 /\ age[r] >= timeout[r]
    <3>1. t.engine \in 1..made /\ t.left = 0 BY DEF ReproInv, ReproOK, TimerFires
    <3>2. timeout[r] \in Int /\ age[r] \in Nat
      BY RunTypes DEF ReproInv
    <3> QED BY <3>1, <3>2 DEF ReproInv, RunInv
  <2> QED BY <2>1, <2>2, <2>3 DEF TimerFires, ReproInv, RunInv
<1> QED BY <1>1, <1>2 DEF ReproInv

LEMMA TimeKeeps ==
  ASSUME ReproInv, MillisecondPasses
  PROVE  ReproInv'
<1> USE DEF ReproInv
<1>1. UNCHANGED <<guest, made, engine, timeout, expired, verdict>> BY DEF MillisecondPasses
<1>2. MaxAge \in Nat BY ReprosAssumption
<1>3. \A r \in Repros : /\ timeout[r] \in Int /\ timeout[r] <= MaxAge /\ age[r] \in 0..MaxAge
  BY RunTypes
<1>4. ASSUME NEW t \in timers'
      PROVE  \E u \in timers : t.engine = u.engine /\ t.left = (IF u.left = 0 THEN 0 ELSE u.left - 1)
                               /\ t \in [engine : 1..made, left : 0..MaxAge]
  <2>1. PICK u \in timers : t = [u EXCEPT !.left = IF @ = 0 THEN 0 ELSE @ - 1]
    BY DEF MillisecondPasses
  <2>2. u \in [engine : 1..made, left : 0..MaxAge] BY DEF ReproOK
  <2>3. t.engine = u.engine /\ t.left = (IF u.left = 0 THEN 0 ELSE u.left - 1) BY <2>1, <2>2
  <2>4. t \in [engine : 1..made, left : 0..MaxAge] BY <1>2, <2>1, <2>2
  <2> QED BY <2>3, <2>4
<1>5. ASSUME NEW r \in Repros
      PROVE  /\ guest[r] \notin Watched => age'[r] = age[r]
             /\ guest[r] \in Watched => age'[r] = IF age[r] = MaxAge THEN MaxAge ELSE age[r] + 1
             /\ age'[r] \in 0..MaxAge /\ age'[r] >= age[r]
  BY <1>2, <1>3 DEF MillisecondPasses, ReproOK, Watched
<1>6. ReproOK'
  <2>1. age' \in [Repros -> 0..MaxAge]
    <3>1. age' = [r \in Repros |-> age'[r]] BY DEF MillisecondPasses
    <3> QED BY <1>5, <3>1
  <2>2. timers' \subseteq [engine : 1..made, left : 0..MaxAge] BY <1>4
  <2> QED BY <1>1, <2>1, <2>2 DEF ReproOK
<1>7. ASSUME NEW r \in Repros PROVE RunInv(r)'
  <2>1. ASSUME NEW t \in timers', t.engine = engine[r] PROVE timeout[r] - t.left <= age'[r]
    <3>1. PICK u \in timers : t.engine = u.engine /\ t.left = IF u.left = 0 THEN 0 ELSE u.left - 1
      BY <1>4
    <3>2. timeout[r] - u.left <= age[r] BY <2>1, <3>1 DEF RunInv
    <3>3. engine[r] # 0 BY <2>1, <3>1 DEF ReproOK
    <3>4. guest[r] \in Watched BY <3>3 DEF RunInv
    <3>5. u.left \in Nat BY DEF ReproOK
    <3> QED BY <1>2, <1>3, <1>5, <3>1, <3>2, <3>4, <3>5
  <2>2. r \in expired => age'[r] >= timeout[r] BY <1>3, <1>5 DEF RunInv
  <2> QED BY <1>1, <1>5, <2>1, <2>2 DEF RunInv
<1> QED BY <1>6, <1>7

LEMMA ReproKeeps ==
  ASSUME ReproInv, NEW r \in Repros, Repro(r)
  PROVE  ReproInv'
<1>1. CASE UNCHANGED reproVars
  BY <1>1 DEF reproVars, ReproInv, ReproOK, RunInv
<1>2. CASE CallRepro(r)
  <2>1. ReproOK' BY <1>2 DEF CallRepro, ReproInv, ReproOK
  <2>2. \A q \in Repros : guest'[q] \in Watched <=> guest[q] \in Watched
    BY <1>2 DEF CallRepro, ReproInv, ReproOK, Watched
  <2> QED BY <1>2, <2>1, <2>2 DEF CallRepro, ReproInv, RunInv
<1>3. CASE GuestEnds(r) \/ ReproInterrupted(r)
  BY <1>3, ReportsKeeps DEF GuestEnds, ReproInterrupted
<1>4. CASE InstantiateFails(r) \/ ReproReturns(r)
  BY <1>4, DropStoreKeeps DEF InstantiateFails, ReproReturns
<1> QED BY <1>1, <1>2, <1>3, <1>4, ArmKeeps DEF Repro, LocateRepro, ReproFails

LEMMA NextRepro ==
  ASSUME ReproInv, [Next]_vars
  PROVE  ReproInv'
<1>1. CASE UNCHANGED reproVars
  BY <1>1 DEF reproVars, ReproInv, ReproOK, RunInv
<1> QED BY <1>1, ReproKeeps, TimerKeeps, TimeKeeps
        DEF Next, SharedStep, ReproStep, AssetsStep, Timers, vars

----------------------------------------------------------------------------
(* All of them *)

ProcessInv == AssetsInv /\ SharedInv /\ ReproInv

LEMMA AlwaysProcess == Spec => []ProcessInv
<1>1. Init => ReproInv
  <2>1. Init => ReproOK BY ReprosAssumption DEF Init, ReproInit, ReproOK
  <2> QED BY <2>1 DEF Init, ReproInit, ReproInv, RunInv, Watched
<1>2. Init => SharedInv
  BY OpenersAssumption DEF Init, SharedInit, ReproInit, SharedInv, SharedOK
<1>3. AssetsInv /\ SharedInv /\ ReproInv /\ [Next]_vars => SharedInv'
  BY NextShared DEF AssetsInv, ReproInv, ReproOK, GuestsOK
<1> QED BY <1>1, <1>2, <1>3, AlwaysAssets, NextRepro, PTL DEF Spec, ProcessInv

(***************************************************************************)
(* Type correctness, with who may be in the middle of initialising.        *)
(***************************************************************************)
THEOREM TypeCorrect == Spec => []TypeOK
<1>1. ProcessInv => TypeOK BY DEF ProcessInv, AssetsInv, SharedInv, ReproInv, TypeOK
<1> QED BY <1>1, AlwaysProcess, PTL

(***************************************************************************)
(* Every runtime is the one of the cell, with one ticker, however many     *)
(* attempts to make it failed.                                             *)
(***************************************************************************)
THEOREM RuntimeAlwaysShared == Spec => []RuntimeShared
<1>1. ASSUME SharedInv PROVE RuntimeShared
  <2>1. ASSUME NEW o \in Openers, runtime[o] # 0, initialising # o
        PROVE  runtime[o] = cell /\ tickers[cell] = 1
    <3>1. runtime[o] = cell BY <1>1, <2>1 DEF SharedInv
    <3>2. cell \in 1..engines /\ engines \in 0..MaxEngines /\ MaxEngines \in Nat
      BY <1>1, <2>1, <3>1, OpenersAssumption DEF SharedInv, SharedOK
    <3> QED BY <1>1, <3>1, <3>2 DEF SharedInv
  <2> QED BY <2>1 DEF RuntimeShared
<1> QED BY <1>1, AlwaysProcess, PTL DEF ProcessInv

\* Every step of the process is one of Watchdog, or leaves its calls alone.
LEMMA ReproIsWatchdogStep ==
  ASSUME ReproInv, [Next]_vars
  PROVE  [Dog!Next]_Dog!watchVars
<1> USE DEF Dog!watchVars, ReproInv, ReproOK
<1>1. ASSUME NEW r \in Repros, NEW t \in ReproTimeouts, ArmTimeoutDeadline(r, t)
      PROVE  Dog!Watch(r, t)
  <2>1. guest[r] = "starting" /\ age[r] = 0 /\ verdict[r] = "none"
    BY <1>1 DEF ArmTimeoutDeadline, RunInv, Watched
  <2> QED BY <1>1, <2>1 DEF ArmTimeoutDeadline, Dog!Watch, Dog!Reset
<1>2. ASSUME NEW r \in Repros, NEW to \in {"none", "starting"}, DropStore(r, to),
             guest[r] \in Watched
      PROVE  Dog!Forget(r)
  BY <1>2 DEF DropStore, Watched, Dog!Forget, Dog!Reset, Dog!Unlimited, NoTimeout
<1>3. ASSUME NEW r \in Repros, NEW to \in {"none", "starting"}, DropStore(r, to),
             guest[r] \notin Watched
      PROVE  UNCHANGED Dog!watchVars
  <2>1. /\ age[r] = 0 /\ verdict[r] = "none" /\ timeout[r] = NoTimeout
    BY <1>3 DEF RunInv
  <2> QED BY <1>3, <2>1 DEF DropStore, Watched
<1>4. ASSUME NEW r \in Repros, NEW how \in {"ok", "failed"}, Reports(r, how)
      PROVE  Dog!Finish(r)
  BY <1>4 DEF Reports, Dog!Finish, Dog!End
<1>5. ASSUME NEW r \in Repros, ReproInterrupted(r) PROVE Dog!Finish(r) \/ Dog!TimeOut(r)
  <2>1. timeout[r] # NoTimeout /\ r \in expired /\ Reports(r, "timed_out")
    BY <1>5 DEF ReproInterrupted, EpochInterruption
  <2>2. age[r] >= timeout[r] - 0 BY <2>1, RunTypes DEF RunInv
  <2>3. PICK v \in {"timed_out", "limit"} : verdict' = [verdict EXCEPT ![r] = v]
    BY <2>1 DEF Reports
  <2>4. CASE v = "limit" BY <2>1, <2>3, <2>4 DEF Reports, Dog!Finish, Dog!End
  <2>5. CASE v = "timed_out"
    <3>1. Dog!End(r, "timed_out") BY <2>1, <2>3, <2>5 DEF Reports, Dog!End
    <3> QED BY <2>1, <2>2, <3>1 DEF Dog!TimeOut, Dog!Unlimited, NoTimeout
  <2> QED BY <2>3, <2>4, <2>5
<1>6. ASSUME NEW r \in Repros, CallRepro(r) PROVE UNCHANGED Dog!watchVars
  BY <1>6 DEF CallRepro
<1>7. CASE MillisecondPasses
  BY <1>7 DEF MillisecondPasses, Dog!Next, Dog!Elapse
<1>8. CASE Timers BY <1>8 DEF Timers, TimerFires
<1>9. CASE UNCHANGED reproVars BY <1>9 DEF reproVars
<1>10. ASSUME NEW r \in Repros, Repro(r) PROVE [Dog!Next]_Dog!watchVars
  BY <1>1, <1>2, <1>3, <1>4, <1>5, <1>6, <1>9, <1>10
     DEF Repro, LocateRepro, ReproFails, GuestEnds, InstantiateFails, ReproReturns, Dog!Next
<1> QED BY <1>7, <1>8, <1>9, <1>10 DEF Next, SharedStep, ReproStep, AssetsStep, vars

(***************************************************************************)
(* The timer threads implement Watchdog without grace: no call is reported *)
(* as timed out before its timeout, whichever timers still sleep.          *)
(***************************************************************************)
THEOREM ReproImplementsWatchdog == Spec => ReproWatchdog
<1>1. Init => Dog!Init
  BY DEF Init, ReproInit, Dog!Init, Dog!Unlimited, NoTimeout
<1> QED BY <1>1, ReproIsWatchdogStep, AlwaysProcess, PTL
        DEF Spec, ProcessInv, ReproWatchdog, Dog!Spec
=============================================================================
