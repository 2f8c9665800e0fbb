SPECIFICATION FairSpec
CONSTANTS
  o1 = o1
  r1 = r1
  p1 = p1
  p2 = p2
  Seekers <- MCSeekers
  Openers = {o1, r1}
  Repros = {r1}
  Places = {p1, p2}
  Candidates <- MCCandidates
  Overrides = {Unset, p2}
  Unset = Unset
  Nobody = Nobody
  MaxEngines = 2
  MaxRepros = 2
  ReproTimeouts <- MCTimeouts
  MaxAge = 1
INVARIANTS TypeOK ErrorsAreCurrent RuntimeShared
PROPERTIES ReproWatchdog ReproTimeoutFires
