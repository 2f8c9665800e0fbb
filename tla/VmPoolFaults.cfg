SPECIFICATION Spec
CONSTANTS
  Vms = {v1, v2, v3}
  NoVm = NoVm
  MinWarm = 1
  MaxWarm = 2
  PreferredReady = 1
  HostCap = 2
  ScaleOutPercent = 70
  ScaleInThreshold = 1
  ScaleInAfter = 1
  CreateTimeout = 1
  DrainTimeout = 1
  ReadyAfter = {0, 2}
  RequestTimeouts = {0, 1, 9}
  Faults = {"create", "health", "scrub", "destroy", "clock", "clone"}
  MaxTime = 1
  MaxInstant = 2
  MaxCount = 5
SYMMETRY Symmetry
INVARIANTS
  MetricsConserve
  Settled
PROPERTIES
  LostOnlyOnError
  LeaksOnlyOnError
