SPECIFICATION Spec
CONSTANTS
  Vms = {v1, v2, v3}
  NoVm = NoVm
  MinWarm = 1
  MaxWarm = 2
  PreferredReady = 1
  HostCap = 2
  ScaleOutPercent = 70
  ScaleInThreshold = 1
  ScaleInAfter = 2
  CreateTimeout = 1
  DrainTimeout = 1
  ReadyAfter = {0, 1}
  RequestTimeouts = {0, 1}
  Faults = {"scrub", "destroy"}
  MaxTime = 2
  MaxInstant = 99
  MaxCount = 0
SYMMETRY Symmetry
INVARIANTS
  HostWithinCap
