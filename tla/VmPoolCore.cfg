SPECIFICATION Spec
CONSTANTS
  Vms = {v1, v2, v3, v4}
  NoVm = NoVm
  MinWarm = 1
  MaxWarm = 3
  PreferredReady = 1
  HostCap = 3
  ScaleOutPercent = 70
  ScaleInThreshold = 1
  ScaleInAfter = 2
  CreateTimeout = 1
  DrainTimeout = 1
  ReadyAfter = {0, 1, 2}
  RequestTimeouts = {0, 1, 2}
  Faults = {"health", "scrub"}
  MaxTime = 5
  MaxInstant = 99
  MaxCount = 0
SYMMETRY Symmetry
INVARIANTS
  TypeOK
  HandlesValid
  NoOrphanedLease
  HostWithinCap
PROPERTIES
  NoLateWarm
  ScaleInSustained
  LifecycleSpec
