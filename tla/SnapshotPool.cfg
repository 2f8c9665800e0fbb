SPECIFICATION FairSystem
CONSTANTS
  Vms = {v1, v2}
  NoVm = NoVm
  Snapshots = {s1, s2}
  NoSnapshot = NoSnapshot
  MinWarm = 1
  MaxWarm = 2
  PreferredReady = 1
  HostCap = 2
  ScaleOutPercent = 70
  ScaleInThreshold = 1
  ScaleInAfter = 1
  CreateTimeout = 1
  DrainTimeout = 1
  ReadyAfter = {1, 2}
  RequestTimeouts = {0, 1, 3}
  Faults = {"create"}
  MaxTime = 3
  MaxInstant = 99
  MaxCount = 0
INVARIANTS
  SystemOK
  FailsOnce
  FloorRestored
  TimedOutMeansBusy
PROPERTIES
  ProviderSpec
  PoolSurvivesRestores
  CallReturns
