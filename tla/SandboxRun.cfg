SPECIFICATION Spec
CONSTANTS
  a = a
  ab = ab
  d = d
  internal = internal
  Runs = {r1, r2}
  Paths <- MCPaths
  InternalPaths = {internal}
  Ancestor <- MCAncestor
  Contents = {c}
  NoFile = NoFile
  HostPaths = {d}
  Limits = {0, 1}
  MaxWanted = 2
SYMMETRY Symmetry
INVARIANTS
  TypeOK
  AlwaysMaterializable
  FailureLeavesFiles
  OkMeansComplete
PROPERTIES
  OnlyGuestChanges
