CONSTANTS
  r1 = r1
  r2 = r2
  n1 = n1
  n2 = n2
  Releases = {r1, r2}
  Names = {n1, n2}
  FileName <- MCFileName
  MaxAttempts = 2
  Interruptions = FALSE
SPECIFICATION Spec
INVARIANT MetadataHonest
