SPECIFICATION Spec
CONSTANTS
  r1 = r1
  r2 = r2
  r3 = r3
  s1 = s1
  s2 = s2
  s3 = s3
  base = base
  full = full
  other = other
  Runs = {r1, r2, r3}
  Saves = {s1, s2, s3}
  Keys = {base, full, other}
  Extends <- MCExtends
  v1 = v1
  v2 = v2
  Versions = {v1, v2}
  Chunks = {1, 2}
  None = None
SYMMETRY Symmetry
INVARIANTS
  ServedBlobsAreWhole
  FindIsBest
  SavedIsRestorable
CHECK_DEADLOCK FALSE
