\* Three concurrent calls, two versions of the ref.
CONSTANTS
  c1 = c1
  c2 = c2
  c3 = c3
  Calls = {c1, c2, c3}
  marker = marker
  oldFile = oldFile
  Files <- MCFiles
  Marker = marker
  NoDir = NoDir
  Contents <- MCContents
SPECIFICATION Spec
SYMMETRY CallSymmetry
INVARIANT CopiesAreWhole
PROPERTY WarmStaysWarm
\* Every call may have ended.
CHECK_DEADLOCK FALSE
