SPECIFICATION FairSpec
CONSTANTS
  Combos = {c1, c2}
  Services <- TwoServices
  Checked = {"db"}
INVARIANTS
  CleanAfterStop
  ServicesReadyFirst
PROPERTIES
  AllSettle
