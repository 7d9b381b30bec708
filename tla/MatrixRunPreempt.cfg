SPECIFICATION Spec
CONSTANTS
  N = 4
  g1 = g1
  Groups = {g1}
  NoGroup = NoGroup
  BadGroup = BadGroup
  None = None
  Jobs <- PreemptingJobs
INVARIANT OneUncancelledHolder
