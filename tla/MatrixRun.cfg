SPECIFICATION FairSpec
CONSTANTS
  N = 3
  g1 = g1
  Groups = {g1}
  NoGroup = NoGroup
  BadGroup = BadGroup
  None = None
  Jobs <- MCJobs
INVARIANTS
  TypeOK
  MaxParallelRespected
  StartsInIndexOrder
  FailFastDrains
  QueueExclusive
  RegistrationIsLive
  NothingLeaked
  SuccessMeansAllSucceeded
  SerialOutputsAreLast
PROPERTIES
  CancelledOnlyByNewcomer
  Refines
  AllConclude
