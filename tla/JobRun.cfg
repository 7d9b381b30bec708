SPECIFICATION FairSpec
CONSTANTS
  Ids <- MCIds
  Action <- MCAction
  JobSteps <- MCJobSteps
  BackendOf <- MCBackendOf
  MaxDepth = 10
  None = None
INVARIANTS
  FailsOnFirstUnhandled
  PostsMirrorMains
  MaskedInLaterSteps
  PostFindsOwnAction
PROPERTIES
  FitsTheMatrix
  AlwaysReturns
