SPECIFICATION Spec
CONSTANTS
  Ids <- MCIds
  Action <- MCAction
  JobSteps <- MCJobSteps
  BackendOf <- MCBackendOf
  MaxDepth = 10
  None = None
INVARIANT MaskedInLaterReports
