\* Jobs of up to three steps.
SPECIFICATION SpecData
CONSTANTS
  None = None
  Ids <- MCIds
  Action <- MCAction
  JobSteps <- MCJobSteps
  BackendOf <- MCBackendOf
  MaxDepth = 2
  MaxSteps = 3
  Exprs <- MCExprs
  Upper <- MCUpper
  EnvLayers <- MCEnvLayers
  GitHub <- MCGitHub
  Contexts <- MCContexts
  JobOutputs <- MCJobOutputs
INVARIANTS
  ReadAsMeant
  EnvInProgramOrder
  PostSeesItsMain
  OutputsBridge
