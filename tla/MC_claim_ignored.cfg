SPECIFICATION Spec
CONSTANTS
  p = p
  a = a
  b = b
  ghost = ghost
  NoThread = NoThread
  Staging = Staging
  Node <- MCNode
  Prefillers <- MCPrefillers
  Name <- MCName
  Pipelines <- AuditPipelines
  ChunkTokens = 2
  NCtx = 5
  Headroom = 1
  PrefillFaults = {"init"}
  BranchFaults = {}
  SpawnFaults = FALSE
INVARIANT FailureReachesDependents
CHECK_DEADLOCK FALSE
