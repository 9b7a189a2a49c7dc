SPECIFICATION FairSpec
CONSTANTS
  p = p
  a = a
  b = b
  ghost = ghost
  NoThread = NoThread
  Staging = Staging
  Node <- MCNode
  Prefillers <- MCPrefillers
  Name <- MCName
  Pipelines <- AuditPipelines
  ChunkTokens = 2
  NCtx = 5
  Headroom = 1
  PrefillFaults = {"decode"}
  BranchFaults = {}
  SpawnFaults = FALSE
PROPERTY PrefillFailureWakesDependents
CHECK_DEADLOCK FALSE
