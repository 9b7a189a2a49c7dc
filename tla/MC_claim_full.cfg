SPECIFICATION Spec
CONSTANTS
  p = p
  a = a
  b = b
  ghost = ghost
  NoThread = NoThread
  Staging = Staging
  Node <- MCNode
  Prefillers <- MCPrefillers
  Name <- MCName
  Pipelines <- AuditPipelines
  ChunkTokens = 2
  NCtx = 5
  Headroom = 1
  PrefillFaults = {}
  BranchFaults = {}
  SpawnFaults = FALSE
INVARIANT FullPrefillForksWholeDocument
CHECK_DEADLOCK FALSE
