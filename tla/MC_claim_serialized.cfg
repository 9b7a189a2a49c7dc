SPECIFICATION Spec
CONSTANTS
  p = p
  a = a
  b = b
  ghost = ghost
  NoThread = NoThread
  Staging = Staging
  Node <- MCNode
  Prefillers <- MCPrefillers
  Name <- MCName
  Pipelines <- RootedPipelines
  ChunkTokens = 2
  NCtx = 5
  Headroom = 1
  PrefillFaults = {}
  BranchFaults = {}
  SpawnFaults = FALSE
INVARIANT LlamaCallsSerialized
CHECK_DEADLOCK FALSE
