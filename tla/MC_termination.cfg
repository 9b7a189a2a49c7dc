SPECIFICATION FairSpec
CONSTANTS
  p = p
  a = a
  b = b
  ghost = ghost
  NoThread = NoThread
  Staging = Staging
  Node <- MCNode
  Prefillers <- MCPrefillers
  Name <- MCName
  Pipelines <- SatisfiablePipelines
  ChunkTokens = 2
  NCtx = 5
  Headroom = 1
  PrefillFaults = {}
  BranchFaults = {"alloc", "decode"}
  SpawnFaults = FALSE
INVARIANT AtMostTwoContexts
PROPERTY PipelineTerminates
