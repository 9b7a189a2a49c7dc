SPECIFICATION Spec
CONSTANTS
  p = p
  a = a
  b = b
  ghost = ghost
  NoThread = NoThread
  Staging = Staging
  Node <- MCNode
  Prefillers <- MCPrefillers
  Name <- MCName
  Pipelines <- AllPipelines
  ChunkTokens = 2
  NCtx = 5
  Headroom = 1
  PrefillFaults = {"decode"}
  BranchFaults = {"alloc", "decode"}
  SpawnFaults = FALSE
SYMMETRY Swap
INVARIANTS
  BranchContinuesItsPrefix
  PrefillContinuesDocument
PROPERTY ImplementsSharedPrefix
CHECK_DEADLOCK FALSE
