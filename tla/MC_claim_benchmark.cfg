SPECIFICATION Spec
CONSTANTS
  p = p
  a = a
  b = b
  Prefiller = p
  AgentA = a
  AgentB = b
  NoThread = NoThread
  Staging = Staging
  Node <- MCNode
  Prefillers <- MCPrefillers
  Name <- MCNode
  Pipelines <- BenchmarkPipelines
  ChunkTokens = 2
  NCtx = 7
  Headroom = 1
  PrefillFaults = {}
  BranchFaults = {}
  HarnessFaults = {}
INVARIANT AgentsStart
CHECK_DEADLOCK FALSE
