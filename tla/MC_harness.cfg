SPECIFICATION FairSpec
CONSTANTS
  p = p
  a = a
  b = b
  Prefiller = p
  AgentA = a
  AgentB = b
  NoThread = NoThread
  Staging = Staging
  Node <- MCNode
  Prefillers <- MCPrefillers
  Name <- MCNode
  Pipelines <- HarnessPipelines
  ChunkTokens = 2
  NCtx = 7
  Headroom = 1
  PrefillFaults = {"init", "tokenize", "decode", "capacity", "export", "restore"}
  BranchFaults = {"alloc", "capacity", "init", "restore", "tokenize", "decode"}
  HarnessFaults = {"build", "write", "tokenize", "baseline", "alloc", "thread"}
INVARIANTS
  HarnessTypeOK
  TeardownAfterPrefiller
  ReturnMeansWholeRun
  BudgetCheckSuffices
PROPERTY HarnessEndsOrStrands
CHECK_DEADLOCK FALSE
