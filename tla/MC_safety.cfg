SPECIFICATION Spec
CONSTANTS
  p = p
  a = a
  b = b
  ghost = ghost
  NoThread = NoThread
  Staging = Staging
  Node <- MCNode
  Prefillers <- MCPrefillers
  Name <- MCName
  Pipelines <- AllPipelines
  ChunkTokens = 2
  NCtx = 5
  Headroom = 1
  PrefillFaults = {"init", "tokenize", "decode", "capacity", "export", "restore"}
  BranchFaults = {"alloc", "capacity", "init", "restore", "tokenize", "decode"}
  SpawnFaults = TRUE
SYMMETRY Swap
INVARIANTS
  TypeOK
  GuardHeldInScope
  ConsumersCounted
  PrefillWaitsForConsumers
  NoLostWakeup
  WokenBranchFindsSnapshot
  DependenciesRespected
  JoinBeforeTeardown
  OutputMeansSuccess
  AdmittedNeverRefused
  UnsatisfiableNeverReturns
  OverlapOnlyBeforeRelease
PROPERTY SnapshotsImmutable
CHECK_DEADLOCK FALSE
