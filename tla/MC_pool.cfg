SPECIFICATION Spec
CONSTANTS
  Thread = {t1, t2, t3}
  Nobody = Nobody
  Buffer = {b1, b2, b3, b4}
  PoolFaults = {"init", "alloc"}
INVARIANTS
  PoolTypeOK
  MutexHeldInCall
  RegistryExact
  DestroyedPoolIsEmpty
PROPERTY ImplementsMemoryPool
CHECK_DEADLOCK FALSE
