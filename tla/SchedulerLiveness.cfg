SPECIFICATION FairSpec
CONSTANTS
  PoolSize = 2
  Functions = {f1, f2}
  Calls = {c1, c2, c3}
  None = None
  Faults <- NoFaults
INVARIANT WorkerAccounted
PROPERTIES IdleDecommissioned CallReturnsUnlessStalled
