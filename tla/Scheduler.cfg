SPECIFICATION Spec
CONSTANTS
  PoolSize = 2
  Functions = {f1, f2}
  Calls = {c1, c2, c3}
  None = None
  Faults <- AllFaults
SYMMETRY Symmetric
INVARIANTS TypeOK ExclusiveWorker RightFunction ProcessContents DeployedHasTimer
PROPERTY ImplementsLease
