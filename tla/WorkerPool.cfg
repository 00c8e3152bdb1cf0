SPECIFICATION AllFairSpec
CONSTANTS
  w1 = w1
  w2 = w2
  w3 = w3
  Workers = {w1, w2, w3}
  python = python
  java = java
  Runtimes = {python, java}
  Configurations <- Pools
  Contained <- KindsOfFunction
  Faults = {"snapshot", "container", "task", "wait", "run", "ip", "exit", "activate", "kill", "delete", "remove"}
  PoolFaults = {"download", "server", "connect", "layers", "client", "signal", "remove"}
  l1 = l1
  l2 = l2
  Layers <- TwoLayers
  Callers = {c1, c2}
  LayerFaults = {"mount", "apply", "commit", "file", "crash", "unmount"}
  Files = {file1, file2}
  layer = layer
  Versions = 2
  MaxLen = 3
  None = None
INVARIANTS EndKillsProcess OpensComplete ClosedIsGone LayersAreUnpacked CacheIsAnswer
PROPERTY CloseReturns
CHECK_DEADLOCK FALSE
