SPECIFICATION MCFairSpec
CONSTANTS
  Handlers = {h1, h2, h3, h4, h5}
  Last = h5
  Clients = 1
  Faults = {"load", "raise", "print", "garble"}
  Functions = {f1, f2}
  None = None
  Processes = {p1, p2, p3}
  Services = {service1, service2}
  Nowhere = nowhere
  Empty = Empty
  Overlay <- ShortOverLong
INVARIANTS SerialIsQuiet RunsOnce FunkServedWhereSaved
PROPERTIES OwnAnswer CommandsReturn
CHECK_DEADLOCK FALSE
