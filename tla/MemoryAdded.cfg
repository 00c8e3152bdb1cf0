SPECIFICATION Spec
CONSTANTS
  NumPages = 8
  HeapStart = 0
  Values <- Bits
  Registers <- Bits
  Zero = 0
  InitialAreas <- LargeMapping
  InitialPage <- Alternating
  Descriptors = {}
  Parallelism = 2
  Behaviours <- AddsMemory
  MaxCheckpoints = 1
INVARIANTS
  ReturnsToFirstCheckpoint
