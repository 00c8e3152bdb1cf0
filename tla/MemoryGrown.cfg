SPECIFICATION Spec
CONSTANTS
  NumPages = 6
  HeapStart = 0
  Values <- Bits
  Registers <- OneValue
  Zero = 0
  InitialAreas <- WithStack
  InitialPage <- Alternating
  Descriptors = {}
  Parallelism = 2
  Behaviours <- Grows
  MaxCheckpoints = 1
INVARIANTS
  SavedPagesStay
