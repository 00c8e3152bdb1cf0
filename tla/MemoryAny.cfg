SPECIFICATION Spec
CONSTANTS
  NumPages = 3
  HeapStart = 0
  Values <- Bits
  Registers <- OneValue
  Zero = 0
  InitialAreas <- Tight
  InitialPage <- Alternating
  Descriptors = {fd}
  Parallelism = 2
  Behaviours <- AllBehaviours
  MaxCheckpoints = 1
INVARIANTS TypeOK CleanPagesAreSaved SavedPagesRestored
