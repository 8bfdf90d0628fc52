CONSTANTS
  Jobs = {1, 2, 3}
  NoJob = 0
  Max = 2
SPECIFICATION Spec
INVARIANTS
  NoClientLeaks
  LockHasAClient
PROPERTIES
  ExitCutsNoTransaction
  DrainEnds
  EveryRequestEnds
