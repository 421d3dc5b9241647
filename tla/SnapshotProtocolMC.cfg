SPECIFICATION Spec
CONSTANTS
  Workers = {w1, w2}
  MaxTurns = 2
  MaxAttempts = 3
  MaxFaults = 1
  MaxEpoch = 1
  MaxWork = 4
INVARIANTS
  TypeOK
  LocalIsTrue
  NoResurrection
  SupersededOnlyIfOvertaken
PROPERTIES
  ImplementsMemory
CHECK_DEADLOCK FALSE
SYMMETRY WorkerSymmetry
