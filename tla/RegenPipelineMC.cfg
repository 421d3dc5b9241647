SPECIFICATION Spec
CONSTANTS
  Attempts = {a1, a2}
  NoAttempt = NoAttempt
  a1 = a1
  a2 = a2
  Stored = TRUE
  MinAge = 1
  MaxRetries = 0
INVARIANTS
  TypeOK
  EpochsCounted
  NoFlipOverwritten
  ProofIsStored
  NoStrayDistiller
SYMMETRY AttemptSymmetry
CHECK_DEADLOCK FALSE
