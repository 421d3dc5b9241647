SPECIFICATION FairSpec
CONSTANTS
  Attempts = {a1}
  NoAttempt = NoAttempt
  a1 = a1
  Stored = TRUE
  MinAge = 1
  MaxRetries = 1
PROPERTY
  AttemptEnds
CHECK_DEADLOCK FALSE
