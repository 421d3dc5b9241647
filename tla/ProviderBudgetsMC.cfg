SPECIFICATION FairSpec
CONSTANTS
  s1 = s1
  s2 = s2
  Sessions = {s1, s2}
  Users = {s1, s2}
  Owner <- OwnerOfEach
  Limits = {2}
  Shares = {50, 100}
  Tokens = {1}
  MaxTokens = 1
  MaxPrompts = 2
  MaxRetries = 2
  MaxChanges = 1
  MaxFaults = 1
INVARIANTS
  TypeOK
  MetersMatchLedger
  OvershootBounded
  SleepersAreListed
PROPERTIES
  RefusedPromptsKept
  RefusedServed
CHECK_DEADLOCK FALSE
