CONSTANTS
  m1 = m1
  k1 = k1
  NoId = NoId
  Ids = {m1, k1}
  Kickoffs = {k1}
  Commands = {"set_model"}
  RecentLimit = 1
  MaxRetries = 1
  MaxLoops = 2
  CheckEvery = 2
  MaxDrain = 3
  MaxSends = 2
  MaxCommands = 1
SPECIFICATION Spec
INVARIANT NoPromptSwept
CHECK_DEADLOCK FALSE
