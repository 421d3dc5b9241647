CONSTANTS
  m1 = m1
  NoId = NoId
  Ids = {m1}
  Kickoffs = {}
  Commands = {"set_model", "regenerate", "cancel_regen", "get_info", "done"}
  RecentLimit = 1
  MaxRetries = 1
  MaxLoops = 2
  CheckEvery = 2
  MaxDrain = 2
  MaxSends = 2
  MaxCommands = 2
SPECIFICATION FairSpec
PROPERTY EveryPromptSettles
CHECK_DEADLOCK FALSE
