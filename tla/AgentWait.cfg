CONSTANTS
  c1 = c1
  Children = {c1}
  Commands = {"done", "set_model"}
  MaxPolls = 1
  MaxPrompts = 1
  MaxCommands = 1
  MaxReports = 1
SPECIFICATION FairSpec
INVARIANTS TypeOK WaitsAreWatched
PROPERTY WatchedEnds
CHECK_DEADLOCK FALSE
