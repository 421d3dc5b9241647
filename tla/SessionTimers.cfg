SPECIFICATION FairSpec
CONSTANTS
  Second = 3
  WaitSeconds = {1}
  PauseSeconds = 1
  Interval = 2
  Period = 2
  MaxFires = 3
  Hold = 2
  LongHold = 2
  Grace = 1
  Window = 1
  Kinds = {"prompt", "answer", "update", "failure", "report", "set_model"}
  Results = {"completed", "stopped", "wait", "refused", "asks", "cancelled", "failed"}
  MaxMessages = 2
INVARIANTS
  TypeOK
  RecurringAlive
  WaitKept
PROPERTIES
  PauseNotResumed
  WallClockOnTime
  CronKeepsWaking
