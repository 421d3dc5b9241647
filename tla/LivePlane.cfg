SPECIFICATION Spec
CONSTANTS
  MaxTurns = 2
  MaxStreams = 2
  MaxText = 2
  MaxDeltas = 1
  MaxLag = 2
  Large = {2}
  MaxFaults = 1
  MaxWork = 3
INVARIANTS TypeOK RowEndsIdle NewestArrives
PROPERTIES NoRevival PreviewsGrow
CHECK_DEADLOCK FALSE
