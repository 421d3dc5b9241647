CONSTANTS
  BucketCount = 3
  BucketBytes = 2
  Kinds = {"prompt", "bootstrap", "answer", "timer"}
  Sizes = {1, 3}
  MaxBatch = 2
  MaxItems = 5
SPECIFICATION Spec
INVARIANTS TypeOK EachItemInOnePlace DispatchedInArrivalOrder
CHECK_DEADLOCK FALSE
