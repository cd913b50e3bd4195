CONSTANTS
  Chunk = 3
  W = 12
  DataLens <- MCDataLens
SPECIFICATION FairSpec
INVARIANTS
  TypeOK
  ExactDelivery
  RetryRepeatsCall
  OverrunOnlyNearLimit
  CallsBounded
PROPERTY Returns
CHECK_DEADLOCK FALSE
