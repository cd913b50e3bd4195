CONSTANTS
  Invalid = Invalid
  Thread = {t1, t2}
  Fd = {f1, f2}
  MaxCalls = 3
  MaxAttempts = 1
  Requests <- MCGoodRequests
SPECIFICATION Spec
INVARIANTS
  OwnDescriptor
  DescriptorsAccounted
  NoCrossTalk
PROPERTY ImplementsApi
CHECK_DEADLOCK FALSE
