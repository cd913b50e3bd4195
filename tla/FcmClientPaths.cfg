CONSTANTS
  Invalid = Invalid
  Thread = {t1, t2}
  Fd = {f1}
  MaxCalls = 2
  MaxAttempts = 2
  Requests <- MCRequests
SPECIFICATION FairSpec
INVARIANTS
  TypeOK
  BlocksAccounted
PROPERTY EveryCallReturns
CHECK_DEADLOCK FALSE
