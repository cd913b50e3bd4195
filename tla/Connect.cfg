SPECIFICATION FairSpec
CONSTANTS
  f1 = f1
  f2 = f2
  Fd = {f1, f2}
  Invalid = Invalid
  MaxAddrs = 3
INVARIANTS TypeOK NothingKept FailsOnlyExhausted
PROPERTIES Returns StepsOfClient
\* The call ends.
CHECK_DEADLOCK FALSE
