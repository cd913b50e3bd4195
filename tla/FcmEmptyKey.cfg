CONSTANTS
  Invalid = Invalid
  Thread = {t1}
  Fd = {f1}
  MaxCalls = 1
  MaxAttempts = 1
  Requests <- MCEmptyKey
SPECIFICATION Spec
INVARIANT ErrorsReturnNull
CHECK_DEADLOCK FALSE
