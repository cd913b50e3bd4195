CONSTANTS
  Invalid = Invalid
  Thread = {t1}
  Fd = {f1}
  MaxCalls = 1
  MaxAttempts = 1
  Requests <- MCLongHeader
SPECIFICATION Spec
INVARIANT ErrorsReturnNull
CHECK_DEADLOCK FALSE
