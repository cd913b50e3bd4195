SPECIFICATION Spec
CONSTANTS
  Head <- MCHead
  Lengths <- MCLengths
INVARIANT ErrorsReturn
CHECK_DEADLOCK FALSE
