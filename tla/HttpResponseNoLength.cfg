CONSTANTS
  HdrCap = 5
  W = 16
  Replies <- MCFewReplies
SPECIFICATION Spec
INVARIANT ResponseHasBody
CHECK_DEADLOCK FALSE
