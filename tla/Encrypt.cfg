SPECIFICATION Spec
CONSTANTS
  Head <- MCHead
  Lengths <- MCLengths
INVARIANTS TypeOK NothingLeft ReadableIfExact
PROPERTY StepsOfClient
\* The function returns.
CHECK_DEADLOCK FALSE
