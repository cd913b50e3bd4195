SPECIFICATION Spec
CONSTANTS
  t1 = t1
  t2 = t2
  t3 = t3
  Thread = {t1, t2, t3}
  NumLocks = 2
  MaxInits = 3
SYMMETRY ThreadSymmetry
INVARIANTS TypeOK Exclusion NoLockLeft AllInitialised
PROPERTIES LinesReachLog
\* Threads may come to wait for mutexes of an array that was replaced.
CHECK_DEADLOCK FALSE
