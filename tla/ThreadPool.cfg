SPECIFICATION FairSpec
CONSTANTS
  Worker = {w1, w2}
  Producer = {p1, p2}
  Task = {f1, f2, f3}
  Free = Free
  StopUnderLock = TRUE
  LateEnqueue = FALSE
INVARIANTS
  TypeOK
  NoStrandedTask
  DrainedAtJoin
  StopReachesAll
PROPERTIES
  DestructorReturns
  ImplementsHandoff
\* The pool comes to rest once it is destroyed or nobody uses it.
CHECK_DEADLOCK FALSE
