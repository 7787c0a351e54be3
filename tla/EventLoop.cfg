SPECIFICATION FairSpec
CONSTANTS
  Caller = {c1, c2}
  Task = {f1, f2, f3}
  Loop = Loop
  Free = Free
INVARIANTS
  TypeOK
  NoLostWakeup
  StopIsNoticed
PROPERTIES
  StopEndsRun
  ImplementsHandoff
\* The loop returns once it is stopped.
CHECK_DEADLOCK FALSE
