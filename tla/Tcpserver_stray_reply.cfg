SPECIFICATION Spec
CONSTANTS
  Fd = {4, 5}
  Addr = {a1, a2}
  Client = {s1, s2}
  Resetting = {}
  Worker = {w1}
  threadnum = 2
  Alarm = FALSE
  None = None
SYMMETRY Symmetry
INVARIANT
  RepliesReachTheirClient
\* every client connects once: the system comes to rest
CHECK_DEADLOCK FALSE
