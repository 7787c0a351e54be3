SPECIFICATION FairSpec
CONSTANTS
  Fd = {4, 5}
  Addr = {a1}
  Client = {s1, s2}
  Resetting = {s1}
  Worker = {}
  threadnum = 2
  Alarm = TRUE
  None = None
INVARIANT
  NoStrayReply
PROPERTY
  ClosedIsReclaimed
\* every client connects once: the system comes to rest
CHECK_DEADLOCK FALSE
