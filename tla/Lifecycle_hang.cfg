SPECIFICATION FairSpec
CONSTANTS
  threadnum = 2
  WorkThreads = {0}
  MaxConns = 1
  MaxJobs = 0
  Main = Main
  Free = Free
PROPERTIES
  ProcessEnds
\* the process ends
CHECK_DEADLOCK FALSE
