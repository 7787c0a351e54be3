SPECIFICATION FairSpec
CONSTANTS
  threadnum = 2
  WorkThreads = {0, 1}
  MaxConns = 1
  MaxJobs = 1
  Main = Main
  Free = Free
INVARIANTS
  TypeOK
  NothingOutlivesTheServer
PROPERTIES
  PoolUsedAsSpecified
  LoopsComeUp
  EndsOrStuck
\* the process ends
CHECK_DEADLOCK FALSE
