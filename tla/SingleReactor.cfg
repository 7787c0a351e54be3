SPECIFICATION FairSpec
CONSTANTS
  c1 = c1
  c2 = c2
  Client = {c1, c2}
  Fd = {1, 2}
  Last <- Lasts
  Blank <- BlankMessage
  SndBuf = 2
  Limits <- SmallLimits
  Listener = Listener
  None = None
INVARIANTS
  TypeOK
  BatchIsLive
  InputIsReported
PROPERTIES
  ImplementsEcho
  EveryClientIsAccepted
  EveryClientIsServed
\* clients need not send, and a killed server stops
CHECK_DEADLOCK FALSE
