SPECIFICATION PoliteSpec
CONSTANTS
  Last = 3
  Blanks = {{}, {2}}
  Sizes = {0, 1, 2}
  SndBuf = 3
INVARIANTS
  TypeOK
  InputIsReported
  WritesWhileUnsent
  AnsweredOnce
  RepliesInOrder
PROPERTIES
  SigpipeOnlyInWindow
  ExitsOnlyWhenClosed
  EveryMessageAnswered
\* the client need not send, and a connection ends
CHECK_DEADLOCK FALSE
