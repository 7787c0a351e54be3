SPECIFICATION Spec
CONSTANTS
  Last = 2
  Blanks = {{}}
  Sizes = {0}
  SndBuf = 3
PROPERTIES
  NoReplyLeftBehind
\* the client need not send, and a connection ends
CHECK_DEADLOCK FALSE
