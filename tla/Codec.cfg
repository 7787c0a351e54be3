SPECIFICATION FairSpec
CONSTANTS
  Base = 6
  Space = 5
  Text <- MCText
  Prefix <- MCPrefix
  Count = 3
  Windows = {1, 3}
INVARIANTS
  TypeOK
  StaysInFrame
  RepliesMatch
PROPERTY
  AnswersArrive
CHECK_DEADLOCK FALSE
