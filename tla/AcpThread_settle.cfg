SPECIFICATION FairSpec
CONSTANTS
  None = None
  MaxTurns = 2
  MaxCancels = 2
  MaxRewinds = 0
  Calls = {c1}
  Answers = {"cancelled"}
  Ops = {"authorize"}
PROPERTIES
  TurnsSettle
CHECK_DEADLOCK FALSE
