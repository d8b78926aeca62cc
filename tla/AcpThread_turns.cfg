SPECIFICATION Spec
CONSTANTS
  None = None
  MaxTurns = 3
  MaxCancels = 1
  MaxRewinds = 1
  Calls = {}
  Answers = {"refusal"}
  Ops = {"retry", "restore", "rewind"}
INVARIANTS
  TypeOK
  StatusTruthful
  PromptsSerialized
  OwnCheckpoints
CHECK_DEADLOCK FALSE
