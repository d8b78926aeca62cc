CONSTANTS
  Regions = {r1, r2}
  Contents = {o, x}
  Original = o
  Empty = Empty
  None = None
  FormatOnSave = FALSE
  MaxAgentEdits = 1
  MaxUserEdits = 1
  MaxReviews = 1
SPECIFICATION Spec
CHECK_DEADLOCK FALSE
PROPERTY
  DeletedOnlyIfAgentsOwn
