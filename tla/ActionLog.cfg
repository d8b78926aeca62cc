CONSTANTS
  Regions = {r1, r2}
  Contents = {o, x}
  Original = o
  Empty = Empty
  None = None
  FormatOnSave = FALSE
  MaxAgentEdits = 1
  MaxUserEdits = 1
  MaxReviews = 2
SPECIFICATION Spec
SYMMETRY Symmetry
CHECK_DEADLOCK FALSE
INVARIANTS
  OnlyAgentChangesUnreviewed
  QuietMeansExact
