CONSTANTS
  Regions = {r1, r2}
  Contents = {o, x}
  Original = o
  Empty = Empty
  None = None
  FormatOnSave = TRUE
  MaxAgentEdits = 2
  MaxUserEdits = 0
  MaxReviews = 2
SPECIFICATION Spec
SYMMETRY Symmetry
CHECK_DEADLOCK FALSE
INVARIANTS
  AnnouncedEditsReviewed
