SPECIFICATION FairSpec
CONSTANTS
  Clients = {c1, c2}
  Edits = {e1}
  Drafts = {d1}
  MaxOpens = 2
  NoThread = NoThread
INVARIANTS
  ReferencesExact
  NothingLost
PROPERTIES
  ClosedIsSaved
  OpensSettle
CHECK_DEADLOCK FALSE
