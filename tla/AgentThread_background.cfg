SPECIFICATION Spec
CONSTANTS
  None = None
  MaxTurns = 3
  MaxSends = 3
  MaxInterrupts = 1
  MaxMessages = 0
  Tools = {}
  StreamingTools = {}
  UnknownTools = {}
  ErrorKinds = {}
  Events = {"usage", "refusal"}
  Ops = {"truncate", "title"}
  PreservedTurns = 1
  HasSummarizer = TRUE
INVARIANTS
  CompactionPrefixStable
PROPERTIES
  UserTitleKept
CHECK_DEADLOCK FALSE
