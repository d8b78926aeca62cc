SPECIFICATION FairSpec
CONSTANTS
  None = None
  MaxTurns = 2
  MaxSends = 2
  MaxInterrupts = 1
  MaxMessages = 0
  Tools = {u1}
  StreamingTools = {u1}
  UnknownTools = {}
  ErrorKinds = {"stream_ended"}
  Events = {"partial", "full", "invalid", "refusal"}
  Ops = {"truncate"}
  PreservedTurns = 1
  HasSummarizer = FALSE
INVARIANTS
  TypeOK
  SingleLiveTurn
  OneTerminalEvent
  PendingHasOwner
  PatientHistory
PROPERTIES
  TurnsEnd
  PendingSettles
CHECK_DEADLOCK FALSE
