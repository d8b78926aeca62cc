SPECIFICATION Spec
CONSTANTS
  None = None
  MaxTurns = 1
  MaxSends = 1
  MaxInterrupts = 1
  MaxMessages = 2
  Tools = {u1, u3}
  StreamingTools = {u1}
  UnknownTools = {u3}
  ErrorKinds = {"stream_ended", "auth"}
  Events = {"start", "text", "details", "partial", "full", "invalid", "max_tokens", "error"}
  Ops = {"resume", "set_model", "queue"}
  PreservedTurns = 1
  HasSummarizer = FALSE
INVARIANTS
  ToolInputsClosed
  PatientHistory
CHECK_DEADLOCK FALSE
