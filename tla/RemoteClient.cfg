SPECIFICATION FairSpec
CONSTANTS
  MaxMissed = 5
  MaxAttempts = 3
  NoConn = NoConn
INVARIANTS
  TypeOK
  OneReconnectTask
  PanicOnlyWhileShuttingDown
  GivesUpAfterAllAttempts
PROPERTIES
  DisconnectedIsFinal
  ReconnectingEnds
  SilenceNoticedWhileArmed
CHECK_DEADLOCK FALSE
