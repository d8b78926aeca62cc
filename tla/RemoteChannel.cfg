SPECIFICATION FairSpec
CONSTANTS
  MaxSend = 2
  MaxBreaks = 2
  None = None
INVARIANTS
  SettledMeansUnderWay
  ReleasedOnlyWhenDelivered
PROPERTIES
  ImplementsChannels
  EventuallyHandled
CHECK_DEADLOCK FALSE
