SPECIFICATION FairSpec
CONSTANTS
  Receivers = {r1, r2}
  Values = {v1, v2}
  None = None
  Modulus = 8
  MaxSends = 3
  MaxWakers = 5
INVARIANTS
  TypeOK
  NoLostWakeup
  WakersExact
  VersionTellsValue
PROPERTIES
  ImplementsRegister
  NewsDelivered
CHECK_DEADLOCK FALSE
