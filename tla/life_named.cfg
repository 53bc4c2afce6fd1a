CONSTANTS
  Clients = {c1, c2}
  Names = {own, other}
  Headers = {}
  OwnName = own
  Undefined = Undefined
  MaxAttempts = 2
  MaxEvictions = 2
SPECIFICATION LifeFairSpec
INVARIANTS
  StarterWaits
  KnownNameSurvives
  AttemptsAccount
PROPERTIES
  EveryCallEnds
CHECK_DEADLOCK FALSE
