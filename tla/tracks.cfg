SPECIFICATION FairSpec
CONSTANTS
  Pushes = {p}
  Pulls = {q}
  BatchLimit = 2
  MaxSessions = 2
  Bounds <- SomeBounds
INVARIANTS
  AnsweredByItsRequest
  LiveIsServed
  NothingLeaks
PROPERTIES
  PushGetsThrough
CHECK_DEADLOCK FALSE
