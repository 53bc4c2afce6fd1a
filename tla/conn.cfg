CONSTANTS
  Sessions = {s1, s2}
  Ids = {i1, i2}
  None = None
  ReuseIds = FALSE
  MaxWrites = 2
SPECIFICATION FairSpec
INVARIANTS
  ClosedIsForgotten
  ConnectedIsListed
  LookupFindsConnected
  StateIsKept
PROPERTIES
  HandshakeCompletes
