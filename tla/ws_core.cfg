CONSTANTS
  Messages = {m1, m2, m3}
  MaxRetries = 3
  MaxQueue = 2
  StartClosed = FALSE
  Vetoes = TRUE
  VisibleClosing = FALSE
  InvalidCodes = FALSE
  HandlersThrow = FALSE
SPECIFICATION FairSpec
INVARIANTS
  NeverStranded
  NothingLostOrReordered
  TimersMatchSocket
  ReplacedOnlyAfterClose
PROPERTIES
  ImplementsLink
  KeepsTrying
  CloseCompletes
  ConnectingEnds
