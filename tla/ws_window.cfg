CONSTANTS
  Messages = {m1, m2}
  MaxRetries = 2
  MaxQueue = 2
  StartClosed = FALSE
  Vetoes = TRUE
  VisibleClosing = TRUE
  InvalidCodes = TRUE
  HandlersThrow = TRUE
SPECIFICATION Spec
INVARIANTS
  SuspendedWhenDown
