SPECIFICATION Spec
CONSTANTS
  Hook = "useWebSocket"
  Options <- MCOptions
  Messages = {m1}
  Transfer = "undefined"
  MaxChanges = 1
  MaxRefreshes = 1
  MaxDrops = 1
INVARIANTS
  MessagesKeepTheirDestination
CHECK_DEADLOCK FALSE
