SPECIFICATION Spec
CONSTANTS
  Hook = "usePartySocket"
  Options <- MCOptions
  Messages = {m1, m2}
  Transfer = "undefined"
  MaxChanges = 4
  MaxRefreshes = 1
  MaxDrops = 1
INVARIANTS
  ConnectsAsRendered
  MessagesKeepTheirDestination
  KnowsWhenDown
CHECK_DEADLOCK FALSE
