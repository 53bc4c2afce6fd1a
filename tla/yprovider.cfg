SPECIFICATION FairSpec
CONSTANTS
  a = a
  b = b
  Clients <- MCClients
  MaxConns = 2
  MaxEvents <- MCMaxEvents
INVARIANTS
  SocketAsWanted
  ServerForgets
PROPERTIES
  PresenceConverges
CHECK_DEADLOCK FALSE
