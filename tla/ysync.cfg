CONSTANTS
  c1 = c1
  c2 = c2
  Clients <- MCClients
  Limited = {c2}
  MaxEdits <- MCMaxEdits
  MaxFaults = 1
SPECIFICATION FairSpec
INVARIANTS
  SyncedMissesNothing
  ServerMissesNothing
  ReadOnlyKeptOut
PROPERTIES
  SavedStays
  Converges
CHECK_DEADLOCK FALSE
