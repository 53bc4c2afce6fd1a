SPECIFICATION FairSpec
CONSTANTS
  Pages = {p}
  Agents = {g}
  Rows = {r, s}
  MaxWrites = 2
  MaxFaults = 1
INVARIANTS
  LiveRowsArrive
  OldRowsGo
PROPERTIES
  Converges
CHECK_DEADLOCK FALSE
