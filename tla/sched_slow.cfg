CONSTANTS
  Tasks = {t1, t2}
  MinDelay = 1
  MaxDelay = 2
  MaxCrashes = 0
  None = None
SPECIFICATION FairSpec
PROPERTIES
  DueTaskRuns
