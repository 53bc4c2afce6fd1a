CONSTANTS
  Tasks = {t1, t2}
  MinDelay = 1
  MaxDelay = 3
  MaxCrashes = 2
  None = None
SPECIFICATION FairSpec
INVARIANTS
  FutureTaskHasAlarm
  DueTaskHasAlarm
  OnceUnlessCrashed
PROPERTIES
  QuickTasksRun
