\* One thread whose calls may last over midnight.
CONSTANTS
  t1 = t1
  Threads = {t1}
  Days = {0, 1, 2, 3}
  Start <- EvenDays
  Day24 = 2
  Midnight <- EvenMidnights
  MaxTime = 4
  MaxRecs = 2
  MaxRuns = 1
  NoFile = NoFile
  NoThread = NoThread
SPECIFICATION Spec
INVARIANT FileOfDay
CHECK_DEADLOCK FALSE
