\* Two threads whose calls may last over midnight; two runs of the process.
CONSTANTS
  t1 = t1
  t2 = t2
  Threads = {t1, t2}
  Days = {0, 1, 2, 3}
  Start <- EvenDays
  Day24 = 2
  Midnight <- EvenMidnights
  MaxTime = 4
  MaxRecs = 2
  MaxRuns = 2
  NoFile = NoFile
  NoThread = NoThread
SPECIFICATION Spec
INVARIANTS
  FileOfDayInTime
  NoHoles
PROPERTY OnwardOnly
SYMMETRY Symmetry
CHECK_DEADLOCK FALSE
