\* Windows; two threads call the functions with no initLogger before.
CONSTANTS
  t1 = t1
  t2 = t2
  e1 = e1
  e2 = e2
  Threads = {t1, t2}
  Codes = {e1, e2}
  MaxCalls <- CallsOf
  Busy = {t1}
  Windows = TRUE
  InitFirst = FALSE
  None = None
  Stray = Stray
  Mixed = Mixed
SPECIFICATION FairSpec
INVARIANTS
  BuiltBeforeUse
  PerThreadOrder
  ErrnoLostOnce
PROPERTY CallsReturn
