\* Windows: two threads of the server log an error at the same time.
CONSTANTS
  t1 = t1
  t2 = t2
  e1 = e1
  e2 = e2
  Threads = {t1, t2}
  Codes = {e1, e2}
  MaxCalls <- CallsOf
  Busy = {t1}
  Windows = TRUE
  InitFirst = TRUE
  None = None
  Stray = Stray
  Mixed = Mixed
SPECIFICATION Spec
INVARIANT TextOfCode
