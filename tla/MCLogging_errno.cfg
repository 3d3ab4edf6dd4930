\* Windows: the first call of all is logSocketError, as in the constructor of
\* SocketInitializer.
CONSTANTS
  t1 = t1
  e1 = e1
  Threads = {t1}
  Codes = {e1}
  MaxCalls <- CallsOf
  Busy = {}
  Windows = TRUE
  InitFirst = FALSE
  None = None
  Stray = Stray
  Mixed = Mixed
SPECIFICATION Spec
INVARIANT ErrnoKept
