\* POSIX: one client is enough, if its message arrives in three pieces.
CONSTANTS
  c1 = c1
  Clients = {c1}
  Idle = {}
  MsgLen = 3
  Backlog = 1
  Fds = {3, 4}
  MaxThreads = 2
  RecvMax = 3
  SigPipe = TRUE
  Free = Free
  Listener = Listener
SPECIFICATION Spec
INVARIANT ServerSurvives
CHECK_DEADLOCK FALSE
