\* Descriptors for the listener and two connections: with the silent client
\* connected the others take turns, and accept fails in between (EMFILE).
CONSTANTS
  c1 = c1
  c2 = c2
  s1 = s1
  Clients = {c1, c2, s1}
  Idle = {s1}
  MsgLen = 2
  Backlog = 1
  Fds = {3, 4, 5}
  MaxThreads = 3
  RecvMax = 1
  SigPipe = FALSE
  Free = Free
  Listener = Listener
SPECIFICATION FairSpec
PROPERTIES
  EveryClientAnswered
  FdsComeBack
  ClientsFinish
CHECK_DEADLOCK FALSE
