\* Both builds; two clients and a silent one, the queue holds two of them.
CONSTANTS
  c1 = c1
  c2 = c2
  s1 = s1
  Clients = {c1, c2, s1}
  Idle = {s1}
  MsgLen = 3
  Backlog = 1
  RecvMax = 2
  NoConn = NoConn
SPECIFICATION FairSpec
INVARIANTS
  OneClientInStep
  SocketsBeforeWinsock
PROPERTIES
  EchoSpec
  EndReleases
CHECK_DEADLOCK FALSE
