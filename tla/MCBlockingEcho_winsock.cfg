\* One client is enough.
CONSTANTS
  c1 = c1
  Clients = {c1}
  Idle = {}
  MsgLen = 1
  Backlog = 1
  RecvMax = 1
  NoConn = NoConn
SPECIFICATION Spec
PROPERTY WsaPaired
CHECK_DEADLOCK FALSE
