\* Two clients and a silent one; a descriptor for each, but only two threads,
\* so that the third connection is served when an earlier one is over, with
\* its descriptor, or else ends the process.
CONSTANTS
  c1 = c1
  c2 = c2
  s1 = s1
  Clients = {c1, c2, s1}
  Idle = {s1}
  MsgLen = 3
  Backlog = 1
  Fds = {3, 4, 5, 6}
  MaxThreads = 2
  RecvMax = 2
  SigPipe = TRUE
  Free = Free
  Listener = Listener
SPECIFICATION Spec
INVARIANTS
  TypeOK
  FdOwnership
  NoFdLeak
  EchoIntegrity
  EchoComplete
  HandOver
  InStep
PROPERTY EchoSpec
SYMMETRY Symmetry
CHECK_DEADLOCK FALSE
