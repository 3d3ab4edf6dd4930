CONSTANTS
  p1 = p1
  p2 = p2
  Producers = {p1, p2}
  Main = Main
  Workers <- TwoWorkers
  Capacity = 1
  Setups <- Pools
  Sinks <- TwoSinks
  Throwing = {1}
  Program <- Calls
  Nothing = Nothing
  Moved = Moved
SPECIFICATION FairSpec
INVARIANTS
  Delivered
  StoppedClean
PROPERTIES
  ChannelSpec
  NobodyHangs
CHECK_DEADLOCK FALSE
