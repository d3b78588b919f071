CONSTANTS
  Threads = {1, 2}
  Conns = {1, 2, 3}
  MaxWrites = 2
  MaxFailures = 1
  MaxOrders = 2
  FrameBytes = 2
  BacklogSize = 3
SPECIFICATION ReplicationSpec
INVARIANTS ReplicationTypeOK BacklogIsWindow StreamWhole ReportsHonest
PROPERTIES StoppedThreadsEnd 
CHECK_DEADLOCK FALSE
