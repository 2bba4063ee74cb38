CONSTANTS
  AcpSessions = {s1, s2}
  MaxEdits = 1
  MaxProcesses = 2
  MaxFlows = 2
  MaxDisconnects = 1
  MaxCallbacks = 2
SPECIFICATION PeersSpec
CHECK_DEADLOCK FALSE
INVARIANTS
  ProcessesAreOwned
  
  StatesAreUsedOnce
  
PROPERTIES
  AcpShutdownEnds
  FlowsEnd
