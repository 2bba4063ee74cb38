CONSTANTS
  Sessions = {s1, a1}
  AcpSessions = {a1}
  Runs = {r1, r2}
  Deleters = {d1}
  Sweepers = {}
  NoSession = NoSession
  NoRun = NoRun
  MaxStops = 1
SPECIFICATION Spec
SYMMETRY Symmetry
CHECK_DEADLOCK FALSE
INVARIANTS
  RunsAreAccountedFor
  DoneIsStored
  AcpSessionIsConnected
