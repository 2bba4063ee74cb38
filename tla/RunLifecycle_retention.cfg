CONSTANTS
  Sessions = {s1}
  AcpSessions = {}
  Runs = {r1}
  Deleters = {w1}
  Sweepers = {w1}
  NoSession = NoSession
  NoRun = NoRun
  MaxStops = 0
SPECIFICATION Spec
CHECK_DEADLOCK FALSE
PROPERTIES
  SweepSparesActiveSessions
