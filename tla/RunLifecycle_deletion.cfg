CONSTANTS
  Sessions = {s1}
  AcpSessions = {}
  Runs = {r1, r2}
  Deleters = {d1, w1}
  Sweepers = {w1}
  NoSession = NoSession
  NoRun = NoRun
  MaxStops = 1
SPECIFICATION FairSpec
CHECK_DEADLOCK FALSE
INVARIANTS
  SessionRowsAgree
PROPERTIES
  FinalStatusStays
  StoppedRunsEnd
