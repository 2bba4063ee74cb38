CONSTANTS
  Approvals = {a1, a2, a3}
  Loops = {main, sub}
  Main = main
  Tools = {tool}
  Handlers = {callback}
  NoApproval = NoApproval
  MaxPending = 1
SPECIFICATION ApprovalSpec
SYMMETRY Symmetry
CHECK_DEADLOCK FALSE
INVARIANTS
  TimelineIsPending
PROPERTIES
  DecisionsAreFinal
  LimitIsFinal
