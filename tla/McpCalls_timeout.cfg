CONSTANTS
  Inputs = {}
  Elicitations = {e1}
  MaxInputs = 1
  MaxElicitations = 1
  MaxRuns = 1
  Calls = {c1}
  NoCall = NoCall
SPECIFICATION FairSpec
CHECK_DEADLOCK FALSE
PROPERTIES
  PauseIsNotConsumed
