CONSTANTS
  Inputs = {i1, i2}
  Elicitations = {e1, e2}
  MaxInputs = 1
  MaxElicitations = 1
  MaxRuns = 2
SPECIFICATION QuestionSpec
SYMMETRY Symmetry
CHECK_DEADLOCK FALSE
INVARIANTS
  QuestionsAreWaitedFor
  AnswersAreAccepted
