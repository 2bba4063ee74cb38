CONSTANTS
  Window = 200
  Reserve = 20
  Fixed = 1
  Sizes = {1, 60}
  SummarySizes = {2, 50}
  Measured = {0, 170}
  MaxContents = 6
SPECIFICATION CompactionSpec
CHECK_DEADLOCK FALSE
PROPERTIES
  NextRunStartsFromCheckpoint
