SPECIFICATION Spec
CONSTANTS
  Processes = {p1, p2}
  Configs = {c1, c2}
  CustomIds = {0}
  None = None
  BAD = BAD
  NExperiment = 0
  NProcessing = 1
  TicksPerSecond = 1
  MaxClock = 1
  MaxRuns = 3
  MaxEdits = 1
SYMMETRY Symmetry
VIEW View
INVARIANTS
  RecordBacked
  OneRecordPerDirectory
  ParentsListedFirst
  SuccessRecorded
PROPERTIES
  RecordsAreFinal
CHECK_DEADLOCK FALSE
