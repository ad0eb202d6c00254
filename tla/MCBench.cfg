SPECIFICATION Spec
CONSTANTS
  Runners = {r1, r2}
  MAX_RUNS <- MCRuns
  MaxFaults = 1
  Kept = {5}
  None = None
SYMMETRY Symmetry
INVARIANTS
  ResultsAreJudged
  LogsOfOneRun
  OneBuild
CHECK_DEADLOCK FALSE
