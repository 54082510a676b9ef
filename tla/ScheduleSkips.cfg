SPECIFICATION CalSpec
CONSTANTS
  CalEvents <- MCLateDays
  LastRuns <- MCLastRuns
  LastYear = 1990
  Horizon = 1600
  MaxCount = 20
INVARIANT NoRunIsSkipped
CHECK_DEADLOCK FALSE
