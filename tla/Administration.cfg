SPECIFICATION MCSpec
CONSTANTS
  AcUsers = {"root", "al"}
  AcTokens = {"altoken"}
  TokenUser <- MCTokenUser
  AcPaths <- MCPaths
  Callers = {"al", "altoken"}
  CheckedPath <- MCCheckedPath
  CacheTime = 1
  AcBounds <- MCBounds
  AcMaxTime = 2
  RecoveryKeys = {11, 12}
  Challenges = {1, 2}
  Logins = {1, 2}
  MayTimeOut = {"challenge", "toggle", "delete", "delete_user"}
  MaxTfaRequests = 4
  CfgNames = {"a", "b", "c"}
  CfgGroups <- MCFileGroups
  CfgHandlers = {1, 2}
  FreeRevert = FALSE
  CfgMaxRequests = 2
  CfgMaxRev = 1
  CalEvents <- MCEvents
  LastRuns <- MCLastRuns
  LastYear = 1990
  Horizon = 1600
  MaxCount = 20
  Entries = 3
  Resolutions = {1, 2}
  Measures = {1, 2}
  Steps = {1, 2, 5}
  StartTime = 7
  EndTime = 15
  ClockMayGoBack = FALSE
INVARIANTS RightsAreFresh SecretsUsedOnce NoRunIsSkipped ShownWasMeasured
PROPERTY ConfigUpdatesKept
CHECK_DEADLOCK FALSE
