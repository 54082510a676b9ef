SPECIFICATION MCSpec
CONSTANTS
  Daemons = {1, 2}
  Tasks = {1, 2}
  Scenarios <- MCScenarios
  Procs = {"p1", "p2"}
  Lockers = {"l1", "l2"}
  ProcOf <- OneEach
  MaxGuards = 3
  MaxTime = 2
  Snapshots = {2, 3, 4}
  Options <- MCOptions
  Period <- MCPeriod
  Keeps <- MCKeeps
  Kinds = {"job", "api"}
INVARIANTS TasksAreListed JobRunsAlone
PROPERTIES LockSpec ExitAfterWorkers LastBackupKept
CHECK_DEADLOCK FALSE
