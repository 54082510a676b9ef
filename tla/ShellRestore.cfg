SPECIFICATION PxSpec
CONSTANTS
  Trees <- MCTrees
  CliPatterns <- MCCliPatterns
  Restores <- MCShell
  EntriesMax = 5
  PxMaxFaults = 1
INVARIANT ShellRestoresSelected
CHECK_DEADLOCK FALSE
