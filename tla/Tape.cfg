SPECIFICATION MCSpec
CONSTANTS
  Media = {1, 2}
  Pools = {"a", "b"}
  SetIds = {1, 2, 3}
  Keys = {"k"}
  SetPolicy <- MCSetPolicy
  Retention <- MCRetention
  Protect = 1
  Drives = {"d1", "d2"}
  Labelled <- MCLabelled
  Snapshots <- MCSnapshots
  ChunksOf <- MCChunksOf
  QueueSize = 1
  Unlabelled = FALSE
  MaxTime = 1
  Budgets <- MCBudgets
  ChDrives = {0, 1}
  Slots = {1, 2, 3, 4}
  ExportSlots = {4}
  Cartridges = {"T1", "T2"}
  Cleaners = {"CLN"}
  Shelf <- MCShelf
  Prelabelled = {"T1"}
  MaxJobs = 2
  MaxTransfers = 1
  Payload = 2
  TapeBlocks = 6
  TapeCount = 2
  StreamJobs <- MCStreams
  MaxStreams = 2
INVARIANTS UsedTapeIsWanted  RecordedIsReadable
 
CHECK_DEADLOCK FALSE
