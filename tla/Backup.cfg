SPECIFICATION MCSpec
CONSTANTS
  Digests = {"d1"}
  Lengths <- MCLengths
  DynArchives = {"a.didx"}
  FixArchives = {}
  FixSizes = {3}
  ChunkSize = 2
  HasBase = TRUE
  Base <- MCBase
  Listings = {{}, {"a.didx"}}
  Benchmark = FALSE
  MaxUid = 1
  MaxUploads = 1
  MaxAppends = 1
  MaxBlobs = 2
  MaxEntries = 1
  Entries = {"x", "y"}
  Commands <- MCCommands
  PrevChunks <- MCPrevious
  ChanSize = 1
  QueueSize = 2
  MergeMax = 2
  MaxArchived = 3
  MaxFaults = 1
INVARIANTS EndedIsComplete FinishedIsWhole
PROPERTIES TaskEnds BackupEnds
CHECK_DEADLOCK FALSE
