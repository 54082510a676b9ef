SPECIFICATION MCSpec
CONSTANTS
  Archives <- MCArchives
  ChunkLen <- MCLengths
  CacheSize = 2
  MostUsed = 1
  ReadSizes = {1, 3}
  AsyncLoadsFail = FALSE
  MaxReads = 4
  Trees <- MCTrees
  CliPatterns <- MCCliPatterns
  Restores <- MCRestores
  EntriesMax = 5
  PxMaxFaults = 1
  Procs = {1, 2}
  ServerOf <- MCServerOf
  OptionsOf <- MCOptionsOf
  Slots = {1, 2}
  Lifetime = 2
  RenewEvery = 1
  MaxTime = 3
  MaxConnFaults = 1
  Requests <- MCRequests
  Snapshots <- MCBackups
  NChunks = 2
  RsMaxFaults = 2
  Maps = {1, 2, 3, 4}
  MapName <- MCMapName
  Devs = {1, 2}
  Overlap = FALSE
  MaxUnmaps = 2
  MaxMapFaults = 2
  Inodes = {1, 2, 3}
  Up <- MCUp
  Workers = {1, 2}
  ParallelDirops = FALSE
  MaxKnown = 2
  MaxAsks = 5
  HashBits = 2
  WindowSize = 2
  ByteTable <- MCTable
  ChunkMin = 3
  ChunkMax = 6
  BreakTest <- MCBreak
  FixedSize = 3
  PieceSizes = {1, 2, 5}
  StreamLength = 11
  CacheKeys = {1, 2, 3, 4}
  CacheValues = {1, 2}
  LruCapacity = 3
  Addresses = {1, 2, 3, 4}
  KeyPaths = {"default", "other"}
  DefaultPath = "default"
  KeyIds = {1, 2}
  Pairs = {1, 2}
  Installed = 1
  Passphrases = {"p"}
  Terminals = {1, 2}
  BlobData <- MCData
  MaxBlob = 9
  PromptRace = FALSE
  MaxKeyCommands = 5
INVARIANTS ReadsAreRight ArchiveIsSelection RestoredIsSelected 
   MappingsAreWhole  CutsAreCanonical LruMatches 
CHECK_DEADLOCK FALSE
