SPECIFICATION Spec
CONSTANTS
  Digests = {"d1", "d2"}
  Lengths <- MCLengths
  DynArchives = {"a.didx"}
  FixArchives = {"a.fidx"}
  FixSizes = {3}
  ChunkSize = 2
  HasBase = TRUE
  Base <- MCBase
  Listings = {{}}
  Benchmark = FALSE
  MaxUid = 1
  MaxUploads = 1
  MaxAppends = 1
  MaxBlobs = 1
  MaxEntries = 2
INVARIANTS ReferencesAreStored IndexesAreContiguous
CHECK_DEADLOCK FALSE
