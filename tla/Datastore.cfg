SPECIFICATION MCSpec
CONSTANTS
  AuthIds = {"al", "altoken", "bob", "adm"}
  UserOf <- MCUser
  Privs <- MCPrivs
  FirstOwners = {"", "altoken"}
  Times = {1, 2}
  Requests = {1, 2}
  MaxRequests = 2
  VChunks = {"c1", "c2"}
  VSnaps <- MCSnaps
  FilesOf <- MCFiles
  VJobs = {1}
  Decoders = {1, 2}
  VMaxJobs = 2
  VMaxUploads = 1
  Snapshots = {1, 2, 3, 4, 5, 6}
  Options <- MCOptions
  Period <- MCPeriod
  MaxKeep = 2
  PullGroups <- MCGroups
  PullTimes = {1, 2, 3}
  PullFiles = {"a", "b"}
  PullStarts <- MCStarts
  Recreates = FALSE
  LosesManifest = FALSE
  MaxPulls = 2
  MaxEvents = 2
  MaxPullFaults = 1
INVARIANTS OwnSnapshotsOnly  PulledIsWhole
PROPERTIES ManifestUpdatesKept VerifiedWasSeen  SelectionIsRight
CHECK_DEADLOCK FALSE
