CONSTANTS
  r1 = r1
  r2 = r2
  Nothing = Nothing
  MaxAttempts = 2
  i1 = i1
  SourceTypes = {"git", "atom"}
  VersionKey <- MCKey
  SourceHash <- MCHash
  Locator = {"l1", "l2"}
  Material <- MCMaterial
  EntryMode <- MCMode
  Withdrawn <- MCWithdrawn
  DerivedWorker = {d1}
  NoSnapshot = NoSnapshot
  Gone = Gone
  NoEntry = NoEntry
  Nobody = Nobody
  Ingester = {i1}
  Blob = {"b1", "b2", "b3"}
  Uploads <- MCUploads
  MaxFault = 0
  Ages = TRUE
  Foci = {"reminders", "watches", "media", "matrix"}
  Reminder = {r1, r2}
  Asked = {r1, r2}
  Watch = {w1}
  MaxChecks = 2
  LongRestart = FALSE
  OwnerDoes = {"pause", "delete"}
  MaxRestart = 1
  Worker = {w1, w2}
  MaxStart = 4
  Snapshot = {1, 3}
  MaxInvalidationAttempts = 1
  MaxDerivedFault = 1
  Task = {1, 2}
  Runner = {k1, k2}
  Concurrency = 2
  MaxTaskAttempts = 2
  MaxOwnerRequests = 3
  MaxMatrixFault = 1
  Free = Free
SPECIFICATION BackgroundSpec
SYMMETRY Interchangeable
CHECK_DEADLOCK FALSE
INVARIANTS RetriesBounded NoticesMatch LeaseRespected TaskRunsAlone
