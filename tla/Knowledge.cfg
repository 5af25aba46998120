SPECIFICATION KnowledgeSpec
CONSTANTS
  SourceTypes = {"git", "atom"}
  Snapshot = {1, 2, 3, 4}
  VersionKey <- MCKey
  SourceHash <- MCHash
  Locator = {"l1", "l2"}
  Material <- MCMaterial
  EntryMode <- MCMode
  Withdrawn <- MCWithdrawn
  DerivedWorker = {d1}
  MaxInvalidationAttempts = 2
  MaxDerivedFault = 3
  NoSnapshot = NoSnapshot
  Gone = Gone
  NoEntry = NoEntry
  Nobody = Nobody
  i1 = i1
  i2 = i2
  Ingester = {i1, i2}
  Blob = {"b1", "b2", "b3"}
  Uploads <- MCUploads
  SyncKinds = {"website", "atom", "collection"}
  Page = {"p", "q"}
  Root = "p"
  page1 = "a"
  Content = {"a", "b"}
  Absent = Absent
  MaxClaims = 2
  MaxSiteEdits = 1
  MaxSyncFault = 1
  p1 = p1
  s1 = s1
  c1 = c1
  c2 = c2
  a1 = a1
  Place = {p1, p2}
  ScopeId = {s1, s2}
  Corpus = {c1, c2}
  Account = {a1}
  Deployment = {x1}
  Feed = {f1}
  Host = {h1}
  Picture = {g1}
  Fictional = {g1}
  Request = {q1}
  Reader = {q2}
  None = None
  ReadKinds = {"context", "inspector", "visual", "pairwise"}
CHECK_DEADLOCK FALSE
CONSTANTS
  Foci = {"ingest", "derived", "sync", "access"}
  Replica = {r1, r2}
  MaxFault = 1
  MaxSaves = 1
  MaxAccessEdits = 2
INVARIANTS VersionRecorded  ValidatorTrue AccessAuthorized
PROPERTIES ImplementsVersionLog FencedPublish
