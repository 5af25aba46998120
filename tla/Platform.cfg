SPECIFICATION PlatformSpec
CONSTANTS
  Account = {sa, a2}
  Super = sa
  Guild = {g1}
  Channel = {c1}
  Category = cat
  Deployment = {d1}
  Message = {sent1}
  Hook = {h1, h2}
  Clerk = {p1, p2}
  MaxProfiles = 2
  MaxCode = 2
  MaxEvents = 1
  MaxOccurred = 2
  NoAccount = NoAccount
  NoGuild = NoGuild
  NoDeployment = NoDeployment
  NoHook = NoHook
  m1 = m1
  m2 = m2
  m3 = m3
  Msg = {m1, m2, m3}
  NoMsg = NoMsg
  Conversation <- Conversations
  Worker = {p1, p2}
  Proposed <- ToolLists
  MaxToolRounds = 2
  MaxTries = 2
  MaxRestart = 1
  Server = {p1, p2}
  CaptureKey = {k1, k2}
  MaxSessionIds = 3
  MaxRecordIds = 3
  MaxRecordsPer = 2
  MaxBytesPer = 3
  MaxRecordsGlobal = 2
  MaxBytesGlobal = 3
  MaxSessions = 2
  Ingress = {i1}
  Reviewer = {y1}
SYMMETRY Interchangeable
INVARIANTS
  RevokedIsSilent
  TurnHonest
  CaptureBounded
CHECK_DEADLOCK FALSE
