SPECIFICATION ServiceSpec
CONSTANTS
  Message = {m1}
  MaxVersion = 2
  Hidden = {2}
  MaxCheck = 1
  Note = {n1}
  MaxNotes = 1
  Route = {r1}
  Optional = {r1}
  MaxOptional = 1
  RoomHandler = {h1, h2}
  Looker = {look1}
  NoMessage = NoMessage
  NoRoute = NoRoute
  MaxDisturb = 1
  u2 = u2
  e1 = e1
  e2 = e2
  s1 = s1
  o1 = o1
  x1 = x1
  card1 = card1
  run1 = run1
  Owner = {lo, o1}
  LocalOwner = lo
  Target = {t1}
  Card = {card1, card2}
  sc2 = sc2
  Scenario = {sc1, sc2}
  Pack = {p1}
  Run = {run1}
  Demo = demo
  Desk = {k1, k2}
  MaxCards = 1
  MaxRecords = 3
  MaxConfig = 1
  MaxPackVersion = 2
  Draft = {x1, x2}
  PackDraft = {y1}
  Dataset = {z1, z2}
  Evaluation = {ev1}
  MaxRevision = 2
  MaxCases = 1
  NoOne = NoOne
  NoRef = NoRef
  Account = {u1, u2, u3}
  Founder = u1
  Email = {e1, e2, e3}
  Session = {s1, s2}
  Invitation = {i1}
  Device = {d1}
  Caller = {c1, c2}
  FailureLimit = 1
  MaxPolls = 2
  MaxAccountEdits = 2
  Nobody = Nobody
  NoEmail = NoEmail
SYMMETRY Interchangeable
INVARIANTS
  EvidenceConverges
  NotesCurrent
  RoutedOnce
  AdmittedAlive
  IssuedOnce
  ApprovedOnce
PROPERTY
  QuotaKept
CHECK_DEADLOCK FALSE
