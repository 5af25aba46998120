SPECIFICATION ConnectorSpec
CONSTANTS
  ChatRoom = {r1, r2}
  MaxMsg = 3
  IngressMax = 3
  IngressPerRoom = 2
  WorkMax = 2
  WorkPerRoom = 2
  Concurrency = 2
  ConcurrencyPerRoom = 1
  BurstMax = 2
  JobId = {1}
  WorkSlot = {w1}
  Handler = {c1}
  Recoverer = {c2}
  MaxQueue = 1
  MaxLines = 1
  MaxFault = 1
  Person = {"o", "p"}
  Owner = "o"
  Place = {r1}
  Mail = {m1}
  Upload = {f1}
  Bridge = {b1, b2}
  Hook = {h1}
  NoHook = NoHook
  NoPlace = NoPlace
  NoPerson = NoPerson
  NoMail = NoMail
  RoomLimit = 1
  MemberLimit = 1
  UserRate = 2
  RoomRate = 2
  Capacity = 2
  AckTries = 1
  DispatchTries = 2
  MaxChange = 1
  Author <- MCAuthor
CHECK_DEADLOCK FALSE
INVARIANTS IngressOrderly SpokenOnce WebStatusTrue
PROPERTIES MessageSettles TurnEnds WebMailSettles
