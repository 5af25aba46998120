SPECIFICATION RuntimeSpec
CONSTANTS
  u1 = u1
  Member = {u1, u2}
  OpenRouter = {u1}
  NoMember = NoMember
  Qualified = {u1, u2}
  Asker = {p1, p2}
  Budget = 1
  Ceiling = 3
  MaxRetries = 1
  MaxAttempts = 1
  MaxAsked = 3
  Op = {p1, p2, p3}
  NoOp = NoOp
  Key = {k1, k2}
  Ctx = {1, 2}
  Permits = 2
  MaxHops = 1
  MaxVersion = 3
  MaxCalls = 3
  Proc = {p1, p2}
  NoProc = NoProc
  MaxStarts = 3
  MaxDemo = 3
  MaxEdits = 1
SYMMETRY Interchangeable
INVARIANTS
  GatewayKeeps
  OutsideKept
  
CHECK_DEADLOCK FALSE
