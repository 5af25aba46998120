CONSTANTS
  a = a
  b = b
  h1 = h1
  h2 = h2
  p1 = p1
  p2 = p2
  n1 = n1
  n2 = n2
  m1 = m1
  m2 = m2
  Deployment = {a, b}
  Available = {a, b}
  Nobody = Nobody
  NoNonce = NoNonce
  NoCall = NoCall
  NoTarget = NoTarget
  Op = {o1}
  Part = {m1, m2}
  MaxSpoken = 6
  MaxPerSpeaker = 2
  MaxSpeakers = 3
  MaxDepth = 1
  Continuations = 1
  Chosen <- MCChosen
  Proposals <- MCProposals
  Call = {c1, c2}
  Nonce = {n1, n2}
  Index = {0, 1}
  MaxAttempts = 2
  Handler = {h1, h2}
  Process = {p1}
  ProcOf <- OneProcess
  MaxCrash = 1
  MaxForget = 1
  MaxLost = 1
  MaxOpen = 2
SYMMETRY Symmetry
SPECIFICATION Spec
CHECK_DEADLOCK FALSE
INVARIANTS
  TypeOK
  DeliveryTrue
  SideEffectOnce
  WorkerOwnsStep
