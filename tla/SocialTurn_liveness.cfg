CONSTANTS
  a = a
  b = b
  h1 = h1
  h2 = h2
  p1 = p1
  p2 = p2
  n1 = n1
  n2 = n2
  m1 = m1
  m2 = m2
  Deployment = {a, b}
  Available = {a, b}
  Nobody = Nobody
  NoNonce = NoNonce
  NoCall = NoCall
  NoTarget = NoTarget
  Op = {o1}
  Part = {m1, m2}
  MaxSpoken = 6
  MaxPerSpeaker = 2
  MaxSpeakers = 3
  MaxDepth = 1
  Continuations = 1
  Chosen <- MCChosenTwo
  Proposals <- MCProposals
  Call = {c1}
  Nonce = {n1, n2}
  Index = {0, 1, 2}
  MaxAttempts = 3
  Handler = {h1}
  Process = {p1}
  ProcOf <- OneHandler
  MaxCrash = 0
  MaxForget = 0
  MaxLost = 1
  MaxOpen = 1
SPECIFICATION FairSpec
CHECK_DEADLOCK FALSE
PROPERTIES
  LoopEnds
