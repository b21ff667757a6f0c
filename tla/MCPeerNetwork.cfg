SPECIFICATION FairSpec
CONSTANTS
  n1 = n1
  n2 = n2
  Node = {n1, n2}
  Conn = {c1, c2}
  Block = {b1}
  Answers <- SeedAnswers
  MaxPeers = 1
  None = None
CHECK_DEADLOCK FALSE
INVARIANTS
  TypeOK
  TableExact
  KnownWasSent
  BlockAfterHandshake
PROPERTY
  Delivered
