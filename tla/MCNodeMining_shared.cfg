\* Two processes on the same files.
SPECIFICATION NodeSpec
CONSTANTS
  Process = {p1, p2}
  Hash = {h1, h2}
  GenesisHash = h0
  None = None
  pay = pay
  clash = clash
  fund = fund
  grab = grab
  late = late
  again = again
  secret = secret
  Tx = {pay}
  Plain = {pay}
  Ins <- MCIns
  NumOuts <- MCNumOuts
  Bodies <- MCBodies
  Fee <- MCFee
  Value <- MCValue
  Size <- MCSize
  MaxHeight = 1
  Limit = 2
  MaxSize = 6
  CoinbaseEstimate = 2
  CoinbaseSize = 2
  Separator = 0
  CheckpointInterval = 2
SYMMETRY Symmetry
INVARIANTS
  NodeTypeOK
  ChainInv
PROPERTIES
  ImplementsTree
  ImplementsLifecycle
