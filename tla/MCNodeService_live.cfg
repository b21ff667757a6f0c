\* A node that is operated over RPC, stopped, killed and started again.
SPECIFICATION ServiceSpec
CONSTANTS
  Process = {p1}
  Server = p1
  Client = {operator, user}
  Operator = operator
  user = user
  Batches <- MCBatches
  MaxEnds = 1
  Hash = {h1, h2}
  GenesisHash = h0
  None = None
  pay = pay
  fund = fund
  Tx = {pay, fund}
  Plain = {pay, fund}
  Ins <- MCIns
  NumOuts <- MCNumOuts
  Bodies <- MCBodies
  Fee <- MCFee
  Value <- MCValue
  Size <- MCSize
  MaxHeight = 2
  Limit = 1
  MaxSize = 9
  CoinbaseEstimate = 2
  CoinbaseSize = 2
  Separator = 0
  CheckpointInterval = 2
INVARIANTS
  RepliesHold
PROPERTIES
  RequestAnswered
  SubmittedIsMined
CHECK_DEADLOCK FALSE
