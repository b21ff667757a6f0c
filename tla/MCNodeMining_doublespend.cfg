\* One node that never dies: a child arrives before its parent.
SPECIFICATION SentOnlySpec
CONSTANTS
  Process = {p1}
  Hash = {h1, h2, h3}
  GenesisHash = h0
  None = None
  pay = pay
  clash = clash
  fund = fund
  grab = grab
  late = late
  again = again
  secret = secret
  Tx = {fund, grab, late, again}
  Plain = {fund, grab, late, again}
  Ins <- MCIns
  NumOuts <- MCNumOuts
  Bodies <- MCBodies
  Fee <- MCFee
  Value <- MCValue
  Size <- MCSize
  MaxHeight = 2
  Limit = 4
  MaxSize = 20
  CoinbaseEstimate = 2
  CoinbaseSize = 2
  Separator = 0
  CheckpointInterval = 2
INVARIANTS
  NoDoubleSpend
CHECK_DEADLOCK FALSE
