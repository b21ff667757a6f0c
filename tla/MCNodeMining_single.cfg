\* One node with crashes: conflicting transactions, a confidential one, a tight window and block.
SPECIFICATION NodeSpec
CONSTANTS
  Process = {p1}
  Hash = {h1, h2, h3}
  GenesisHash = h0
  None = None
  pay = pay
  clash = clash
  fund = fund
  grab = grab
  late = late
  again = again
  secret = secret
  Tx = {pay, clash, secret}
  Plain = {pay, clash}
  Ins <- MCIns
  NumOuts <- MCNumOuts
  Bodies <- MCBodies
  Fee <- MCFee
  Value <- MCValue
  Size <- MCSize
  MaxHeight = 2
  Limit = 2
  MaxSize = 6
  CoinbaseEstimate = 2
  CoinbaseSize = 2
  Separator = 0
  CheckpointInterval = 2
SYMMETRY HashSymmetry
INVARIANTS
  NoTxLeavesChain
  SavedTipOnChain
  SpentOnceUntilFailure
