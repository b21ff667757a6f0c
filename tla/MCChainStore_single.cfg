\* One process: failed blocks, crashes and restarts.
SPECIFICATION Spec
CONSTANTS
  Process = {p1}
  Hash = {h1, h2, h3}
  GenesisHash = h0
  None = None
  fund = fund
  grab = grab
  late = late
  change = change
  Tx = {fund, grab, late, change}
  Ins <- MCIns
  NumOuts <- MCNumOuts
  MaxBody = 2
  Bodies <- MCBodies
  MaxHeight = 2
SYMMETRY HashSymmetry
INVARIANTS
  DamageConfined
  TipIsHighest
PROPERTIES
  ImplementsLog
  StoredAfterEffects
