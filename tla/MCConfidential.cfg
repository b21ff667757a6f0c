SPECIFICATION Spec
CONSTANTS
  Order = 13
  Bits = 2
  MaxValue = 6
  TableSize = 2
  QuickMax = 1
  Abscissa <- MCAbscissa
  Random = {0, 5}
  Nonces <- MCNonces
  Keys = {0, 4}
  Inputs <- MCInputs
  Amounts = {0, 2, 3, 4}
  MaxOutputs = 2
  Others <- MCOthers
INVARIANTS
  TypeOK
  HonestVerifies
  AlteredRefused
  SignatureHolds
  DecodeSound
CHECK_DEADLOCK FALSE
