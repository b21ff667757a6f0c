SPECIFICATION Spec
CONSTANTS
  Digit = 2
  Digits = 12
  GenesisBits <- MCGenesisBits
  EasyBits <- MCEasyBits
  Interval = 2
  BlockTime = 8
  Reward = 9
  HalvingInterval = 2
  Pace <- MCPace
  MaxHeight = 6
INVARIANTS
  TypeOK
  RewardCapped
PROPERTIES
  TargetBounded
CHECK_DEADLOCK FALSE
