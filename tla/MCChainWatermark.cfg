SPECIFICATION Spec
CONSTANTS
  Genesis = "G"
  Block <- MCBlock
  Parent <- MCParent
  Body <- MCBody
  OutPoint <- MCOutPoint
  LedgerAt <- MCLedgerAt
  Key <- MCKey
  Offence <- MCNone
  MaxMoney = 18
  CoinbaseMaturity = 1
  MaxI64 = 127
  InitialSubsidy = 4
  HalvingV1 = 2
  HalvingV2 = 1
  BlockTimeV2Height <- Never
  VrfHeight = 1
  RegistrationHeight <- Never
  FraudHeight = 1
  FinalityHeight = 1
  HardeningHeight = 1
  MaxReorgDepth = 2
  MaxOrphanBlocks = 2
  RegCap = 1
  AnnounceCap = 1
  FreezeDepth = 1
  ExpiryWindow = 9
  MinCommittee = 2
  QuorumNum = 2
  QuorumDen = 3
INVARIANT
  WatermarkIsReplay
