SPECIFICATION Spec
CONSTANTS
  Genesis = "G"
  Block <- MCBlock
  Parent <- MCParent
  Body <- MCBody
  OutPoint <- MCOutPoint
  LedgerAt <- MCLedgerAt
  Key <- MCKey
  Offence <- MCOffence
  MaxMoney = 18
  CoinbaseMaturity = 1
  MaxI64 = 127
  InitialSubsidy = 4
  HalvingV1 = 2
  HalvingV2 = 1
  BlockTimeV2Height = 1
  VrfHeight = 1
  RegistrationHeight = 1
  FraudHeight = 1
  FinalityHeight = 3
  HardeningHeight <- Never
  MaxReorgDepth = 10
  MaxOrphanBlocks = 2
  RegCap = 1
  AnnounceCap = 1
  FreezeDepth = 1
  ExpiryWindow = 2
  MinCommittee = 2
  QuorumNum = 2
  QuorumDen = 3
INVARIANTS
  LedgerIsReplay
  FinalizedStays
  WatermarkIsReplay
PROPERTY
  FollowsForkChoice
