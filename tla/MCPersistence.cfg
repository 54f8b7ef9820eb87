SPECIFICATION FairSpec
CONSTANTS
  Block <- MCBlock
  Genesis = "G"
  Parent <- MCParent
  Body <- MCBody
  VrfHeight <- Never
  HardeningHeight <- Never
  Mined = {"A1"}
  Inbound = {"B2"}
  Outbound = {"B1"}
  QueueCap = 1
  Window = 2
  BatchSize = 2
  MaxUpsets = 1
INVARIANTS
  TypeOK
  QueueLenExact
  NoHoleBelowContiguous
  ContiguousSurvivesCrash
PROPERTIES
  NoSilentOverwrite
  CatchesUp
CHECK_DEADLOCK FALSE
