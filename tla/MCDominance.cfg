SPECIFICATION DominanceSpec
CONSTANTS
  n1 = n1
  n2 = n2
  Node <- MCNode
  Genesis = "G"
  Block <- MCBlock
  Parent <- MCParent
  Body <- RankedBody
  VrfHeight = 1
  HardeningHeight <- Never
  Invalid = {"X3"}
  Miner <- MCMiner
  Reward <- MCReward
  DominanceHeight = 1
  WindowLen = 1
  Lookback = 3
  PruneMargin = 1
SYMMETRY NodeSymmetry
INVARIANTS
  Convergence
  Settled
  WeightsAreReplay
