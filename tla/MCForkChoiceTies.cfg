SPECIFICATION Spec
CONSTANTS
  n1 = n1
  n2 = n2
  Node <- MCNode
  Genesis = "G"
  Block <- MCBlock
  Parent <- MCParent
  Body <- TiedBody
  VrfHeight = 1
  HardeningHeight = 1
SYMMETRY NodeSymmetry
CHECK_DEADLOCK FALSE
INVARIANTS
  Convergence
