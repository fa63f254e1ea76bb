CONSTANTS
  Nodes = {n1, n2}
  Epochs = {0, 1}
  N = 3
  Period = 4
SPECIFICATION Spec
INVARIANTS
  PlacementInv
  OneChunkPerNode
  InverseOfPlacement
  SamePlacementEverywhere
PROPERTY PlacementTerminates
