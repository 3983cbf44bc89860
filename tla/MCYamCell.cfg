SPECIFICATION Spec
CONSTANTS
  leader = leader
  left = left
  right = right
  can0 = can0
  can1 = can1
  can2 = can2
  Arms <- MCArms
  Leaders <- MCLeaders
  PairOf <- MCPairOf
  Ids <- MCIds
  Interfaces <- MCInterfaces
  Movable <- MCMovable
  Cells <- MCCells
SYMMETRY MCSymmetry
INVARIANTS OneOwnerPerBus
PROPERTIES ImplementsArmBus MovesBesideNoFault FailedConnectUndone
