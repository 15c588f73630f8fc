SPECIFICATION Spec
CONSTANTS
  Node = {0, 1, 2}
  MaxAddress = 5
  LinkStateTTL = 2
  NeighbourTTL = 9
  Modulus = 6
  FragSize = 11
  MaxPayload = 5
  Settings <- MCSettings
  None = None
CHECK_DEADLOCK FALSE
INVARIANTS
  TypeOK
  NestedFloodsAreLater
  UndisturbedFloodsReach
  HeardAgain
  DataArrives
PROPERTIES
  NewestWins
