CONSTANTS
  TxLengths = {1, 2}
  RxLengths = {1}
  MaxRxFrame = 2
  BusErrors = FALSE
SPECIFICATION Spec
CHECK_DEADLOCK FALSE
INVARIANT ReturnsWhetherTransmitted
