CONSTANTS
  TxLengths = {1, 2}
  RxLengths = {1, 3}
  MaxRxFrame = 2
  BusErrors = TRUE
SPECIFICATION FairSpec
CHECK_DEADLOCK FALSE
INVARIANTS TypeOK SentInOrder
PROPERTIES CopiesWhatArrived TransmissionEnds
