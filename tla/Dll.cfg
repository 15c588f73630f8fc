SPECIFICATION FairSpec
CONSTANTS
  A = A
  B = B
  C = C
  Sender = A
  Receiver = B
  Node = {A, B, C}
  Broadcast = Broadcast
  FragSize = 2
  BufSize = 4
  Modulus = 8
  Settings <- MCSettings
  None = None
CHECK_DEADLOCK FALSE
INVARIANTS
  TypeOK
  ReceiverIntact
  DeliveredOnce
  AckIsAwaited
  SuccessMeansDelivered
  SequenceAgrees
  LengthAgrees
PROPERTY ImplementsChannel
