SPECIFICATION Spec
CONSTANTS
  A = A
  B = B
  C = C
  Sender = A
  Receiver = B
  Node = {A, B}
  Broadcast = Broadcast
  FragSize = 2
  BufSize = 4
  Modulus = 8
  Settings <- MCExchange
  None = None
CHECK_DEADLOCK FALSE
INVARIANT DeliveredIntact
