CONSTANTS
  MaxData = 4
  FrameBufSize = 20
SPECIFICATION Spec
INVARIANTS StuffsWithinBound UnstuffsOrRefuses
CHECK_DEADLOCK FALSE
