CONSTANTS
  MaxData = 2
  FrameBufSize = 16
SPECIFICATION Spec
INVARIANT StuffedFramesArrive
CHECK_DEADLOCK FALSE
