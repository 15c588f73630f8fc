CONSTANTS
  Half = 32
  Second = 5
  Modulus = 4
  Interval = 6
  MaxBehind = 31
SPECIFICATION Spec
INVARIANTS TypeOK TaskRunsOnTime
PROPERTY CountsSeconds
