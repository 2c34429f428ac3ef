SPECIFICATION MCSpec
CONSTANTS
  Threads = {t, u}
  MinSamples = 2
  MaxSamples = 4
  MaxHomes = 2
  MaxCalls = 7
  Publishers = {s, t}
  Positions = {1001, 7}
  MaxMessages = 8
  MaxFailures = 1
INVARIANTS
  HandeyeInv
  GripperInv
CHECK_DEADLOCK FALSE
