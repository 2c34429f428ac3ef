SPECIFICATION MCSpec
CONSTANTS
  MaxHandles = 4
  MaxCalls = 3
  MaxFailures = 1
  Videos = {v, w}
  WaitingList = 2
  GyroTimes = {2}
  AccelTimes = {1, 3}
  MaxReadings = 5
  MaxFrames = 2
INVARIANTS
  TypeOK
  
  ImuInv
PROPERTIES
  
  HeldIsPublished
CHECK_DEADLOCK FALSE
