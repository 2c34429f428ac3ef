SPECIFICATION FairSpec
CONSTANTS
  MaxHandles = 2
  MaxCalls = 0
  MaxFailures = 0
PROPERTY Reconnects
CHECK_DEADLOCK FALSE
