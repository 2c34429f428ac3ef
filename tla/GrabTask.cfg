SPECIFICATION MCSpec
CONSTANTS
  MaxFrames = 2
  MaxMoves = 3
  MaxErrors = 1
  CameraFrames = 3
INVARIANTS
  TypeOK
  ClosesGently
  OpenBetweenTasks
  CameraTypeOK
  PublishedInOrder
  WorkerIsSafe
PROPERTIES
  TargetsNeverGoBack
  ArmNeverGoesBack
  TasksEnd
  ImplementsMailbox
  NewestComesOut
  NodeEnds
