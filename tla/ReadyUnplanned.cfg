SPECIFICATION Spec
CONSTANTS
  MaxFrames = 1
  MaxMoves = 3
  MaxErrors = 0
INVARIANT
  ReleasedAtReady
