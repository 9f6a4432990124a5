SPECIFICATION Spec
CONSTANTS
  Frames <- MCFrames
  NONE = NONE
INVARIANTS LinesAreRight ReadsThePictureOnly ReadsAsNeeded
PROPERTY OneLinePerCall
CHECK_DEADLOCK FALSE
