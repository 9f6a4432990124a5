SPECIFICATION FairSpec
CONSTANTS
  Files <- MCFiles
  Shapes <- MCShapes
  NONE = NONE
INVARIANTS NeverBadState ReleasedOnReturn ImageIsWhole DamagedIsShown RestartsKeepPlace
PROPERTIES Returns
CHECK_DEADLOCK FALSE
