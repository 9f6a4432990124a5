SPECIFICATION FairSpec
CONSTANTS
  Top = 4
  MinWidth = 6
  Pictures <- NoPictures
  Files <- CutFiles
  NONE = NONE
PROPERTY LoaderReturns
CHECK_DEADLOCK FALSE
