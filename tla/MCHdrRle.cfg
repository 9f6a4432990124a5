SPECIFICATION FairSpec
CONSTANTS
  Top = 4
  MinWidth = 6
  Pictures <- MCPictures
  Files <- OtherFiles
  NONE = NONE
INVARIANTS ReadsBack InScanline
PROPERTY Ends
CHECK_DEADLOCK FALSE
