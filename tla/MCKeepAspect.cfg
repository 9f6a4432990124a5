SPECIFICATION Spec
CONSTANTS
  Longest = 7
  Half = 57
  Err = 1
INVARIANTS OnCanvas Centred FitIsTruncated
CHECK_DEADLOCK FALSE
