SPECIFICATION RingSpec
CONSTANTS
  Sizes <- AllSizes
  Kinds = {"cubic", "box"}
INVARIANTS RingHasRoom LinesAreWhole InMargin
CHECK_DEADLOCK FALSE
