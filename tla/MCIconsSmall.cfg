SPECIFICATION Spec
CONSTANTS
  PngSizes <- MCPngSizes
  Widths <- MCWidths
  Heights <- MCHeights
INVARIANT EntriesPointAtImages
CHECK_DEADLOCK FALSE
