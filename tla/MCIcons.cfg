SPECIFICATION Spec
CONSTANTS
  PngSizes <- MCPngSizes
  Widths <- MCWidths
  Heights <- MCHeights
INVARIANTS DirectoryIsTrue ChunksTileTheFile BmpReadsBack
PROPERTY ImagesStay
CHECK_DEADLOCK FALSE
