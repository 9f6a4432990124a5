SPECIFICATION FairCodecSpec
CONSTANTS
  Byte = {0, 1, 2, 3, 4, 5, 6, 7, 8}
  Inputs <- MCInputs
  BLOCK_SIZE = 288
  WINDOW_SIZE = 8
  HASH_SIZE = 3
  Hash <- MCHash
  max_chain = 8
INVARIANTS TypeOK ChainsIntact LongestMatch EndsInLiterals OutputFits FitsCompressBound
           RoundTrip
PROPERTIES KeepsPromise Termination
CHECK_DEADLOCK FALSE
