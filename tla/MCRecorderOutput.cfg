\* Three streams, cut anywhere; a sink that may fail.
CONSTANTS
  Streams <- MCStreams
  Times <- MCTimes
  ChunkMax = 64
  NsPerTick = 4
  MaxU32 = 5
  FirstLast = 0
  SinkMayFail = TRUE
  None = None
SPECIFICATION OutputSpec
INVARIANTS OutputTypeOK ParsesAsEncoded SamplesFollow PacketsInOrder
CHECK_DEADLOCK FALSE
