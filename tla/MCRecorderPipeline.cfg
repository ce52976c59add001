\* Both encoders; two callbacks, of one or both listeners; ffmpeg and the sinks may fail.
CONSTANTS
  Backends = {"openh264", "x264"}
  ChanCap = 2
  UnitCap = 1
  PipeCap = 2
  Inside = 1
  Err = Err
  FfmpegFails = TRUE
  SinkFails = TRUE
  MaxCalls = 2
  MaxFrames = 5
SPECIFICATION Spec
INVARIANTS TypeOK ResetComesFirst TimesInOrder SuccessIsCompleteOrEmpty
PROPERTIES MovesOn
CHECK_DEADLOCK FALSE
