SPECIFICATION NativeSpec
CONSTANTS
  MaxOps       = 1
  CodeBytes    = 16
  FrameBytes   = 1024
  StaticsBytes = 192
  OpSequences <- MCOpSequences
INVARIANT
  ReturnsToMain
