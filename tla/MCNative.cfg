SPECIFICATION NativeSpec
CONSTANTS
  MaxOps       = 3
  CodeBytes    = 16
  FrameBytes   = 1024
  StaticsBytes = 192
  OpSequences <- MCOpSequences
INVARIANTS
  NativeTypeOK
  CodeFits
  NativeStores
  StaysInside
