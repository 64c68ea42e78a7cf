SPECIFICATION ParserSpec
CONSTANTS
  MaxLexems   = 2
  MaxOperands = 3
  IntMax      = 127
  Streams <- MCStreams
  Values  <- MCValues
INVARIANT
  RightOperandIsTop
