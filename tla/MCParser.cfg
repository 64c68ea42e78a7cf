SPECIFICATION ParserSpec
CONSTANTS
  MaxLexems   = 4
  MaxOperands = 5
  IntMax      = 127
  Streams <- MCStreams
  Values  <- MCValues
INVARIANTS
  ParserTypeOK
  TreeShape
  CallStack
  Ownership
PROPERTY
  ImplementsGrammar
