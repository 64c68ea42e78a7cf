SPECIFICATION LexerSpec
CONSTANTS
  IntMax          = 32767
  Precision       = 12
  InitialCapacity = 2
  MaxCapacity     = 8
  MaxLength       = 1
  Texts <- MCTexts
PROPERTY
  TabsIgnored
