CONSTANTS
  MaxText = 7
  IntBits = 12
  Separators = {0, 32}
  Texts <- MCTexts
  Hash <- MCHash
SPECIFICATION Spec
INVARIANTS
  WcTypeOK
  CountsAreRight
  IndexInTable
  OutputIsRight
  LostAreRepeats
