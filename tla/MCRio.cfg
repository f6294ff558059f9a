CONSTANTS
  MaxText = 5
  NewLine = 10
  MaxLen = 3
  BufSize = 2
  SocketSize = 3
  Texts <- MCTexts
SPECIFICATION Spec
INVARIANTS
  RioTypeOK
  ZeroOnlyAtTheEnd
PROPERTIES
  ReadsTheStream
  TransferEnds
