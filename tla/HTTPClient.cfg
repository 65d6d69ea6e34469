CONSTANTS
  Requests <- SomeRequests
  Bodies <- SomeBodies
  Parts <- SomeParts
  Pieces <- SomePieces
  Decimal <- DecimalSymbol
  MaxLength = 3
  Chunk = 20
  MaxParts = 4
  SizeT = 64
SPECIFICATION PeerSpec
INVARIANT RequestIsRead WholeRequestIsRecognised ResponseIsRead
CHECK_DEADLOCK FALSE
