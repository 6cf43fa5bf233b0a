CONSTANTS
  Nul = "nul"
  Token <- TokenValue
  Request <- RequestValue
  Address <- AddressValue
  Blank <- BlankValue
  Digit <- DigitValue
  Lower <- LowerValue
  Ascii <- AsciiValue
  BufferSize = 21
  IntMax = 15
  W = 32
  Garbage = {13}

SPECIFICATION Spec

INVARIANTS
  TypeOK
  AddressFromSocket
  ParametersWhole
  AnnounceAsSent
  HashCanonical
  NumbersWhole
