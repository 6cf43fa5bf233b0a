CONSTANTS
  Nul = "nul"
  Token <- TokenValue
  Row <- RowValue
  Message <- MessageValue
  Count = {0, 10}
  MaxRows = 2

SPECIFICATION Spec

INVARIANTS
  NeverMisread
  WholeAnswerRead
  LengthTells
