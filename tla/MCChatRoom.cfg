CONSTANTS
  a = a
  b = b
  c = c
  d = d
  Clients <- Four
  MaxMsgs = 2
  MaxTotal = 3
  Announces = TRUE
SPECIFICATION ShortSpec
SYMMETRY SymFour
INVARIANTS TypeOK TotalOrder Framed NothingMissed
CHECK_DEADLOCK FALSE
