CONSTANTS
  Messages = 5
  Parts = 3
  Peek = 4
  Buffer = 5
  MayDie = TRUE
  MayHang = TRUE
SPECIFICATION Spec
INVARIANTS StreamSound NothingSkipped
PROPERTIES SendReturns SentArrives
CHECK_DEADLOCK FALSE
