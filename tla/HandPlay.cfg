CONSTANTS
  Tile <- NinesAndWinds
  Copies = 4
  HandSize = 7
  MaxTurns = 2
SPECIFICATION Spec
INVARIANTS CopiesAgree HandsKept OffersAreReal WinIffSplits
CHECK_DEADLOCK FALSE
