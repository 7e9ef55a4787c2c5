CONSTANTS
  Tile <- OneToSix
  Copies = 4
  HandSize = 16
  MaxTurns = 1
SPECIFICATION Spec
INVARIANTS WinIffSplits
CHECK_DEADLOCK FALSE
