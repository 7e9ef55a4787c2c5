SPECIFICATION Spec
CONSTANTS
  Tile <- SomeTiles
  Copies = 4
  HandSize = 16
  Families <- SomeFamilies
INVARIANTS ReadingsSound ScoresExact NothingTwice
CHECK_DEADLOCK FALSE
