CONSTANTS
  Seated = {1, 3, 4}
  Base = 2
  Value = 1
  Start <- Broke
  TileScores = {1}
  MaxRounds = 2
  AddedWins = FALSE
  Doors = {}
SPECIFICATION Spec
INVARIANTS BooksSound BooksAgree AccountsMatch DealerStake KongCounted
CHECK_DEADLOCK FALSE
