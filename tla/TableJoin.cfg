CONSTANTS
  Nobody = Nobody
  Joiners = {a, b}
  MaxConns = 3
  MaxPlayer = 5
  TableSize = 3
  PlayerNum = 3
  MaxLost = 1
  Overlap = FALSE
SPECIFICATION Spec
INVARIANTS OwnNameAndMoney SeatsSound CountsAgree
PROPERTY JoinersGetIn
CHECK_DEADLOCK FALSE
