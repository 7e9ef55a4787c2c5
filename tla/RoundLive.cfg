CONSTANTS
  Seated = {1, 2, 3}
  Wall = 1
  Flowers = 1
  MaxMelds = 1
  Tiles <- FlowerWins
  HostDealt <- PlainDealt
  GuestDealt <- PlainDealt
  DealtFlower = TRUE
  HostFlower = TRUE
  Claims <- PongClaims
  Hasty = FALSE
  PlayOn = FALSE
SPECIFICATION Spec
PROPERTIES RoundsEnd WinsAreSeen
CHECK_DEADLOCK FALSE
