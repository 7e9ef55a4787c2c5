CONSTANTS
  Seated = {1, 2, 3}
  Wall = 2
  Flowers = 1
  MaxMelds = 1
  Tiles <- AllTiles
  HostDealt <- AnyDealt
  GuestDealt <- PlainDealt
  DealtFlower = FALSE
  HostFlower = FALSE
  Claims <- KongClaims
  Hasty = FALSE
  PlayOn = FALSE
SPECIFICATION Spec
INVARIANTS HandsSound AskedIffAwaited OneMover TurnNotLost ClaimsInTime TilesConserved
CHECK_DEADLOCK FALSE
