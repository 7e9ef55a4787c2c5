CONSTANTS
  Places = {TRUE, FALSE}
  Attempts = 3
  Engine = TRUE
  Claims <- SomeClaims
  OwnClaims <- SomeOwn
  Careless = FALSE
  Hasty = FALSE
SPECIFICATION Spec
INVARIANTS AnsweredOnce MoveInOnePlace AnswersSound
PROPERTIES GoesOn
