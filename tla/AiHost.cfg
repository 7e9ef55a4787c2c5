CONSTANTS
  Places = {TRUE}
  Attempts = 3
  Engine = TRUE
  Claims <- SomeClaims
  OwnClaims <- SomeOwn
  Careless = FALSE
  Hasty = FALSE
SPECIFICATION Spec
PROPERTY QuestionsSettle
