CONSTANTS
  MaxPlayer = 4
  LoginLimit = 2
  TableSize = 2
  MinJoinMoney = 0
  DefaultMoney = 1
  Moneys = {0, 1}
  Reported = {1}
  Names = {a, b}
  Registered = {a}
  NoName = NoName
  Admin = a
  Passwords = {pw}
  NoPassword = NoPassword
  MaxAccount = 2
  DbMayFail = TRUE
  MayBan = FALSE
  MayRestart = TRUE
  MayRejoin = TRUE
  MayExempt = TRUE
  Versions = {TRUE, FALSE}
  MaxPending = 1
  NoDoc = NoDoc
  NoSession = NoSession
SPECIFICATION Spec
INVARIANTS TypeOK TablesOrderly
PROPERTY ImplementsDirectory
