CONSTANTS
  MaxPlayer = 5
  LoginLimit = 3
  TableSize = 2
  MinJoinMoney = 0
  DefaultMoney = 1
  Moneys = {0, 1}
  Reported = {0, 1}
  Names = {a, b}
  Registered = {a, b}
  NoName = NoName
  Admin = Admin
  Passwords = {pw}
  NoPassword = NoPassword
  MaxAccount = 2
  DbMayFail = FALSE
  MayBan = TRUE
  MayRestart = FALSE
  MayRejoin = FALSE
  MayExempt = FALSE
  Versions = {TRUE}
  MaxPending = 1
  NoDoc = NoDoc
  NoSession = NoSession
SYMMETRY NameSymmetry
SPECIFICATION Spec
INVARIANTS LoginsMatch CachedMoneyCurrent HeadCountExact SlotsSuffice
PROPERTIES AccountWrites
