CONSTANTS
  Keys = {"home"}
  Browsers = {b1, b2}
  b1 = b1
  b2 = b2
  AddressOf <- OneAddress
  Cost = 2
  Capacity = 3
  Rate = 1
  StaleAfter = 3
  CleanupEvery = 1
  MaxTime = 4
  Credentials <- TwoForOneAddress
  Refused <- TooShort
  Requests = {r1, r2}
  r1 = r1
  r2 = r2
  TokenLife = 2
  MaxUsers = 2
SPECIFICATION AccountsSpec
SYMMETRY Interchangeable
INVARIANTS
  AccountsTypeOK
  WindowBound
  StaleBucketsGo
  ChecksAreBounded
PROPERTIES
  ImplementsEagerBucket
  RegisteredMayLogIn
  ActsForWhoLoggedIn
CHECK_DEADLOCK FALSE
