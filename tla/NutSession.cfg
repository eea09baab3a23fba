SPECIFICATION FairSpec
CONSTANTS
  UseTLS = TRUE
  Authenticate = TRUE
  ClaimUPS = TRUE
  Timeout = 1
  MaxRequests = 6
  MaxStrays = 1
  MaxRows = 1
INVARIANTS
  TypeOK
  InStep
  NeverInTheClear
  NoConnectionLeft
PROPERTIES
  KeepsContract
  CallsReturn
