SPECIFICATION FairSpec
CONSTANTS
  Requests = {r1, r2}
  Challenges = {c1, c2}
  Keys = {"k1", "edpk1", "typo1", "sppk2", "k3"}
  Owner <- Wallets
  Form <- Spellings
  Urls = {"u1"}
  Devices = {"d1", "d2"}
  Protocols = {"xtz", "btc"}
  Supported = {"xtz"}
  Templates <- Mixed
  ValidationPipe = TRUE
  MaxCrashes = 1
  MaxFaults = 1
  None = None
INVARIANTS
  TypeOK
  AccountsAuthorised
  RegistrationDurable
  TokensStable
  RetrievesAll
PROPERTY Served
