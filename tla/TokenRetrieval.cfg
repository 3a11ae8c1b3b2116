SPECIFICATION Spec
CONSTANTS
  Requests = {r1, r2}
  Challenges = {c1}
  Keys = {"k1", "edpk1", "typo1", "sppk2", "k3"}
  Owner <- Wallets
  Form <- Spellings
  Urls = {"u1"}
  Devices = {"d1", "d2"}
  Protocols = {"xtz", "btc"}
  Supported = {"xtz"}
  Templates <- Mixed
  ValidationPipe = TRUE
  MaxCrashes = 0
  MaxFaults = 0
  None = None
INVARIANT TokenRetrieves
