SPECIFICATION Spec
CONSTANTS
  Requests = {r1, r2, r3}
  Challenges = {c1}
  Keys = {"k1", "edpk1", "typo1", "sppk2", "k3"}
  Owner <- Wallets
  Form <- Spellings
  Urls = {"u1"}
  Devices = {"d1", "d2"}
  Protocols = {"xtz", "btc"}
  Supported = {"xtz"}
  Templates <- Using
  ValidationPipe = FALSE
  MaxCrashes = 1
  MaxFaults = 0
  None = None
INVARIANTS
  RegistrationDurable
  TokensStable
  FailsOnlyByRace
  ReplayRefused
  RevocationFinal
  RetrievesOnlyOwn
  TokenRetrieves
PROPERTIES
  OnlyRevokeRemoves
  ImplementsRegistry
SYMMETRY Interchangeable
