SPECIFICATION FairSpec
CONSTANTS
  Environment = "production"
  Images = {1, 2, 4}
  Keys <- MCKeys
  Urls <- MCUrls
  Devices <- MCDevices
  MaxRollouts = 3
  MaxInserts = 2
  MaxKills = 1
  MaxReverts = 2
INVARIANTS
  TypeOK
  SchemaOfApplied
  EntityFits
  RefusedOnlyForPeer
PROPERTIES
  UpgradeKeepsRegistrations
  RolloutServes
CHECK_DEADLOCK FALSE
