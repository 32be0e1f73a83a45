SPECIFICATION CredentialSpec
CONSTANTS
  cert1 = cert1  renewed1 = renewed1  cert2 = cert2  badCert = badCert
  key1 = key1  key2 = key2  badKey = badKey
  Certificate <- MCCertificate
  Key <- MCKey
  Malformed <- MCMalformed
  Pairs <- MCPairs
  None = None
  Content <- MCContent
  LegacyContent <- MCNoLegacy
  Default = Default
  Migrated <- MCNoMigration
  Seeding = {FALSE}
  MaxGeneration = 3
  Down = Down
  NoOffer = NoOffer
INVARIANTS
  PairsMatch
  StagedHalfWaits
PROPERTIES
  ImplementsStore
