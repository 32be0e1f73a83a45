SPECIFICATION Spec
CONSTANTS
  c1 = c1  c2 = c2  c3 = c3  old1 = old1  old2 = old2
  Content <- MCContent
  LegacyContent <- MCLegacyContent
  Default = c1
  Migrated <- MCMigrated
  Seeding = {TRUE, FALSE}
  MaxGeneration = 4
  Down = Down
  NoOffer = NoOffer
INVARIANTS
  AcknowledgedIsDurable
  NoRollback
PROPERTIES
  ImplementsRegister
