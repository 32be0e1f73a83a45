SPECIFICATION TrustSpec
CONSTANTS
  root = root  other = other  vacant = vacant  down = down  noOffer = noOffer
  MaxPersisted = 1
  Certificate <- MCCertificate
  DefaultRoot = root
  Vacant = vacant
  MaxGeneration = 4
  Down = down
  NoOffer = noOffer
CONSTRAINT
  Promised
INVARIANTS
  ServedIsAcknowledged
PROPERTIES
  ImplementsRegister
