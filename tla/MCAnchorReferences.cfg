SPECIFICATION Spec
CONSTANTS
  free = free  down = down  noOffer = noOffer
  MaxPersisted = 2
  MaxResources = 2
  Free = free
  Down = down
  NoOffer = noOffer
INVARIANTS
  NoDanglingReference
  FlashIsWhole
