SPECIFICATION FairSpec
CONSTANTS
  SectorCount = 3
  MaxFaults = 3
INVARIANTS
  ResumableOrComplete
  OpensWholeState
PROPERTIES
  WipeEnds
