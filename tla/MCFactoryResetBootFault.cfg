SPECIFICATION Spec
CONSTANTS
  SectorCount = 3
  MaxFaults = 3
INVARIANTS
  CompletesBeforeOpening
