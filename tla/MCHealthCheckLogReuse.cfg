SPECIFICATION LogSpec
CONSTANTS
  SlotCount = 3
  MaxFaults = 1
  MaxLogSequence = 7
  MaxResults = 4
PROPERTIES
  SequenceIsMonotonic
