SPECIFICATION ButtonSpec
CONSTANTS
  Hold = 12
  Window = 36
  DoubleClick = 20
  Debounce = 3
  Poll = 2
  MaxLate = 1
INVARIANTS
  LettingGoEndsHold
  CancelledByDoubleClick
