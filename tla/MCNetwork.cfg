SPECIFICATION FairSpec
CONSTANTS
  TxCount = 2
  RxCount = 2
  RxBuffer = {b1, b2, b3}
  NoBuffer = NoBuffer
  TickRange = 2
  DhcpTimeout = 1
  MaxDelay = 1
INVARIANTS
  BuffersHaveOnePlace
  RingsInStep
  ReadyMeansUsable
PROPERTIES
  FramesAreRead
  GetsAnAddress
