SPECIFICATION FairSpec
CONSTANTS
  Slot = {0}
  Certificates <- MCCertificates
  Clock = {2, 3}
  ClockModulus = 8
  Window = 1
  Period = 2
  QueueLength = 2
  MaxSequence = 3
  MaxVersion = 1
INVARIANTS
  OneConversation
  OldestDropped
  DeliveredByCurrentTarget
PROPERTIES
  SilentOnlyAfterWarning
  RoundsEnd
