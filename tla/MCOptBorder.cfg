\* A value of 15 bytes is encoded in the extended form and decoded as if in the short one.
SPECIFICATION Spec
CONSTANTS
  Calls <- BorderCalls
  Foreign <- NoLists
  MaxOptions = 3
  OptLenMax = 270
  DestHost <- Host
  DestPort = 5683
  Beyond = 0
  MaxEncodes = 2
INVARIANT
  RoundTripEveryLength
CHECK_DEADLOCK FALSE
