\* The second encoding of the same options counts the fencepost once more.
SPECIFICATION Spec
CONSTANTS
  Calls <- FewCalls
  Foreign <- NoLists
  MaxOptions = 3
  OptLenMax = 270
  DestHost <- Host
  DestPort = 5683
  Beyond = 0
  MaxEncodes = 2
INVARIANT
  CountCoherent
CHECK_DEADLOCK FALSE
