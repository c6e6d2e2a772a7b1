\* Without an option from Uri-Host on there is no host at all.
SPECIFICATION Spec
CONSTANTS
  Calls <- FewCalls
  Foreign <- NoLists
  MaxOptions = 3
  OptLenMax = 270
  DestHost <- Host
  DestPort = 5683
  Beyond = 0
  MaxEncodes = 2
INVARIANT
  HostDefaults
CHECK_DEADLOCK FALSE
