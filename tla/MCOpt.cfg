\* Every order of calls at the limits of the codec.
SPECIFICATION Spec
CONSTANTS
  Calls <- LimitCalls
  Foreign <- UnknownLists
  MaxOptions = 3
  OptLenMax = 270
  DestHost <- Host
  DestPort = 5683
  Beyond = 0
  MaxEncodes = 2
INVARIANTS
  TypeOK
  Sorted
  ArgsKept
  FitsBuffer
  RoundTrip
  UrlKept
CHECK_DEADLOCK FALSE
