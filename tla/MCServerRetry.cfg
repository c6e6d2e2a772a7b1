\* A separate response is retransmitted.
SPECIFICATION Spec
CONSTANTS
  a = a
  b = b
  Contexts = {s1}
  Peers = {a, b}
  Mids = {1, 2}
  Wire <- WireTwo
  FirstRc = {"wait"}
  LateRc = {"ready"}
  Prompt <- EveryKey
  NoPdu = NoPdu
  MaxRetransmit = 2
INVARIANTS ResponseMidKept TokenMirrored
SYMMETRY Symmetry
CHECK_DEADLOCK FALSE
