\* The rescheduled callback returns EC_CBRC_ERROR.
SPECIFICATION Spec
CONSTANTS
  a = a
  b = b
  Contexts = {s1}
  Peers = {a, b}
  Mids = {1, 2}
  Wire <- WireTwo
  FirstRc = {"wait"}
  LateRc = {"error"}
  Prompt <- EveryKey
  NoPdu = NoPdu
  MaxRetransmit = 2
INVARIANTS Answered
SYMMETRY Symmetry
CHECK_DEADLOCK FALSE
