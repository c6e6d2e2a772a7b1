\* A request whose options do not parse.
SPECIFICATION Spec
CONSTANTS
  a = a
  b = b
  Contexts = {s1}
  Peers = {a}
  Mids = {1, 2}
  Wire <- WireBad
  FirstRc = {"ready"}
  LateRc = {"ready"}
  Prompt <- EveryKey
  NoPdu = NoPdu
  MaxRetransmit = 2
INVARIANTS Answered
SYMMETRY Symmetry
CHECK_DEADLOCK FALSE
