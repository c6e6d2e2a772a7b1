\* A client takes a MID again while the request before it is still open.
SPECIFICATION Spec
CONSTANTS
  a = a
  b = b
  Contexts = {s1, s2}
  Peers = {a}
  Mids = {0, 1}
  Wire <- WireAgain
  FirstRc = {"ready", "wait", "error", "notfound"}
  LateRc = {"ready", "wait", "error"}
  Prompt = {}
  NoPdu = NoPdu
  MaxRetransmit = 1
INVARIANTS CorrespondingRecord
CHECK_DEADLOCK FALSE
