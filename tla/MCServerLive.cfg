\* Every result of the callback, copies after the lifetime of their record, the MID 0 included.
SPECIFICATION FairSpec
CONSTANTS
  a = a
  b = b
  Contexts = {s1, s2}
  Peers = {a}
  Mids = {0, 1}
  Wire <- WireAgain
  FirstRc = {"ready", "wait", "error", "notfound"}
  LateRc = {"ready", "wait", "error"}
  Prompt = {}
  NoPdu = NoPdu
  MaxRetransmit = 1
INVARIANTS DuplicateGetsItsReply NeverErrx
PROPERTIES RequestsEnd
CHECK_DEADLOCK FALSE
