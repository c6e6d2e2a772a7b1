SPECIFICATION Spec
CONSTANTS
  c1 = c1
  c2 = c2
  s1 = s1
  s2 = s2
  Clients = {c1}
  UserOwn = {}
  Confirmable = {}
  Contexts = {s1, s2}
  Mids = {1, 2, 3}
  FirstRc = {"ready", "wait", "error"}
  LateRc = {"ready", "error"}
  NoPdu = NoPdu
  MaxRetransmit = 2
  MaxGo = 1
INVARIANTS NeitherExits
PROPERTIES Contract
CHECK_DEADLOCK FALSE
