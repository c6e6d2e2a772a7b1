SPECIFICATION Spec
CONSTANTS
  c1 = c1
  c2 = c2
  s1 = s1
  s2 = s2
  Clients = {c1}
  UserOwn = {c1}
  Confirmable = {c1}
  Contexts = {s1, s2}
  Mids = {1, 2}
  FirstRc = {"ready", "wait", "error"}
  LateRc = {"ready", "error"}
  NoPdu = NoPdu
  MaxRetransmit = 1
  MaxGo = 2
INVARIANTS AnswersItsRequest
CHECK_DEADLOCK FALSE
