\* A late notification stays in the response set.
SPECIFICATION Spec
CONSTANTS
  con = con
  non = non
  Clients = {con}
  UserOwn = {}
  Confirmable = {con}
  Observers = {con}
  Keys = {1, 2, 3, 4, 5}
  Prompt = {1, 2, 3, 4, 5}
  Pdus <- PdusObserve
  NoPdu = NoPdu
  MaxRetransmit = 2
  CntMod = 8
  MaxGo = 1
INVARIANTS ResponseSetReusable
CHECK_DEADLOCK FALSE
