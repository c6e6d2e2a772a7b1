\* The ACK of a request is overtaken by the response that accepts the observation.
SPECIFICATION Spec
CONSTANTS
  con = con
  non = non
  Clients = {con}
  UserOwn = {}
  Confirmable = {con}
  Observers = {con}
  Keys = {1, 2, 3, 4, 5}
  Prompt = {1, 2, 3, 4, 5}
  Pdus <- PdusObserveAck
  NoPdu = NoPdu
  MaxRetransmit = 2
  CntMod = 8
  MaxGo = 1
INVARIANTS NeverErrx
CHECK_DEADLOCK FALSE
