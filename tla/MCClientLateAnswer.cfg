\* An answer that comes after the timeout of a user-owned context.
SPECIFICATION Spec
CONSTANTS
  con = con
  non = non
  Clients = {con}
  UserOwn = {con}
  Confirmable = {con}
  Observers = {}
  Keys = {1, 2}
  Prompt = {1, 2}
  Pdus <- PdusSeparate
  NoPdu = NoPdu
  MaxRetransmit = 2
  CntMod = 8
  MaxGo = 1
INVARIANTS NeverErrx
CHECK_DEADLOCK FALSE
