\* A user-owned context is used twice, then freed.
SPECIFICATION Spec
CONSTANTS
  con = con
  non = non
  Clients = {con}
  UserOwn = {con}
  Confirmable = {con}
  Observers = {}
  Keys = {1, 2}
  Prompt = {1, 2}
  Pdus <- PdusSeparate
  NoPdu = NoPdu
  MaxRetransmit = 2
  CntMod = 8
  MaxGo = 2
INVARIANTS FreedIsUnreachable
CHECK_DEADLOCK FALSE
