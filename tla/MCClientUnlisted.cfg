\* One request fails to resolve while another is in flight.
SPECIFICATION Spec
CONSTANTS
  con = con
  non = non
  Clients = {con, non}
  UserOwn = {}
  Confirmable = {con}
  Observers = {}
  Keys = {1, 2, 3, 4, 5}
  Prompt = {1, 2, 3, 4, 5}
  Pdus <- PdusPlain
  NoPdu = NoPdu
  MaxRetransmit = 2
  CntMod = 8
  MaxGo = 1
INVARIANTS NeverCrash
CHECK_DEADLOCK FALSE
