\* A plain CON request and a NON observer on one base: safety and liveness.
SPECIFICATION FairSpec
CONSTANTS
  con = con
  non = non
  Clients = {con, non}
  UserOwn = {}
  Confirmable = {con}
  Observers = {non}
  Keys = {1, 2, 3, 4, 5}
  Prompt = {1, 2, 3}
  Pdus <- PdusBoth
  NoPdu = NoPdu
  MaxRetransmit = 4
  CntMod = 8
  MaxGo = 1
INVARIANTS TypeOK RetransmissionsBounded FreedIsUnreachable NeverErrx
PROPERTIES RequestEnds CancelledEnds
CHECK_DEADLOCK FALSE
