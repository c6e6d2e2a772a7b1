\* A user-owned context, recycled after each final state.
SPECIFICATION Spec
CONSTANTS
  con = con
  non = non
  Clients = {con}
  UserOwn = {con}
  Confirmable = {con}
  Observers = {con}
  Keys = {1, 2, 3, 4, 5}
  Prompt = {}
  Pdus <- PdusObserveAck
  NoPdu = NoPdu
  MaxRetransmit = 2
  CntMod = 8
  MaxGo = 2
INVARIANTS TimersMatchState ReportedOnce
CHECK_DEADLOCK FALSE
