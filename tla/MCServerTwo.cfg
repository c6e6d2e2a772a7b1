\* Two clients whose requests have the same MID.
SPECIFICATION Spec
CONSTANTS
  a = a
  b = b
  Contexts = {s1, s2}
  Peers = {a, b}
  Mids = {1, 2}
  Wire <- WireTwo
  FirstRc = {"ready", "wait", "error", "notfound"}
  LateRc = {"ready"}
  Prompt <- EveryKey
  NoPdu = NoPdu
  MaxRetransmit = 2
INVARIANTS TypeOK EventsMatchState CalledOnce Answered
PROPERTIES DoneOnlyByItsAck
SYMMETRY Symmetry
CHECK_DEADLOCK FALSE
