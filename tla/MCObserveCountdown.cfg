\* A round that ends early leaves the observers without a countdown.
SPECIFICATION Spec
CONSTANTS
  p1 = p1
  p2 = p2
  u1 = u1
  u2 = u2
  Peers <- AllPeers
  Uris <- AllUris
  Deferring <- LateUris
  Mids = {0, 1}
  MayFail = TRUE
  Garbage = {FALSE}
  MaxObservers = 2
  MaxWaiting = 1
SYMMETRY Symmetry
INVARIANT
  CountdownRuns
CHECK_DEADLOCK FALSE
