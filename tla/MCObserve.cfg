\* Observers that come and go while rounds fail.
SPECIFICATION Spec
CONSTANTS
  p1 = p1
  p2 = p2
  u1 = u1
  u2 = u2
  Peers <- AllPeers
  Uris <- AllUris
  Deferring <- LateUris
  Mids = {0, 1}
  MayFail = TRUE
  Garbage = {TRUE, FALSE}
  MaxObservers = 3
  MaxWaiting = 1
SYMMETRY Symmetry
INVARIANTS
  TypeOK
  Consistent
  OneObserver
PROPERTY
  DroppedKnowingly
CHECK_DEADLOCK FALSE
