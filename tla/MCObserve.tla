------------------------------ MODULE MCObserve ------------------------------
(***************************************************************************)
(* Two clients and two resources, one of whose callbacks may be deferred.  *)
(***************************************************************************)
EXTENDS EvcoapObserve, TLC

CONSTANTS p1, p2, u1, u2

AllPeers == {p1, p2}
AllUris  == {u1, u2}
LateUris == {u2}

Symmetry == Permutations(AllPeers)
=============================================================================
