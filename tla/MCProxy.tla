------------------------------- MODULE MCProxy -------------------------------
(***************************************************************************)
(* Instances of HttpProxy for TLC: two GETs, of a representation in two    *)
(* blocks and of one in a single datagram, and a PUT.                      *)
(***************************************************************************)
EXTENDS HttpProxy

CONSTANTS get1, get2, put, log, temp

ProxyUris == [r \in Reqs |-> IF r = get2 THEN temp ELSE log]

ProxyMethods == [r \in Reqs |-> IF r = put THEN "put" ELSE "get"]

\* The others have an Accept that comes after a type that is not known.
ProxyHeaders ==
  [r \in Reqs |->
    IF r = get1 THEN <<>>
    ELSE <<[name |-> "Content-Type", known |-> FALSE],
           [name |-> "Accept", known |-> TRUE]>>]

ProxyBlocks == [u \in Uris |-> IF u = log THEN 2 ELSE 0]
=============================================================================
