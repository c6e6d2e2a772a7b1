------------------------------ MODULE MCClient ------------------------------
(***************************************************************************)
(* Instances of EvcoapClient for TLC.  Keys are small numbers: one for     *)
(* each message that the peer sends.                                       *)
(***************************************************************************)
EXTENDS EvcoapClient

Msg(k, code, obs) == [key |-> k, code |-> code, ok |-> TRUE, obs |-> obs]
Bad(k, code) == [key |-> k, code |-> code, ok |-> FALSE, obs |-> NoObs]

(* The empty ACK of a request and the separate response to it.  The two    *)
(* contexts talk to one peer, and one MID of it (key 3) serves both: the   *)
(* reset of one request, a response to another and an empty CON.           *)
CONSTANTS con, non    \* a context that sends CON, one that sends NON
Separate(k) == {Msg(k, "ack", NoObs), Msg(k + 1, "content", NoObs)}
Shared == {Msg(3, "rst", NoObs), Bad(3, "content"), Bad(3, "ping")}
PdusPlain == [c \in Clients |-> Shared \cup Separate(IF c = con THEN 1 ELSE 4)]
PdusSeparate == [c \in Clients |-> Separate(1)]

(* An observation: the response that accepts it, two notifications and the *)
(* ways in which the server ends it; with or without the ACK.              *)
Observe == {Msg(2, "content", 1), Msg(3, "content", 2), Msg(4, "content", 3),
            Msg(5, "deleted", 3), Msg(5, "error500", NoObs),
            Msg(5, "content", NoObs)}
PdusObserve == [c \in Clients |-> Observe]

(* A plain CON request and an observation that share a MID of the peer.    *)
PdusBoth ==
  [c \in Clients |->
    IF c = con THEN Separate(1) \cup {Msg(3, "rst", NoObs), Bad(3, "ping")}
    ELSE {Msg(3, "content", 1), Msg(4, "content", 2), Msg(5, "deleted", 3),
          Bad(5, "content"), Msg(5, "content", NoObs)}]
PdusObserveAck == [c \in Clients |-> Observe \cup {Msg(1, "ack", NoObs)}]
=============================================================================
